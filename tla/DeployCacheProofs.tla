------------------------- MODULE DeployCacheProofs -------------------------
(***************************************************************************)
(* Theorems about the deploy cache, for any number of processes, modules,  *)
(* commits and attempts.                                                   *)
(*                                                                         *)
(* The lock, whatever the users do: LockExclusive is inductive given the   *)
(* types.  The lock file is created only when there is none, and removed   *)
(* only by its owner; a kill leaves it to nobody, so nobody enters any     *)
(* more.                                                                   *)
(*                                                                         *)
(* The two markers, for users who keep to the discipline: DisciplineInv    *)
(* says what each command has made true at each of its positions, from     *)
(* which the cache tells the truth and deploy all keeps its word.          *)
(***************************************************************************)
EXTENDS DeployCache, TLAPS

USE DEF Commit, Mark, Artifact

(* A running command's record stays one under each of its assignments. *)
LEMMA RunFields ==
  ASSUME NEW r \in Run
  PROVE  /\ \A x \in PCs : [r EXCEPT !.pc = x] \in Run
         /\ \A x \in PCs, y \in SUBSET Module : [r EXCEPT !.pc = x, !.todo = y] \in Run
         /\ \A x \in PCs, y \in Mark : [r EXCEPT !.target = y, !.pc = x] \in Run
         /\ \A y \in Mark : [r EXCEPT !.done = r.done \cup {"head"}, !.target = y] \in Run
         /\ \A y \in Mark : [r EXCEPT !.done = r.done \cup {"marker"}, !.mark = y] \in Run
         /\ \A y \in SUBSET Module : [r EXCEPT !.done = r.done \cup {"list"}, !.todo = y] \in Run
         /\ \A y \in SUBSET Module, b \in BOOLEAN : [r EXCEPT !.todo = y, !.copied = b] \in Run
         /\ \A n \in 0..(Attempts - 1) : [r EXCEPT !.tries = n] \in Run
         /\ [r EXCEPT !.quiet = FALSE] \in Run
  BY DEF Run, Reads

LEMMA IdleType == Idle \in Run /\ Idle.pc = "idle"
<1>1. (CHOOSE m \in Module : TRUE) \in Module
  BY ConstantsAssumption DEF ConstantsAssumption
<1> QED BY <1>1, ConstantsAssumption DEF Idle, Run, PCs, ConstantsAssumption

(* The three ways a step moves its command on keep it a record of its type. *)
LEMMA Moves ==
  ASSUME proc \in [Proc -> Run], NEW p \in Proc
  PROVE  /\ End(p) => proc' \in [Proc -> Run]
         /\ \A x \in PCs : Goto(p, x) => proc' \in [Proc -> Run]
         /\ \A x \in PCs, y \in SUBSET Module : GotoWith(p, x, y) => proc' \in [Proc -> Run]
<1>1. End(p) => proc' \in [Proc -> Run]
  BY IdleType DEF End
<1>2. ASSUME NEW x \in PCs, Goto(p, x) PROVE proc' \in [Proc -> Run]
  BY <1>2, RunFields DEF Goto
<1>3. ASSUME NEW x \in PCs, NEW y \in SUBSET Module, GotoWith(p, x, y) PROVE proc' \in [Proc -> Run]
  BY <1>3, RunFields DEF GotoWith
<1> QED BY <1>1, <1>2, <1>3

(* The types hold initially. *)
LEMMA InitTypes == Init => TypeOK
<1> SUFFICES ASSUME Init PROVE TypeOK
  OBVIOUS
<1>1. proc \in [Proc -> Run]
  BY IdleType DEF Init
<1>2. launches \in 0..MaxLaunches[world]
  BY ConstantsAssumption DEF Init, ConstantsAssumption
<1>3. head \in 0..MaxCommit
  BY ConstantsAssumption DEF Init, ConstantsAssumption
<1> QED BY <1>1, <1>2, <1>3 DEF Init, TypeOK

(* Every step of a command keeps the types. *)
LEMMA StepTypes ==
  ASSUME TypeOK, NEW p \in Proc, Step(p)
  PROVE  TypeOK'
<1> USE DEF TypeOK
<1>r. proc[p] \in Run
  OBVIOUS
<1>m. head \in Mark /\ cached \in Mark /\ marker \in Mark
  OBVIOUS
<1>f. \A d \in [Module -> Artifact] : Files(d) \subseteq Module
  BY DEF Files
<1>1. CASE AllReads(p)
  <2>1. CASE ReadMarker(p)
    BY <1>1, <2>1, <1>r, <1>m, RunFields DEF AllReads, ReadMarker, sources, built, store
  <2>2. CASE ReadHead(p)
    BY <1>1, <2>2, <1>r, <1>m, RunFields DEF AllReads, ReadHead, sources, built, store
  <2>3. CASE ReadList(p)
    BY <1>1, <2>3, <1>r, <1>f, RunFields DEF AllReads, ReadList, sources, built, store
  <2>4. CASE Decide(p)
    <3> DEFINE hit == CacheHit(proc[p])
               r == [proc[p] EXCEPT !.pc = IF hit THEN "restore" ELSE "gradle", !.done = {}, !.mark = None,
                                    !.target = None, !.todo = IF hit THEN proc[p].todo ELSE {}]
    <3>1. r \in Run
      BY <1>r DEF Run, PCs
    <3>2. proc' = [proc EXCEPT ![p] = r]
      BY <2>4 DEF Decide
    <3>3. proc' \in [Proc -> Run]
      BY <3>1, <3>2
    <3> QED BY <1>1, <3>3 DEF AllReads, sources, built, store
  <2> QED BY <1>1, <2>1, <2>2, <2>3, <2>4 DEF AllReads
<1>2. CASE Gradle(p)
  <2>1. \A m \in Module : Tree(m) \in Artifact
    BY DEF Tree
  <2>2. dist' \in [Module -> Artifact] /\ build' \in [Module -> Artifact]
    BY <1>2, <2>1 DEF Gradle
  <2>3. proc' \in [Proc -> Run]
    BY <1>2, Moves DEF Gradle, PCs
  <2> QED BY <1>2, <2>2, <2>3 DEF Gradle, sources, store
<1>3. CASE ToBuild(p)
  <2>1. proc[p].m \in Module
    BY <1>r DEF Run
  <2>2. proc' \in [Proc -> Run]
    BY <1>3, <1>r, <2>1, RunFields DEF ToBuild, GotoWith, PCs
  <2> QED BY <1>3, <2>1, <2>2 DEF ToBuild, sources, store
<1>4. CASE TargetCommit(p)
  BY <1>4, <1>r, <1>m, RunFields DEF TargetCommit, PCs, sources, built, store
<1>5. CASE Stamp(p)
  <2>1. proc[p].target \in Mark /\ None \in Mark
    BY <1>r DEF Run
  <2>2. proc' \in [Proc -> Run]
    BY <1>5, <1>r, <2>1, RunFields DEF Stamp, PCs
  <2> QED BY <1>5, <2>1, <2>2 DEF Stamp, sources, store
<1>6. CASE List(p)
  <2>1. proc' \in [Proc -> Run]
    BY <1>6, <1>f, Moves DEF List, PCs
  <2> QED BY <1>6, <2>1 DEF List, sources, built, store
<1>7. CASE Sync(p)
  <2>1. CASE Acquire(p)
    <3>1. proc' \in [Proc -> Run]
      BY <2>1, <1>r, RunFields DEF Acquire, Goto, PCs, Critical
    <3> QED BY <2>1, <3>1 DEF Acquire, sources, built, store
  <2>2. CASE Retry(p)
    <3>1. proc[p].tries \in 0..(Attempts - 1) /\ Attempts \in Nat \ {0}
      BY <1>r, ConstantsAssumption DEF Run, ConstantsAssumption
    <3>2. ~TimedOut(p) => (IF proc[p].tries < Attempts THEN proc[p].tries + 1 ELSE proc[p].tries) \in 0..(Attempts - 1)
      BY <3>1 DEF TimedOut
    <3> DEFINE n == IF proc[p].tries < Attempts THEN proc[p].tries + 1 ELSE proc[p].tries
    <3>4. ASSUME End(p) PROVE proc' \in [Proc -> Run]
      BY <3>4, Moves
    <3>5. ASSUME ~TimedOut(p), proc' = [proc EXCEPT ![p] = [proc[p] EXCEPT !.tries = n]]
          PROVE  proc' \in [Proc -> Run]
      BY <3>5, <1>r, <3>2, RunFields
    <3>3. proc' \in [Proc -> Run]
      BY <2>2, <3>4, <3>5 DEF Retry
    <3> QED BY <2>2, <3>3 DEF Retry, sources, built, store
  <2>3. CASE ClearOne(p)
    BY <2>3 DEF ClearOne, sources, built
  <2>4. CASE ClearDone(p)
    <3>1. proc' \in [Proc -> Run]
      BY <2>4, <1>r, RunFields DEF ClearDone, Goto, PCs, Critical
    <3> QED BY <2>4, <3>1 DEF ClearDone, sources, built
  <2>5. CASE CopyOne(p)
    <3>1. PICK m \in proc[p].todo :
            /\ cache' = IF Source(p)[m] = None THEN cache ELSE [cache EXCEPT ![m] = Source(p)[m]]
            /\ proc' = [proc EXCEPT ![p].todo = @ \ {m}, ![p].copied = @ \/ Source(p)[m] # None]
      BY <2>5 DEF CopyOne
    <3>2. m \in Module /\ Source(p) \in [Module -> Artifact] /\ proc[p].todo \ {m} \in SUBSET Module
          /\ proc[p].copied \in BOOLEAN
      BY <1>r DEF Source, Run
    <3>3. cache' \in [Module -> Artifact]
      BY <3>1, <3>2
    <3>4. proc' \in [Proc -> Run]
      BY <3>1, <3>2, <1>r, RunFields
    <3> QED BY <2>5, <3>3, <3>4 DEF CopyOne, sources, built
  <2>6. CASE CopyDone(p)
    <3>1. proc' \in [Proc -> Run]
      BY <2>6, <1>r, RunFields DEF CopyDone, Goto, PCs, Critical
    <3> QED BY <2>6, <3>1 DEF CopyDone, sources, built, store
  <2>7. CASE ReadArtifactCommit(p)
    <3>1. proc' \in [Proc -> Run]
      BY <2>7, <1>r, <1>m, RunFields DEF ReadArtifactCommit, ArtifactCommit, PCs, Critical
    <3> QED BY <2>7, <3>1 DEF ReadArtifactCommit, sources, built, store
  <2>8. CASE StampCache(p)
    <3>1. proc' \in [Proc -> Run]
      BY <2>8, Moves DEF StampCache, PCs, Critical
    <3>2. proc[p].target \in Mark
      BY <1>r DEF Run
    <3> QED BY <2>8, <3>1, <3>2 DEF StampCache, sources, built
  <2>9. CASE Release(p)
    <3>1. proc' \in [Proc -> Run]
      BY <2>9, IdleType DEF Release, End
    <3> QED BY <2>9, <3>1 DEF Release, sources, built, store
  <2>10. CASE SyncFails(p)
    <3>1. proc' \in [Proc -> Run]
      BY <2>10, Moves DEF SyncFails, PCs, Critical
    <3> QED BY <2>10, <3>1 DEF SyncFails, sources, built, store
  <2> QED BY <1>7, <2>1, <2>2, <2>3, <2>4, <2>5, <2>6, <2>7, <2>8, <2>9, <2>10 DEF Sync
<1>8. CASE Restore(p)
  <2>1. CASE Look(p) \/ ListCache(p)
    <3>0. Files(cache) \subseteq Module /\ Files(cache) \ Zips \subseteq Module
      BY <1>f
    <3>1. proc' \in [Proc -> Run]
      BY <2>1, <3>0, Moves DEF Look, ListCache, PCs
    <3> QED BY <2>1, <3>1 DEF Look, ListCache, sources, built, store
  <2>2. CASE RestoreOne(p)
    <3>1. PICK m \in proc[p].todo :
            /\ build' = IF cache[m] = None THEN build ELSE [build EXCEPT ![m] = cache[m]]
            /\ GotoWith(p, "restore", proc[p].todo \ {m})
      BY <2>2 DEF RestoreOne
    <3>2. m \in Module /\ proc[p].todo \ {m} \in SUBSET Module
      BY <1>r DEF Run
    <3>3. proc' \in [Proc -> Run]
      BY <3>1, <3>2, <1>r, RunFields DEF GotoWith, PCs
    <3>4. build' \in [Module -> Artifact]
      BY <3>1, <3>2
    <3> QED BY <2>2, <3>3, <3>4 DEF RestoreOne, sources, store
  <2>3. CASE RestoreDone(p)
    <3>1. proc' \in [Proc -> Run]
      BY <2>3, <1>r, RunFields DEF RestoreDone, Goto, PCs
    <3> QED BY <2>3, <3>1 DEF RestoreDone, sources, built, store
  <2>4. CASE ReadCached(p)
    <3>2. ASSUME End(p) PROVE proc' \in [Proc -> Run]
      BY <3>2, Moves
    <3>3. ASSUME proc' = [proc EXCEPT ![p].target = cached, ![p].pc = "stampBuild"]
          PROVE  proc' \in [Proc -> Run]
      BY <3>3, <1>r, <1>m, RunFields DEF PCs
    <3>1. proc' \in [Proc -> Run]
      BY <2>4, <3>2, <3>3 DEF ReadCached
    <3> QED BY <2>4, <3>1 DEF ReadCached, sources, built, store
  <2>5. CASE StampBuild(p)
    <3>1. proc' \in [Proc -> Run] /\ proc[p].target \in Mark
      BY <2>5, <1>r, IdleType DEF StampBuild, End, Run
    <3> QED BY <2>5, <3>1 DEF StampBuild, sources, store
  <2> QED BY <1>8, <2>1, <2>2, <2>3, <2>4, <2>5 DEF Restore
<1> QED BY <1>1, <1>2, <1>3, <1>4, <1>5, <1>6, <1>7, <1>8 DEF Step

(* So do the users, a new command and a kill. *)
LEMMA DisturbTypes == ASSUME TypeOK, Disturb PROVE proc' \in [Proc -> Run]
BY RunFields DEF TypeOK, Disturb, Took

LEMMA UserTypes ==
  ASSUME TypeOK, Users PROVE TypeOK'
<1> USE DEF TypeOK
<1>1. proc' \in [Proc -> Run]
  BY DisturbTypes DEF Users, CommitAll, Checkout, Edit, Wipe
<1>2. CASE CommitAll
  <2>1. head' \in Commit
    BY <1>2, ConstantsAssumption DEF CommitAll, ConstantsAssumption
  <2> QED BY <1>1, <1>2, <2>1 DEF CommitAll, built, store
<1>3. CASE Checkout
  BY <1>1, <1>3 DEF Checkout, built, store
<1>4. CASE Edit
  BY <1>1, <1>4 DEF Edit, built, store
<1>5. CASE Wipe
  BY <1>1, <1>5 DEF Wipe, sources, store
<1> QED BY <1>2, <1>3, <1>4, <1>5 DEF Users

LEMMA LaunchTypes ==
  ASSUME TypeOK, NEW p \in Proc, Launch(p) PROVE TypeOK'
<1> USE DEF TypeOK
<1>1. PICK cmd \in Cmds, m \in Module :
        proc' = [proc EXCEPT ![p] = [Idle EXCEPT !.cmd = cmd, !.m = m, !.pc = FirstStep(cmd), !.quiet = TRUE]]
  BY DEF Launch
<1>2. cmd \in CmdNames /\ FirstStep(cmd) \in PCs
  BY ConstantsAssumption DEF ConstantsAssumption, CmdNames, FirstStep, PCs
<1>3. [Idle EXCEPT !.cmd = cmd, !.m = m, !.pc = FirstStep(cmd), !.quiet = TRUE] \in Run
  BY <1>2, IdleType DEF Run
<1>4. launches' \in 0..MaxLaunches[world]
  BY ConstantsAssumption DEF Launch, ConstantsAssumption
<1> QED BY <1>1, <1>3, <1>4 DEF Launch, sources, built, store

LEMMA NextTypes == TypeOK /\ [Next]_vars => TypeOK'
<1> SUFFICES ASSUME TypeOK, [Next]_vars PROVE TypeOK'
  OBVIOUS
<1>1. ASSUME NEW p \in Proc, Kill(p) PROVE TypeOK'
  <2>1. proc' \in [Proc -> Run]
    BY <1>1, IdleType DEF Kill, End, TypeOK
  <2> QED BY <1>1, <2>1 DEF Kill, TypeOK, sources, built, store
<1>2. CASE UNCHANGED vars
  BY <1>2 DEF vars, TypeOK
<1> QED BY <1>1, <1>2, StepTypes, LaunchTypes, UserTypes DEF Next

(* TypeOK holds of every behaviour of the deploy commands. *)
THEOREM Types == Spec => []TypeOK
BY InitTypes, NextTypes, PTL DEF Spec

-----------------------------------------------------------------------------
(* A step of p leaves the other commands alone, and a move sets p's position. *)
LEMMA Positions ==
  ASSUME TypeOK, NEW p \in Proc, NEW q \in Proc
  PROVE  /\ End(p) => proc'[q].pc = IF q = p THEN "idle" ELSE proc[q].pc
         /\ \A x \in PCs : Goto(p, x) => proc'[q].pc = IF q = p THEN x ELSE proc[q].pc
         /\ \A x \in PCs : \A y : GotoWith(p, x, y) => proc'[q].pc = IF q = p THEN x ELSE proc[q].pc
<1>1. End(p) => proc'[q].pc = IF q = p THEN "idle" ELSE proc[q].pc
  BY IdleType DEF TypeOK, End
<1>2. ASSUME NEW x \in PCs, Goto(p, x) PROVE proc'[q].pc = IF q = p THEN x ELSE proc[q].pc
  BY <1>2 DEF TypeOK, Goto, Run
<1>3. ASSUME NEW x \in PCs, NEW y, GotoWith(p, x, y) PROVE proc'[q].pc = IF q = p THEN x ELSE proc[q].pc
  BY <1>3 DEF TypeOK, GotoWith, Run
<1> QED BY <1>1, <1>2, <1>3

(* No step outside Sync touches the lock file, the cache or the critical section. *)
LEMMA OutsideSync ==
  ASSUME TypeOK, NEW p \in Proc, AllReads(p) \/ Gradle(p) \/ ToBuild(p) \/ TargetCommit(p) \/ Stamp(p)
                                  \/ List(p) \/ Restore(p)
  PROVE  /\ lock' = lock /\ store' = store
         /\ \A q \in Proc : proc'[q].pc \in Critical <=> proc[q].pc \in Critical
<1>1. lock' = lock /\ store' = store
  BY DEF AllReads, Gradle, ToBuild, TargetCommit, Stamp, List, Restore, Look, ListCache, RestoreOne,
         RestoreDone, ReadCached, StampBuild, store
<1>2. ASSUME NEW q \in Proc
      PROVE  proc'[q].pc \in Critical <=> proc[q].pc \in Critical
  <2>1. CASE AllReads(p)
    BY <2>1 DEF AllReads, ReadMarker, ReadHead, ReadList, Decide, At, Critical, TypeOK, Run
  <2>2. CASE Gradle(p) \/ ToBuild(p)
    BY <2>2, Positions DEF Gradle, ToBuild, At, Critical, PCs
  <2>3. CASE TargetCommit(p) \/ Stamp(p)
    BY <2>3 DEF TargetCommit, Stamp, At, Critical, TypeOK, Run
  <2>4. CASE List(p)
    BY <2>4, Positions DEF List, At, Critical, PCs
  <2>5. CASE Look(p) \/ ListCache(p) \/ RestoreDone(p)
    BY <2>5, Positions DEF Look, ListCache, RestoreDone, At, Critical, PCs
  <2>6. CASE RestoreOne(p)
    BY <2>6, Positions DEF RestoreOne, At, Critical, PCs
  <2>7. CASE ReadCached(p)
    <3>1. CASE End(p)
      BY <2>7, <3>1, Positions DEF ReadCached, At, Critical
    <3>2. CASE proc' = [proc EXCEPT ![p].target = cached, ![p].pc = "stampBuild"]
      BY <2>7, <3>2 DEF ReadCached, At, Critical, TypeOK, Run
    <3> QED BY <2>7, <3>1, <3>2 DEF ReadCached
  <2>8. CASE StampBuild(p)
    BY <2>8, Positions DEF StampBuild, At, Critical
  <2> QED BY <2>1, <2>2, <2>3, <2>4, <2>5, <2>6, <2>7, <2>8 DEF Restore
<1> QED BY <1>1, <1>2

(* The lock protocol: entering needs a free lock, leaving frees one's own. *)
LEMMA SyncKeepsLock ==
  ASSUME TypeOK, LockExclusive, NEW p \in Proc, Sync(p)
  PROVE  LockExclusive'
<1> USE DEF LockExclusive
<1>a. None \notin Proc
  BY ConstantsAssumption DEF ConstantsAssumption
<1>1. CASE Acquire(p)
  <2>1. \A q \in Proc : proc'[q].pc = IF q = p THEN proc'[p].pc ELSE proc[q].pc
    BY <1>1, Positions DEF Acquire, PCs, Critical
  <2>2. proc'[p].pc \in Critical
    BY <1>1, Positions DEF Acquire, PCs, Critical
  <2> QED BY <1>1, <1>a, <2>1, <2>2 DEF Acquire, Free
<1>2. CASE Retry(p)
  <2>1. ASSUME NEW q \in Proc PROVE proc'[q].pc \in Critical <=> proc[q].pc \in Critical
    <3>1. CASE End(p)
      BY <1>2, <3>1, Positions DEF Retry, At, Critical
    <3>2. CASE ~TimedOut(p)
      BY <1>2, <3>2 DEF Retry, At, Critical, TypeOK, Run
    <3> QED BY <1>2, <3>1, <3>2 DEF Retry
  <2> QED BY <1>2, <2>1 DEF Retry
<1>3. CASE ClearOne(p)
  BY <1>3 DEF ClearOne
<1>4. CASE ClearDone(p) \/ CopyDone(p) \/ StampCache(p)
  BY <1>4, Positions DEF ClearDone, CopyDone, StampCache, At, Critical, PCs
<1>5. CASE CopyOne(p) \/ ReadArtifactCommit(p)
  <2>1. ASSUME NEW q \in Proc PROVE proc'[q].pc \in Critical <=> proc[q].pc \in Critical
    <3>1. CASE CopyOne(p)
      BY <3>1 DEF CopyOne, TypeOK, Run
    <3>2. CASE ReadArtifactCommit(p)
      BY <3>2 DEF ReadArtifactCommit, At, Critical, TypeOK, Run
    <3> QED BY <1>5, <3>1, <3>2
  <2> QED BY <1>5, <2>1 DEF CopyOne, ReadArtifactCommit
<1>6. CASE Release(p)
  <2>1. lock = p
    BY <1>6 DEF Release, At, Critical
  <2> QED BY <1>6, <1>a, <2>1, Positions DEF Release, Critical
<1>7. CASE SyncFails(p)
  BY <1>7, Positions DEF SyncFails, Critical, PCs
<1> QED BY <1>1, <1>2, <1>3, <1>4, <1>5, <1>6, <1>7 DEF Sync

LEMMA NextKeepsLock == TypeOK /\ LockExclusive /\ [Next]_vars => LockExclusive'
<1> SUFFICES ASSUME TypeOK, LockExclusive, [Next]_vars PROVE LockExclusive'
  OBVIOUS
<1> USE DEF LockExclusive
<1>1. ASSUME NEW p \in Proc, Launch(p) PROVE LockExclusive'
  <2>1. ASSUME NEW cmd \in Cmds PROVE FirstStep(cmd) \notin Critical
    BY ConstantsAssumption DEF ConstantsAssumption, CmdNames, FirstStep, Critical
  <2>2. PICK cmd \in Cmds, m \in Module :
          proc' = [proc EXCEPT ![p] = [Idle EXCEPT !.cmd = cmd, !.m = m, !.pc = FirstStep(cmd), !.quiet = TRUE]]
    BY <1>1 DEF Launch
  <2>3. ASSUME NEW q \in Proc PROVE proc'[q].pc = IF q = p THEN FirstStep(cmd) ELSE proc[q].pc
    BY <2>2, IdleType DEF TypeOK, Run
  <2>4. proc[p].pc \notin Critical
    BY <1>1 DEF Launch, At, Critical
  <2> QED BY <1>1, <2>1, <2>3, <2>4 DEF Launch
<1>2. ASSUME NEW p \in Proc, Kill(p) PROVE LockExclusive'
  <2>1. Stale \notin Proc
    BY ConstantsAssumption DEF ConstantsAssumption
  <2> QED BY <1>2, <2>1, Positions DEF Kill, Critical
<1>3. ASSUME NEW p \in Proc, Step(p) PROVE LockExclusive'
  BY <1>3, OutsideSync, SyncKeepsLock DEF Step
<1>4. CASE Users
  <2>1. ASSUME NEW q \in Proc PROVE proc'[q].pc = proc[q].pc
    BY <1>4 DEF Users, CommitAll, Checkout, Edit, Wipe, Disturb, Took, TypeOK, Run
  <2> QED BY <1>4, <2>1 DEF Users, CommitAll, Checkout, Edit, Wipe
<1>5. CASE UNCHANGED vars
  BY <1>5 DEF vars
<1> QED BY <1>1, <1>2, <1>3, <1>4, <1>5 DEF Next

(* Two deploys never write the cache together, whoever is killed or times out. *)
THEOREM Exclusion == Spec => []LockExclusive
<1>1. Init => LockExclusive
  BY ConstantsAssumption, IdleType DEF Init, LockExclusive, ConstantsAssumption, Critical
<1> QED BY <1>1, NextKeepsLock, Types, PTL DEF Spec

(* Every write to the cache is by the holder of its lock file, and nobody else moves in that step. *)
THEOREM OnlyTheHolderWrites == Spec => WritesUnderLock
<1> DEFINE W == store' # store => \E p \in Proc : lock = p /\ \A q \in Proc \ {p} : proc'[q] = proc[q]
<1>1. TypeOK /\ LockExclusive /\ [Next]_vars => [W]_vars
  <2> SUFFICES ASSUME TypeOK, LockExclusive, Next, store' # store
               PROVE  \E p \in Proc : lock = p /\ \A q \in Proc \ {p} : proc'[q] = proc[q]
    OBVIOUS
  <2>1. PICK p \in Proc : Step(p)
    BY DEF Next, Launch, Kill, Users, CommitAll, Checkout, Edit, Wipe, store
  <2>2. Sync(p)
    BY <2>1, OutsideSync DEF Step
  <2>3. ClearOne(p) \/ ClearDone(p) \/ CopyOne(p) \/ StampCache(p)
    BY <2>2 DEF Sync, Acquire, Retry, CopyDone, ReadArtifactCommit, SyncFails, Release, store
  <2>4. lock = p
    BY <2>3 DEF ClearOne, ClearDone, CopyOne, StampCache, At, Critical, LockExclusive
  <2>5. \A q \in Proc \ {p} : proc'[q] = proc[q]
    BY <2>3 DEF ClearOne, ClearDone, CopyOne, StampCache, Goto, TypeOK
  <2> QED BY <2>4, <2>5
<1> QED BY <1>1, Types, Exclusion, PTL DEF Spec, WritesUnderLock

-----------------------------------------------------------------------------
(***************************************************************************)
(* What the cache's marker is worth when the users keep to the discipline  *)
(* (world = {}): they commit only between commands, and run one command at *)
(* a time.  Then the two markers agree between commands, and a marker that *)
(* is HEAD vouches for both directories.  Inside a command that is not so: *)
(* Stage says, position by position, what it has already made true.        *)
(***************************************************************************)

(* Every module is in the directory, as HEAD has it. *)
Whole(dir) == \A m \in Module : dir[m] = Tree(m)

Agreed == cached = marker /\ (marker = head => Whole(build) /\ Whole(cache))

(* The commands that compile everything. *)
Full == {"all", "prepare"}

(* What is left to copy is there, and is of HEAD if the build marker says so. *)
Ready(p) ==
  /\ marker # None
  /\ marker = head => Whole(build)
  /\ Ran(p, Full) => marker = head
  /\ proc[p].todo # {} \/ proc[p].copied
  /\ \A m \in proc[p].todo : Source(p)[m] # None /\ (marker = head => Source(p)[m] = Tree(m))

(* What needs no copy any more is in the cache. *)
Renewed(p) == marker = head => \A m \in Module \ proc[p].todo : cache[m] = Tree(m)

Copied(p) ==
  /\ marker # None
  /\ Ran(p, Full) => marker = head
  /\ marker = head => Whole(build) /\ Whole(cache)

Settled == {"read", "restore", "gradle", "toBuild", "head", "stamp", "release",
            "look", "listCache", "readCached", "stampBuild"}

Stage(p) ==
  /\ proc[p].pc \in Settled => Agreed
  /\ At(p, "read") =>
       /\ Ran(p, {"all"})
       /\ "marker" \in proc[p].done => proc[p].mark = cached
       /\ "head" \in proc[p].done => proc[p].target = head
  /\ At(p, "restore") /\ Ran(p, {"all"}) => marker = head
  /\ At(p, "gradle") => Ran(p, Full) \/ (Ran(p, {"module"}) /\ marker # None)
  /\ At(p, "toBuild") => Ran(p, {"module"}) /\ marker # None /\ dist[proc[p].m] = Tree(proc[p].m)
  /\ proc[p].pc \in {"head", "stamp"} => Ran(p, Full) /\ Whole(build)
  /\ At(p, "stamp") => proc[p].target = head
  /\ At(p, "list") => \/ (Ran(p, Full) /\ marker = head /\ Whole(build))
                      \/ (Ran(p, {"update", "clean"}) /\ marker # None /\ Agreed)
  /\ proc[p].pc \in {"acquire", "clear", "copy"} => Ready(p)
  /\ proc[p].pc \in {"acquire", "copy"} => Renewed(p)
  /\ (At(p, "clear") \/ (At(p, "acquire") /\ Ran(p, {"clean"}))) /\ marker = head => proc[p].todo = Module
  /\ proc[p].pc \in {"commit", "stampCache"} => Copied(p)
  /\ proc[p].pc \in {"stampCache", "stampBuild"} => proc[p].target = marker
  /\ proc[p].pc \in {"look", "listCache"} => ~Ran(p, {"all"})
  /\ At(p, "release") /\ Ran(p, Full) => marker = head

(* The invariant of the disciplined world. *)
DisciplineInv ==
  world = {} =>
    /\ lock # Stale
    /\ \A p, q \in Proc : At(p, "idle") \/ At(q, "idle") \/ p = q
    /\ marker # None => marker <= head
    /\ AllIdle => Agreed
    /\ \A p \in Proc : Stage(p)

(* What a move does to the record of the command that makes it. *)
LEMMA Moved ==
  ASSUME TypeOK, NEW p \in Proc
  PROVE  /\ End(p) => proc'[p].pc = "idle"
         /\ \A x : Goto(p, x) =>
              /\ proc'[p].pc = x /\ proc'[p].cmd = proc[p].cmd /\ proc'[p].m = proc[p].m
              /\ proc'[p].mark = proc[p].mark /\ proc'[p].target = proc[p].target
              /\ proc'[p].todo = proc[p].todo /\ proc'[p].copied = proc[p].copied
         /\ \A x, y : GotoWith(p, x, y) =>
              /\ proc'[p].pc = x /\ proc'[p].cmd = proc[p].cmd /\ proc'[p].m = proc[p].m
              /\ proc'[p].target = proc[p].target
              /\ proc'[p].todo = y /\ proc'[p].copied = proc[p].copied
<1>r. proc[p] \in Run /\ DOMAIN proc = Proc
  BY DEF TypeOK
<1>1. End(p) => proc'[p].pc = "idle"
  BY <1>r, IdleType DEF End
<1>2. ASSUME NEW x, Goto(p, x)
      PROVE  /\ proc'[p].pc = x /\ proc'[p].cmd = proc[p].cmd /\ proc'[p].m = proc[p].m
             /\ proc'[p].mark = proc[p].mark /\ proc'[p].target = proc[p].target
             /\ proc'[p].todo = proc[p].todo /\ proc'[p].copied = proc[p].copied
  <2>1. proc'[p] = [proc[p] EXCEPT !.pc = x]
    BY <1>r, <1>2 DEF Goto
  <2> QED BY <1>r, <2>1 DEF Run
<1>3. ASSUME NEW x, NEW y, GotoWith(p, x, y)
      PROVE  /\ proc'[p].pc = x /\ proc'[p].cmd = proc[p].cmd /\ proc'[p].m = proc[p].m
             /\ proc'[p].target = proc[p].target
             /\ proc'[p].todo = y /\ proc'[p].copied = proc[p].copied
  <2>1. proc'[p] = [proc[p] EXCEPT !.pc = x, !.todo = y]
    BY <1>r, <1>3 DEF GotoWith
  <2> QED BY <1>r, <2>1 DEF Run
<1> QED BY <1>1, <1>2, <1>3

(* A step moves its own command alone, and leaves the sources alone. *)
LEMMA StepFrame ==
  ASSUME TypeOK, NEW p \in Proc, Step(p)
  PROVE  /\ ~At(p, "idle") /\ world' = world /\ head' = head /\ edited' = edited
         /\ \A q \in Proc \ {p} : proc'[q] = proc[q]
         /\ \A m \in Module : Tree(m)' = Tree(m)
<1>1. CASE AllReads(p)
  BY <1>1 DEF AllReads, ReadMarker, ReadHead, ReadList, Decide, At, sources, Tree, TypeOK
<1>2. CASE Gradle(p) \/ ToBuild(p) \/ TargetCommit(p) \/ Stamp(p) \/ List(p)
  BY <1>2 DEF Gradle, ToBuild, TargetCommit, Stamp, List, At, sources, Tree, TypeOK, End, Goto, GotoWith
<1>3. CASE Sync(p)
  BY <1>3 DEF Sync, Acquire, Retry, ClearOne, ClearDone, CopyOne, CopyDone, ReadArtifactCommit, StampCache,
              SyncFails, Release, Critical, At, sources, Tree, TypeOK, End, Goto, GotoWith
<1>4. CASE Restore(p)
  BY <1>4 DEF Restore, Look, ListCache, RestoreOne, RestoreDone, ReadCached, StampBuild,
              At, sources, Tree, TypeOK, End, Goto, GotoWith
<1> QED BY <1>1, <1>2, <1>3, <1>4 DEF Step

(* Where the acting command arrives: at a stage that holds, or at its end with the markers agreed. *)
Arrived(p) == Stage(p) /\ (At(p, "idle") => Agreed)

LEMMA HeadIsCommit == TypeOK => head \in Nat /\ head # None
BY ConstantsAssumption DEF TypeOK, ConstantsAssumption

(* The reads of deploy all, and its decision. *)
LEMMA ReadsArrive ==
  ASSUME TypeOK, NEW p \in Proc, Stage(p), AllReads(p)
  PROVE  Arrived(p)'
<1>f. \A m \in Module : Tree(m)' = Tree(m)
  BY DEF AllReads, sources, Tree
<1>k. head' = head /\ build' = build /\ cache' = cache /\ marker' = marker /\ cached' = cached
  BY DEF AllReads, sources, built, store
<1>a. Agreed /\ Agreed'
  BY <1>f, <1>k DEF AllReads, ReadMarker, ReadHead, ReadList, Decide, At, Stage, Settled, Agreed, Whole
<1>r. proc[p] \in Run /\ DOMAIN proc = Proc /\ proc[p].pc = "read"
  BY DEF TypeOK, AllReads, ReadMarker, ReadHead, ReadList, Decide, At
<1>1. CASE ReadMarker(p)
  <2>1. proc'[p] = [proc[p] EXCEPT !.done = proc[p].done \cup {"marker"}, !.mark = cached]
    BY <1>1, <1>r DEF ReadMarker
  <2>2. proc'[p].pc = "read" /\ proc'[p].mark = cached /\ proc'[p].done = proc[p].done \cup {"marker"}
        /\ proc'[p].target = proc[p].target /\ proc'[p].cmd = proc[p].cmd
    BY <2>1, <1>r DEF Run
  <2> QED BY <2>2, <1>a, <1>k, <1>r DEF Arrived, Stage, At, Settled, Ran
<1>2. CASE ReadHead(p)
  <2>1. proc'[p] = [proc[p] EXCEPT !.done = proc[p].done \cup {"head"}, !.target = head]
    BY <1>2, <1>r DEF ReadHead
  <2>2. proc'[p].pc = "read" /\ proc'[p].mark = proc[p].mark /\ proc'[p].done = proc[p].done \cup {"head"}
        /\ proc'[p].target = head /\ proc'[p].cmd = proc[p].cmd
    BY <2>1, <1>r DEF Run
  <2> QED BY <2>2, <1>a, <1>k, <1>r DEF Arrived, Stage, At, Settled, Ran
<1>3. CASE ReadList(p)
  <2>1. proc'[p] = [proc[p] EXCEPT !.done = proc[p].done \cup {"list"}, !.todo = Files(cache)]
    BY <1>3, <1>r DEF ReadList
  <2>2. proc'[p].pc = "read" /\ proc'[p].mark = proc[p].mark /\ proc'[p].done = proc[p].done \cup {"list"}
        /\ proc'[p].target = proc[p].target /\ proc'[p].cmd = proc[p].cmd
    BY <2>1, <1>r DEF Run
  <2> QED BY <2>2, <1>a, <1>k, <1>r DEF Arrived, Stage, At, Settled, Ran
<1>4. CASE Decide(p)
  <2> DEFINE hit == CacheHit(proc[p])
  <2>0. CacheHit(proc[p]) \in BOOLEAN
    BY DEF CacheHit
  <2>1. proc'[p] = [proc[p] EXCEPT !.pc = IF hit THEN "restore" ELSE "gradle", !.done = {}, !.mark = None,
                                   !.target = None, !.todo = IF hit THEN proc[p].todo ELSE {}]
    BY <1>4, <1>r DEF Decide
  <2>2. proc'[p].pc = (IF hit THEN "restore" ELSE "gradle") /\ proc'[p].cmd = proc[p].cmd
    BY <2>1, <1>r DEF Run
  <2>3. hit => marker = head
    BY <1>4, <1>r, <1>a DEF Decide, Reads, CacheHit, Stage, At, Agreed
  <2> QED BY <2>2, <2>3, <1>a, <1>k, <1>r DEF Arrived, Stage, At, Settled, Ran, Full
<1> QED BY <1>1, <1>2, <1>3, <1>4 DEF AllReads

(* Compiling, and stamping the build directory with the commit that was compiled. *)
LEMMA BuildsArrive ==
  ASSUME TypeOK, NEW p \in Proc, Stage(p),
         Gradle(p) \/ ToBuild(p) \/ TargetCommit(p) \/ Stamp(p) \/ List(p)
  PROVE  Arrived(p)'
<1>f. \A m \in Module : Tree(m)' = Tree(m)
  BY DEF Gradle, ToBuild, TargetCommit, Stamp, List, sources, Tree
<1>k. head' = head /\ cache' = cache /\ cached' = cached
  BY DEF Gradle, ToBuild, TargetCommit, Stamp, List, sources, built, store
<1>r. proc[p] \in Run /\ DOMAIN proc = Proc
  BY DEF TypeOK
<1>t. proc[p].m \in Module /\ \A m \in Module : Tree(m) # None
  <2>1. proc[p].m \in Module
    BY <1>r DEF Run
  <2>2. \A m \in Module : Tree(m) # None
    <3>1. ASSUME NEW m \in Module PROVE Tree(m) \in [commit : Nat, edited : BOOLEAN]
      <4>1. (m \in edited) \in BOOLEAN
        OBVIOUS
      <4> QED BY <4>1, HeadIsCommit DEF Tree
    <3> QED BY <3>1, ConstantsAssumption DEF ConstantsAssumption
  <2> QED BY <2>1, <2>2
<1>1. CASE Gradle(p)
  <2>0. Agreed /\ marker' = marker /\ At(p, "gradle")
    BY <1>1 DEF Gradle, At, Stage, Settled
  <2>1. PICK done \in SUBSET Compiled(p) :
          /\ dist' = [m \in Module |-> IF m \in done THEN Tree(m) ELSE dist[m]]
          /\ build' = [m \in Module |-> IF m \in done THEN Tree(m) ELSE build[m]]
          /\ IF done # Compiled(p) THEN End(p) ELSE Goto(p, IF Ran(p, {"module"}) THEN "toBuild" ELSE "head")
    BY <1>1 DEF Gradle
  <2>2. Whole(build) => Whole(build)'
    BY <2>1, <1>f DEF Whole
  <2>3. Agreed'
    BY <2>0, <2>2, <1>k, <1>f DEF Agreed, Whole
  <2>4. CASE End(p)
    BY <2>4, <2>3, Moved DEF Arrived, Stage, At, Settled
  <2>5. CASE done = Compiled(p) /\ Ran(p, {"module"})
    <3>1. proc'[p].pc = "toBuild" /\ proc'[p].cmd = proc[p].cmd /\ proc'[p].m = proc[p].m
      BY <2>5, <2>1, Moved
    <3>2. dist'[proc[p].m] = Tree(proc[p].m)
      BY <2>5, <2>1, <1>t DEF Compiled
    <3>3. marker # None
      BY <2>0, <2>5 DEF Stage, Ran, Full
    <3>4. Ran(p, {"module"})'
      BY <3>1, <2>5 DEF Ran
    <3>5. (dist[proc[p].m] = Tree(proc[p].m))'
      BY <3>1, <3>2, <1>f, <1>t
    <3> QED BY <2>0, <3>1, <3>3, <3>4, <3>5, <2>3 DEF Arrived, Stage, At, Settled
  <2>6. CASE done = Compiled(p) /\ ~Ran(p, {"module"})
    <3>1. proc'[p].pc = "head" /\ proc'[p].cmd = proc[p].cmd
      BY <2>6, <2>1, Moved
    <3>2. Whole(build)'
      BY <2>6, <2>1, <1>f DEF Compiled, Whole
    <3>3. Ran(p, Full)'
      BY <3>1, <2>0, <2>6 DEF Stage, Ran
    <3> QED BY <3>1, <3>2, <3>3, <2>3 DEF Arrived, Stage, At, Settled
  <2> QED BY <2>1, <2>4, <2>5, <2>6
<1>2. CASE ToBuild(p)
  <2>0. Agreed /\ marker' = marker /\ dist' = dist /\ At(p, "toBuild") /\ Ran(p, {"module"}) /\ marker # None
        /\ dist[proc[p].m] = Tree(proc[p].m)
    BY <1>2 DEF ToBuild, At, Stage, Settled
  <2>1. build' = [build EXCEPT ![proc[p].m] = Tree(proc[p].m)]
    BY <1>2, <2>0 DEF ToBuild
  <2>2. Whole(build) => Whole(build)'
    BY <2>1, <1>f DEF Whole, TypeOK
  <2>3. proc'[p].pc = "acquire" /\ proc'[p].todo = {proc[p].m} /\ proc'[p].cmd = proc[p].cmd
    BY <1>2, Moved DEF ToBuild
  <2>4. Source(p)' = dist
    BY <2>3, <2>0 DEF Source, Ran
  <2>5. Ready(p)'
    <3>1. \A m \in {proc[p].m} : dist[m] # None /\ dist[m] = Tree(m)'
      BY <2>0, <1>t, <1>f
    <3>2. (Whole(build) \/ marker # head)'
      BY <2>0, <2>2, <1>k DEF Agreed
    <3>3. ~Ran(p, Full)'
      BY <2>3, <2>0 DEF Ran, Full
    <3> QED BY <2>0, <2>3, <2>4, <3>1, <3>2, <3>3 DEF Ready
  <2>6. Renewed(p)'
    BY <2>0, <1>k, <1>f DEF Renewed, Agreed, Whole
  <2>7. ~Ran(p, {"clean"})'
    BY <2>3, <2>0 DEF Ran
  <2> QED BY <2>3, <2>5, <2>6, <2>7 DEF Arrived, Stage, At, Settled
<1>3. CASE TargetCommit(p)
  <2>0. Agreed /\ marker' = marker /\ build' = build /\ Ran(p, Full) /\ Whole(build)
    BY <1>3 DEF TargetCommit, At, Stage, Settled, built
  <2>1. proc'[p] = [proc[p] EXCEPT !.target = head, !.pc = "stamp"]
    BY <1>3, <1>r DEF TargetCommit
  <2>2. proc'[p].pc = "stamp" /\ proc'[p].target = head /\ proc'[p].cmd = proc[p].cmd
    BY <2>1, <1>r DEF Run
  <2>3. Agreed' /\ Whole(build)'
    BY <2>0, <1>k, <1>f DEF Agreed, Whole
  <2>4. Ran(p, Full)'
    BY <2>0, <2>2 DEF Ran
  <2> QED BY <2>2, <2>3, <2>4, <1>k DEF Arrived, Stage, At, Settled
<1>4. CASE Stamp(p)
  <2>0. build' = build /\ Ran(p, Full) /\ Whole(build) /\ marker' = head
    BY <1>4 DEF Stamp, At, Stage
  <2>1. proc'[p] = [proc[p] EXCEPT !.target = None, !.pc = "list"]
    BY <1>4, <1>r DEF Stamp
  <2>2. proc'[p].pc = "list" /\ proc'[p].cmd = proc[p].cmd
    BY <2>1, <1>r DEF Run
  <2>3. Whole(build)' /\ (marker = head)'
    BY <2>0, <1>f, <1>k DEF Whole
  <2>4. Ran(p, Full)'
    BY <2>0, <2>2 DEF Ran
  <2> QED BY <2>2, <2>3, <2>4 DEF Arrived, Stage, At, Settled
<1>5. CASE List(p)
  <2>0. build' = build /\ dist' = dist /\ marker' = marker /\ At(p, "list")
        /\ \/ (Ran(p, Full) /\ marker = head /\ Whole(build))
           \/ (Ran(p, {"update", "clean"}) /\ marker # None /\ Agreed)
    BY <1>5 DEF List, At, Stage, built
  <2>1. CASE Files(build) = {} /\ Ran(p, {"update", "clean"})
    <3>1. Agreed'
      BY <2>0, <2>1, <1>k, <1>f DEF Agreed, Whole, Ran, Full
    <3>2. End(p)
      BY <1>5, <2>1 DEF List
    <3> QED BY <3>1, <3>2, Moved DEF Arrived, Stage, At, Settled
  <2>2. CASE ~(Files(build) = {} /\ Ran(p, {"update", "clean"}))
    <3>1. proc'[p].pc = "acquire" /\ proc'[p].todo = Files(build) /\ proc'[p].cmd = proc[p].cmd
      BY <1>5, <2>2, Moved DEF List
    <3>2. marker = head => Whole(build)
      BY <2>0 DEF Agreed
    <3>3. Whole(build) => Files(build) = Module
      BY <1>t DEF Whole, Files
    <3>4. Files(build) # {}
      BY <2>0, <2>2, <3>3, ConstantsAssumption DEF ConstantsAssumption
    <3>5. Source(p)' = build
      BY <3>1, <2>0 DEF Source, Ran, Full
    <3>6. \A m \in Files(build) : build[m] # None /\ (marker = head => build[m] = Tree(m)')
      BY <3>2, <1>f DEF Files, Whole
    <3>7. marker # None /\ (Ran(p, Full)' => marker = head)
      BY <2>0, <3>1, HeadIsCommit DEF Ran, Full
    <3>8. (marker = head)' => Whole(build)'
      BY <2>0, <1>k, <1>f, <3>2 DEF Whole
    <3>9. Ready(p)'
      BY <3>1, <3>4, <3>5, <3>6, <3>7, <3>8, <2>0, <1>k DEF Ready
    <3>10. Renewed(p)'
      BY <3>1, <3>2, <3>3, <2>0, <1>k DEF Renewed
    <3>11. (marker = head => proc[p].todo = Module)'
      BY <3>1, <3>2, <3>3, <2>0, <1>k
    <3> QED BY <3>1, <3>9, <3>10, <3>11 DEF Arrived, Stage, At, Settled
  <2> QED BY <2>1, <2>2
<1> QED BY <1>1, <1>2, <1>3, <1>4, <1>5

(* Copying to the cache under the lock, when it is there to be had and no copy throws. *)
LEMMA SyncArrives ==
  ASSUME TypeOK, NEW p \in Proc, Stage(p), Sync(p), "kill" \notin world, At(p, "acquire") => Free
  PROVE  Arrived(p)'
<1>f. \A m \in Module : Tree(m)' = Tree(m)
  BY StepFrame DEF Step
<1>k. head' = head /\ build' = build /\ dist' = dist /\ marker' = marker
  BY DEF Sync, Acquire, Retry, ClearOne, ClearDone, CopyOne, CopyDone, ReadArtifactCommit, StampCache,
         SyncFails, Release, sources, built
<1>r. proc[p] \in Run /\ DOMAIN proc = Proc
  BY DEF TypeOK
<1>w. Whole(build)' <=> Whole(build)
  BY <1>f, <1>k DEF Whole
<1>1. CASE Acquire(p)
  <2>0. Ready(p) /\ Renewed(p) /\ cache' = cache /\ (Ran(p, {"clean"}) /\ marker = head => proc[p].todo = Module)
    BY <1>1 DEF Acquire, Stage, At, store
  <2>1. /\ proc'[p].pc = (IF Ran(p, {"clean"}) THEN "clear" ELSE "copy") /\ proc'[p].cmd = proc[p].cmd
        /\ proc'[p].todo = proc[p].todo /\ proc'[p].copied = proc[p].copied
    BY <1>1, Moved DEF Acquire
  <2>2. Ready(p)' /\ Renewed(p)'
    BY <2>0, <2>1, <1>k, <1>f, <1>w, <1>r DEF Ready, Renewed, Source, Ran, Run
  <2>3. Ran(p, {"clean"}) => (marker = head => proc[p].todo = Module)'
    BY <2>0, <2>1, <1>k
  <2> QED BY <2>1, <2>2, <2>3 DEF Arrived, Stage, At, Settled
<1>2. CASE Retry(p)
  BY <1>2 DEF Retry
<1>3. CASE ClearOne(p)
  <2>0. Ready(p) /\ At(p, "clear") /\ proc' = proc /\ (marker = head => proc[p].todo = Module)
    BY <1>3 DEF ClearOne, Stage, At
  <2>1. Ready(p)'
    BY <2>0, <1>k, <1>f, <1>w, <1>r DEF Ready, Source, Ran, Run
  <2> QED BY <2>0, <2>1, <1>k DEF Arrived, Stage, At, Settled
<1>4. CASE ClearDone(p)
  <2>0. Ready(p) /\ cache' = cache /\ (marker = head => proc[p].todo = Module)
    BY <1>4 DEF ClearDone, Stage, At
  <2>1. /\ proc'[p].pc = "copy" /\ proc'[p].cmd = proc[p].cmd
        /\ proc'[p].todo = proc[p].todo /\ proc'[p].copied = proc[p].copied
    BY <1>4, Moved DEF ClearDone
  <2>2. Ready(p)'
    BY <2>0, <2>1, <1>k, <1>f, <1>w, <1>r DEF Ready, Source, Ran, Run
  <2>3. Renewed(p)'
    BY <2>0, <2>1, <1>k DEF Renewed
  <2> QED BY <2>1, <2>2, <2>3 DEF Arrived, Stage, At, Settled
<1>5. CASE CopyOne(p)
  <2>0. Ready(p) /\ Renewed(p) /\ At(p, "copy")
    BY <1>5 DEF CopyOne, Stage, At
  <2>1. PICK m \in proc[p].todo :
          /\ cache' = IF Source(p)[m] = None THEN cache ELSE [cache EXCEPT ![m] = Source(p)[m]]
          /\ proc' = [proc EXCEPT ![p].todo = @ \ {m}, ![p].copied = @ \/ Source(p)[m] # None]
    BY <1>5 DEF CopyOne
  <2>2. m \in Module /\ proc[p].todo \subseteq Module /\ proc[p].copied \in BOOLEAN
    BY <1>r, <2>1 DEF Run
  <2>3. Source(p)[m] # None /\ (marker = head => Source(p)[m] = Tree(m))
    BY <2>0, <2>1 DEF Ready
  <2>4. cache' = [cache EXCEPT ![m] = Source(p)[m]]
    BY <2>1, <2>3
  <2>5. proc'[p] = [proc[p] EXCEPT !.todo = proc[p].todo \ {m}, !.copied = TRUE]
    BY <2>1, <2>2, <2>3, <1>r
  <2>6. proc'[p].pc = proc[p].pc /\ proc'[p].cmd = proc[p].cmd /\ proc'[p].todo = proc[p].todo \ {m}
        /\ proc'[p].copied = TRUE
    BY <2>5, <1>r DEF Run
  <2>7. Source(p)' = Source(p)
    BY <2>6, <1>k DEF Source, Ran
  <2>8. Ready(p)'
    BY <2>0, <2>2, <2>6, <2>7, <1>k, <1>f, <1>w DEF Ready, Ran
  <2>9. Renewed(p)'
    <3>1. SUFFICES ASSUME marker = head, NEW n \in Module \ (proc[p].todo \ {m}) PROVE cache'[n] = Tree(n)
      BY <2>6, <1>k, <1>f DEF Renewed
    <3>2. CASE n = m
      BY <2>3, <2>4, <3>1, <3>2 DEF TypeOK
    <3>3. CASE n # m
      BY <2>0, <2>4, <3>1, <3>3 DEF TypeOK, Renewed
    <3> QED BY <3>2, <3>3
  <2> QED BY <2>0, <2>6, <2>8, <2>9 DEF Arrived, Stage, At, Settled
<1>6. CASE CopyDone(p)
  <2>0. Ready(p) /\ Renewed(p) /\ cache' = cache /\ proc[p].todo = {}
    BY <1>6 DEF CopyDone, Stage, At, store
  <2>1. ~NothingCopied(p)
    BY <2>0 DEF Ready, NothingCopied
  <2>2. proc'[p].pc = "commit" /\ proc'[p].cmd = proc[p].cmd
    BY <1>6, <2>1, Moved DEF CopyDone
  <2>3. Copied(p)'
    BY <2>0, <2>2, <1>k, <1>f, <1>w DEF Copied, Ready, Renewed, Whole, Ran
  <2> QED BY <2>2, <2>3 DEF Arrived, Stage, At, Settled
<1>7. CASE ReadArtifactCommit(p)
  <2>0. Copied(p) /\ cache' = cache
    BY <1>7 DEF ReadArtifactCommit, Stage, At, store
  <2>1. proc'[p] = [proc[p] EXCEPT !.target = marker, !.pc = "stampCache"]
    BY <1>7, <1>r, <2>0 DEF ReadArtifactCommit, ArtifactCommit, Copied
  <2>2. proc'[p].pc = "stampCache" /\ proc'[p].cmd = proc[p].cmd /\ proc'[p].target = marker
    BY <2>1, <1>r DEF Run
  <2>3. Copied(p)'
    BY <2>0, <2>2, <1>k, <1>f, <1>w DEF Copied, Whole, Ran
  <2> QED BY <2>2, <2>3, <1>k DEF Arrived, Stage, At, Settled
<1>8. CASE StampCache(p)
  <2>0. Copied(p) /\ cache' = cache /\ proc[p].target = marker /\ cached' = marker
    BY <1>8 DEF StampCache, Stage, At
  <2>1. proc'[p].pc = "release" /\ proc'[p].cmd = proc[p].cmd
    BY <1>8, Moved DEF StampCache
  <2>2. Agreed' /\ (Ran(p, Full)' => (marker = head)')
    BY <2>0, <2>1, <1>k, <1>f, <1>w DEF Copied, Agreed, Whole, Ran
  <2> QED BY <2>1, <2>2 DEF Arrived, Stage, At, Settled
<1>9. CASE SyncFails(p)
  BY <1>9 DEF SyncFails
<1>10. CASE Release(p)
  <2>0. Agreed /\ cache' = cache /\ cached' = cached
    BY <1>10 DEF Release, Stage, At, Settled, store
  <2>1. Agreed'
    BY <2>0, <1>k, <1>f, <1>w DEF Agreed, Whole
  <2>2. proc'[p].pc = "idle"
    BY <1>10, Moved DEF Release
  <2> QED BY <2>1, <2>2 DEF Arrived, Stage, At, Settled
<1> QED BY <1>1, <1>2, <1>3, <1>4, <1>5, <1>6, <1>7, <1>8, <1>9, <1>10 DEF Sync

(* Restoring the build directory from the cache: it ends with the cache's own marker on it. *)
LEMMA RestoresArrive ==
  ASSUME TypeOK, NEW p \in Proc, Stage(p), Restore(p)
  PROVE  Arrived(p)'
<1>f. \A m \in Module : Tree(m)' = Tree(m)
  BY StepFrame DEF Step
<1>k. head' = head /\ cache' = cache /\ cached' = cached
  BY DEF Restore, Look, ListCache, RestoreOne, RestoreDone, ReadCached, StampBuild, sources, store
<1>r. proc[p] \in Run /\ DOMAIN proc = Proc
  BY DEF TypeOK
<1>a. Agreed
  BY DEF Restore, Look, ListCache, RestoreOne, RestoreDone, ReadCached, StampBuild, Stage, Settled, At
<1>1. CASE Look(p) \/ ListCache(p)
  <2>1. Agreed' /\ ~Ran(p, {"all"})
    BY <1>1, <1>a, <1>k, <1>f DEF Look, ListCache, built, Agreed, Whole, Stage, At
  <2>2. CASE End(p)
    BY <2>1, <2>2, Moved DEF Arrived, Stage, At, Settled
  <2>3. CASE Goto(p, "listCache") \/ \E y : GotoWith(p, "restore", y)
    <3>1. proc'[p].pc \in {"listCache", "restore"} /\ proc'[p].cmd = proc[p].cmd
      BY <2>3, Moved
    <3>2. ~Ran(p, {"all"})'
      BY <2>1, <3>1 DEF Ran
    <3> QED BY <2>1, <3>1, <3>2 DEF Arrived, Stage, At, Settled
  <2> QED BY <1>1, <2>2, <2>3 DEF Look, ListCache
<1>2. CASE RestoreOne(p)
  <2>0. marker' = marker /\ (Ran(p, {"all"}) => marker = head)
    BY <1>2 DEF RestoreOne, Stage, At
  <2>1. PICK m \in proc[p].todo :
          /\ build' = IF cache[m] = None THEN build ELSE [build EXCEPT ![m] = cache[m]]
          /\ GotoWith(p, "restore", proc[p].todo \ {m})
    BY <1>2 DEF RestoreOne
  <2>2. m \in Module
    BY <1>r, <2>1 DEF Run
  <2>3. Whole(build) /\ Whole(cache) => Whole(build)'
    BY <2>1, <2>2, <1>f DEF Whole, TypeOK
  <2>4. Agreed'
    BY <1>a, <2>0, <2>3, <1>k, <1>f DEF Agreed, Whole
  <2>5. proc'[p].pc = "restore" /\ proc'[p].cmd = proc[p].cmd
    BY <2>1, Moved
  <2>6. (Ran(p, {"all"}) => marker = head)'
    BY <2>0, <2>5, <1>k DEF Ran
  <2> QED BY <2>4, <2>5, <2>6 DEF Arrived, Stage, At, Settled
<1>3. CASE RestoreDone(p)
  <2>0. Agreed' /\ marker' = marker /\ (Ran(p, {"all"}) => marker = head) /\ build' = build
    BY <1>3, <1>a, <1>k, <1>f DEF RestoreDone, built, Agreed, Whole, Stage, At
  <2>1. proc'[p].pc = (IF Ran(p, {"all"}) THEN "head" ELSE "readCached") /\ proc'[p].cmd = proc[p].cmd
    BY <1>3, Moved DEF RestoreDone
  <2>2. Ran(p, {"all"}) => Ran(p, Full)' /\ Whole(build)'
    BY <2>0, <2>1, <1>a, <1>k, <1>f DEF Ran, Full, Agreed, Whole
  <2> QED BY <2>0, <2>1, <2>2 DEF Arrived, Stage, At, Settled
<1>4. CASE ReadCached(p)
  <2>0. Agreed' /\ marker' = marker
    BY <1>4, <1>a, <1>k, <1>f DEF ReadCached, built, Agreed, Whole
  <2>1. CASE End(p)
    BY <2>0, <2>1, Moved DEF Arrived, Stage, At, Settled
  <2>2. CASE proc' = [proc EXCEPT ![p].target = cached, ![p].pc = "stampBuild"]
    <3>1. proc'[p] = [proc[p] EXCEPT !.target = cached, !.pc = "stampBuild"]
      BY <2>2, <1>r
    <3>2. proc'[p].pc = "stampBuild" /\ proc'[p].target = cached
      BY <3>1, <1>r DEF Run
    <3> QED BY <2>0, <3>2, <1>a DEF Agreed, Arrived, Stage, At, Settled
  <2> QED BY <1>4, <2>1, <2>2 DEF ReadCached
<1>5. CASE StampBuild(p)
  <2>0. marker' = marker /\ build' = build
    BY <1>5 DEF StampBuild, Stage, At
  <2>1. Agreed'
    BY <2>0, <1>a, <1>k, <1>f DEF Agreed, Whole
  <2>2. proc'[p].pc = "idle"
    BY <1>5, Moved DEF StampBuild
  <2> QED BY <2>1, <2>2 DEF Arrived, Stage, At, Settled
<1> QED BY <1>1, <1>2, <1>3, <1>4, <1>5 DEF Restore

(* Only one command runs, so nobody holds the lock a command waits for. *)
LEMMA LockIsFree ==
  ASSUME TypeOK, LockExclusive, DisciplineInv, world = {}, NEW p \in Proc, At(p, "acquire")
  PROVE  Free
<1>1. ASSUME lock \in Proc PROVE FALSE
  <2>1. proc[lock].pc \in Critical
    BY <1>1 DEF LockExclusive
  <2>2. lock = p
    BY <1>1, <2>1 DEF DisciplineInv, At, Critical
  <2> QED BY <2>1, <2>2 DEF At, Critical
<1> QED BY <1>1 DEF TypeOK, DisciplineInv, Free

(* The build marker is never later than HEAD. *)
LEMMA MarkerIsPast ==
  ASSUME TypeOK, NEW p \in Proc, Step(p), Stage(p)
  PROVE  marker' \in {marker, head}
<1>1. CASE Stamp(p) \/ StampBuild(p)
  BY <1>1 DEF Stamp, StampBuild, Stage, At
<1>2. CASE ~(Stamp(p) \/ StampBuild(p))
  BY <1>2 DEF Step, AllReads, Gradle, ToBuild, TargetCommit, List, Sync, Acquire, Retry, ClearOne, ClearDone,
              CopyOne, CopyDone, ReadArtifactCommit, StampCache, SyncFails, Release,
              Restore, Look, ListCache, RestoreOne, RestoreDone, ReadCached, built
<1> QED BY <1>1, <1>2

(* A commit leaves both markers behind; nothing runs then. *)
LEMMA CommitKeepsDiscipline ==
  ASSUME TypeOK, DisciplineInv, world = {}, CommitAll
  PROVE  DisciplineInv'
<1>1. AllIdle /\ proc' = proc
  <2>1. AllIdle
    BY DEF CommitAll
  <2>2. Disturb
    BY DEF CommitAll
  <2> QED BY <2>1, <2>2 DEF AllIdle, Disturb, TypeOK
<1>2. head' = head + 1 /\ head \in Nat /\ world' = world /\ lock' = lock
      /\ marker' = marker /\ cached' = cached
  BY HeadIsCommit DEF CommitAll, built, store
<1>3. marker # head'
  BY <1>2, HeadIsCommit, ConstantsAssumption DEF DisciplineInv, TypeOK, ConstantsAssumption
<1>4. cached = marker
  BY <1>1 DEF DisciplineInv, Agreed
<1>5. Agreed'
  BY <1>2, <1>3, <1>4 DEF Agreed
<1>6. marker' # None => marker' <= head'
  BY <1>2, HeadIsCommit DEF DisciplineInv, TypeOK
<1>7. \A p \in Proc : At(p, "idle")'
  BY <1>1 DEF AllIdle, At
<1>8. \A p \in Proc : Stage(p)'
  BY <1>7, <1>5 DEF Stage, At, Settled
<1> QED BY <1>2, <1>5, <1>6, <1>7, <1>8 DEF DisciplineInv, At

(* A command starts alone; the ones that only copy want a marker on the build directory. *)
LEMMA LaunchKeepsDiscipline ==
  ASSUME TypeOK, DisciplineInv, world = {}, NEW p \in Proc, Launch(p)
  PROVE  DisciplineInv'
<1>1. AllIdle /\ world' = world /\ head' = head /\ lock' = lock /\ marker' = marker /\ build' = build
      /\ cache' = cache /\ cached' = cached /\ \A m \in Module : Tree(m)' = Tree(m)
  BY DEF Launch, sources, built, store, Tree
<1>2. PICK cmd \in Cmds, m \in Module :
        /\ cmd \in {"module", "update", "clean"} => marker # None
        /\ proc' = [proc EXCEPT ![p] = [Idle EXCEPT !.cmd = cmd, !.m = m, !.pc = FirstStep(cmd), !.quiet = TRUE]]
  BY DEF Launch
<1>3. proc'[p].pc = FirstStep(cmd) /\ proc'[p].cmd = cmd /\ proc'[p].done = {}
  <2>1. proc'[p] = [Idle EXCEPT !.cmd = cmd, !.m = m, !.pc = FirstStep(cmd), !.quiet = TRUE]
    BY <1>2 DEF TypeOK
  <2> QED BY <2>1, IdleType DEF Idle
<1>4. \A q \in Proc \ {p} : proc'[q] = proc[q] /\ At(q, "idle")
  BY <1>1, <1>2 DEF TypeOK, AllIdle
<1>5. Agreed'
  BY <1>1 DEF DisciplineInv, Agreed, Whole
<1>6. cmd \in CmdNames
  BY <1>2, ConstantsAssumption DEF ConstantsAssumption
<1>7. FirstStep(cmd) # "idle"
  BY <1>6 DEF CmdNames, FirstStep
<1>8. Stage(p)'
  <2>1. CASE cmd = "all"
    BY <2>1, <1>3, <1>5 DEF FirstStep, Stage, At, Settled, Ran
  <2>2. CASE cmd \in {"prepare", "module"}
    <3>1. FirstStep(cmd) = "gradle"
      BY <2>2 DEF FirstStep
    <3> QED BY <3>1, <2>2, <1>1, <1>2, <1>3, <1>5 DEF Stage, At, Settled, Ran, Full
  <2>3. CASE cmd \in {"update", "clean"}
    <3>1. FirstStep(cmd) = "list"
      BY <2>3 DEF FirstStep
    <3> QED BY <3>1, <2>3, <1>1, <1>2, <1>3, <1>5 DEF Stage, At, Settled, Ran, Full
  <2>4. CASE cmd \in {"recreate", "env", "start"}
    <3>1. FirstStep(cmd) \in {"listCache", "look"}
      BY <2>4 DEF FirstStep
    <3> QED BY <3>1, <2>4, <1>3, <1>5 DEF Stage, At, Settled, Ran
  <2> QED BY <2>1, <2>2, <2>3, <2>4, <1>6 DEF CmdNames
<1>9. \A q \in Proc \ {p} : Stage(q)'
  BY <1>4, <1>5 DEF Stage, At, Settled
<1>10. \A q, r \in Proc : At(q, "idle")' \/ At(r, "idle")' \/ q = r
  BY <1>4 DEF At
<1> QED BY <1>1, <1>5, <1>8, <1>9, <1>10 DEF DisciplineInv

LEMMA StepKeepsDiscipline ==
  ASSUME TypeOK, LockExclusive, DisciplineInv, world = {}, NEW p \in Proc, Step(p)
  PROVE  DisciplineInv'
<1>1. Stage(p) /\ \A m \in Module : Tree(m)' = Tree(m)
  BY StepFrame DEF DisciplineInv
<1>2. Arrived(p)'
  <2>1. "kill" \notin world
    OBVIOUS
  <2> QED BY <1>1, <2>1, LockIsFree, ReadsArrive, BuildsArrive, SyncArrives, RestoresArrive DEF Step
<1>3. ~At(p, "idle") /\ head' = head /\ world' = world
  BY StepFrame
<1>4. \A q \in Proc \ {p} : At(q, "idle") /\ At(q, "idle")'
  BY <1>3, StepFrame DEF DisciplineInv, At
<1>5. \A q \in Proc \ {p} : Stage(q)'
  <2>1. ASSUME NEW q \in Proc \ {p}, At(q, "idle")' PROVE q \in Proc /\ proc'[q].pc = "idle"
    BY <2>1 DEF At
  <2> QED BY <1>4, <2>1 DEF Stage, At, Settled
<1>6. AllIdle' => Agreed'
  BY <1>2 DEF AllIdle, Arrived
<1>7. marker' # None => marker' <= head'
  BY <1>1, <1>3, MarkerIsPast, HeadIsCommit DEF DisciplineInv
<1>8. lock' # Stale
  <2>1. Stale \notin Proc \cup {None}
    BY ConstantsAssumption DEF ConstantsAssumption
  <2>2. lock' \in {lock, p, None}
    <3>1. CASE Sync(p)
      BY <3>1 DEF Sync, Acquire, Retry, ClearOne, ClearDone, CopyOne, CopyDone, ReadArtifactCommit, StampCache,
                  SyncFails, Release
    <3> QED BY <3>1, OutsideSync DEF Step
  <2> QED BY <2>1, <2>2 DEF DisciplineInv
<1> QED BY <1>2, <1>3, <1>4, <1>5, <1>6, <1>7, <1>8 DEF DisciplineInv, Arrived

LEMMA NextKeepsDiscipline == TypeOK /\ LockExclusive /\ DisciplineInv /\ [Next]_vars => DisciplineInv'
<1> SUFFICES ASSUME TypeOK, LockExclusive, DisciplineInv, [Next]_vars PROVE DisciplineInv'
  OBVIOUS
<1>1. world' = world
  BY StepFrame DEF Next, vars, Launch, Kill, Users, CommitAll, Checkout, Edit, Wipe, sources
<1>2. CASE world # {}
  BY <1>1, <1>2 DEF DisciplineInv
<1>3. CASE world = {}
  <2>1. ASSUME NEW p \in Proc, Kill(p) PROVE DisciplineInv'
    BY <1>3, <2>1 DEF Kill
  <2>2. CASE Users
    BY <1>3, <2>2, CommitKeepsDiscipline DEF Users, Checkout, Edit, Wipe
  <2>3. CASE UNCHANGED vars
    BY <2>3 DEF vars, DisciplineInv, AllIdle, Stage, At, Settled, Agreed, Whole, Ready, Renewed, Copied, Source,
                Ran, Tree, Full
  <2> QED BY <1>3, <2>1, <2>2, <2>3, StepKeepsDiscipline, LaunchKeepsDiscipline DEF Next
<1> QED BY <1>2, <1>3

LEMMA InitDiscipline == Init => DisciplineInv
<1> SUFFICES ASSUME Init PROVE DisciplineInv
  OBVIOUS
<1>1. marker = None /\ cached = None /\ lock = None /\ head = 0 /\ None # 0 /\ None # Stale
  BY ConstantsAssumption DEF Init, ConstantsAssumption
<1>2. \A p \in Proc : proc[p].pc = "idle"
  BY IdleType DEF Init
<1>3. Agreed
  BY <1>1 DEF Agreed
<1>4. \A p \in Proc : Stage(p)
  BY <1>2, <1>3 DEF Stage, At, Settled
<1> QED BY <1>1, <1>2, <1>3, <1>4 DEF DisciplineInv, At

LEMMA Disciplined == Spec => []DisciplineInv
BY InitDiscipline, NextKeepsDiscipline, Types, Exclusion, PTL DEF Spec

(* CacheHonest: when users commit only between commands run one at a time, the commit that the cache *)
(* claims vouches for every module in it, whatever commands ran and whatever Gradle failed to build. *)
THEOREM CacheTellsTheTruth == Spec => []CacheHonest
<1>1. DisciplineInv => CacheHonest
  BY DEF DisciplineInv, CacheHonest, Agreed, Whole
<1> QED BY <1>1, Disciplined, PTL

(* So deploy all, which skips the compile on the cache's word, ends with every module as HEAD has it. *)
THEOREM DeployAllKeepsItsWord == Spec => DisciplinedDeployAllRebuilds
<1> DEFINE W == \A p \in Proc : world = {} /\ DeployedAll(p) => \A m \in Module : build[m] = Tree(m)
<1>1. DisciplineInv => W
  <2> SUFFICES ASSUME DisciplineInv, NEW p \in Proc, world = {}, DeployedAll(p)
               PROVE  \A m \in Module : build[m] = Tree(m)
    OBVIOUS
  <2>1. Stage(p) /\ Ran(p, Full) /\ At(p, "release")
    BY DEF DisciplineInv, DeployedAll, Ran, Full
  <2> QED BY <2>1 DEF Stage, At, Settled, Agreed, Whole
<1>2. DisciplineInv /\ [Next]_vars => [W]_vars
  BY <1>1
<1> QED BY <1>2, Disciplined, PTL DEF Spec, DisciplinedDeployAllRebuilds
=============================================================================
