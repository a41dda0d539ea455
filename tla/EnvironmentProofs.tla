------------------------- MODULE EnvironmentProofs --------------------------
(***************************************************************************)
(* What the runs check of Environment on their few sites, for every set of *)
(* processes, sites, commands and every bound: its types, that a canceled  *)
(* start leaves nothing, that success means done, and that no command      *)
(* replaces a database unasked.                                            *)
(*                                                                         *)
(* The argument has two parts.  First, the steps a command still has to do *)
(* are a path of a fixed graph (Follows) that ends where its kind may end  *)
(* (Ends), so that what comes after a step is known although plans are put *)
(* together from pieces, and detours (the reset of an import with --force, *)
(* the rollback of a canceled start) join them on the way.  Second, at     *)
(* each node of that graph StageAt says what a command that runs alone has *)
(* made true before it takes that step, given what it found when it was    *)
(* launched; the node "done" is its report of success.  StageAt is kept by *)
(* whatever happens around the commands (the portal boots, the server has  *)
(* created its cluster, other environments start and stop), and a step     *)
(* that proceeds takes it from one node to the next.  What a canceled      *)
(* start leaves is a second invariant on top of it (CalmInv).              *)
(***************************************************************************)
EXTENDS Environment, SequenceTheorems, TLAPS

(***************************************************************************)
(* The plan of a command as a path: which steps it has, which step may     *)
(* follow which, and where it may end.                                     *)
(***************************************************************************)
StartSteps == {"prepare", "doclib", "up", "health", "rollbackStop", "rollbackDown"}
ImportSteps == {"download", "check", "upPostgres", "ready", "stream", "imported", "postImport"}
ResetSteps == IF site.volume THEN {"rmPostgres", "rmVolume"} ELSE {"wipe"}
RestoreSteps == {"source", "downQuietly", "dropPostgres", "copyPostgres", "dropData", "copyData"}
CleanSteps == {"downVolumes", "cleanDoclib", "cleanVolume", "cleanData"}
Imports == {"import", "sync"}

StepsOf(c) ==
  CASE c.kind = "start" -> StartSteps
    [] c.kind = "stop" -> {"stop", "down"}
    [] c.kind = "restart" -> {"stop", "down"} \cup StartSteps
    [] c.kind = "recreate" -> {"stopLiferay", "upLiferay", "health"}
    [] c.kind = "restore" -> RestoreSteps \cup (IF c.task THEN StartSteps ELSE {})
    [] c.kind = "clean" -> CleanSteps
    [] c.kind \in Imports -> ImportSteps \cup (IF c.force THEN ResetSteps ELSE {})

Follows == {
  <<"prepare", "doclib">>, <<"doclib", "up">>, <<"up", "health">>, <<"rollbackStop", "rollbackDown">>,
  <<"stop", "down">>, <<"down", "prepare">>, <<"stopLiferay", "upLiferay">>, <<"upLiferay", "health">>,
  <<"source", "downQuietly">>, <<"downQuietly", "dropPostgres">>, <<"dropPostgres", "copyPostgres">>,
  <<"copyPostgres", "dropData">>, <<"dropData", "copyData">>, <<"copyData", "prepare">>,
  <<"downVolumes", "cleanDoclib">>, <<"cleanDoclib", "cleanVolume">>, <<"cleanVolume", "cleanData">>,
  <<"download", "check">>, <<"check", "upPostgres">>, <<"wipe", "upPostgres">>, <<"rmPostgres", "rmVolume">>,
  <<"rmVolume", "upPostgres">>, <<"upPostgres", "ready">>, <<"ready", "stream">>, <<"stream", "imported">>,
  <<"imported", "postImport">>}

Ends(c) ==
  {"rollbackDown"} \cup
  CASE c.kind \in {"start", "restart"} -> {"up", "health"}
    [] c.kind = "stop" -> {"down"}
    [] c.kind = "recreate" -> {"upLiferay", "health"}
    [] c.kind = "restore" -> IF c.task THEN {"up", "health"} ELSE {"copyData"}
    [] c.kind = "clean" -> {"cleanData"}
    [] c.kind \in Imports -> {"postImport"}

Path(c, s) ==
  /\ s \in Seq(StepsOf(c))
  /\ \A i \in 1..Len(s) : i < Len(s) => <<s[i], s[i + 1]>> \in Follows
  /\ s # <<>> => s[Len(s)] \in Ends(c)

Paths == \A p \in Proc : Path(proc[p].cmd, proc[p].todo)

(* Where a command that did the step s comes next; "done" is its good end. *)
Nexts(c, s) == {n \in Steps : <<s, n>> \in Follows} \cup (IF s \in Ends(c) THEN {"done"} ELSE {})

(***************************************************************************)
(* What a command that runs alone has made true before its step s.         *)
(***************************************************************************)
RestoreSite == ~site.main /\ ~May("main") /\ ~(site.volume /\ May("docker"))

RestoreAt(s) ==
  /\ s = "dropPostgres" /\ site.volume => postgres = "none"
  /\ s \in {"copyPostgres", "dropData", "copyData"} => postgres # "live"
  /\ s = "copyPostgres" => Database \in {"absent", "empty"}
  /\ s \in {"dropData", "copyData", "prepare", "doclib", "up", "health", "done"} => Database = "main"
  /\ s = "copyData" => store["liferay-data"] = "absent"
  /\ s \in {"prepare", "doclib", "up", "health", "done"} =>
       store["liferay-data"] = IF site.base THEN "base" ELSE "main"

Quiet(f) == f.postgres \in {"none", "stopped"} /\ ~PortalUp(f.liferay)
Raw == {"absent", "empty", "init", "fresh"}

ImportAt(c, f, s) ==
  /\ s # "done" /\ ~PortalUp(f.liferay) => ~PortalUp(liferay)
  /\ s \in {"upPostgres", "ready", "stream"} /\ ~c.force /\ ~PortalUp(f.liferay) => Database \in Raw
  /\ Quiet(f) =>
       /\ s \in {"download", "check", "wipe", "rmPostgres", "rmVolume", "upPostgres"} =>
            postgres \in {"none", "stopped"}
       /\ s = "upPostgres" => Database \in {"absent", "empty"}
       /\ s \in {"ready", "stream"} => postgres = "live" /\ Database \in {"init", "fresh"}
       /\ s = "imported" => postgres = "live" /\ Database = "part"
       /\ s \in {"postImport", "done"} /\ backup = "whole" => Database = "backup"

CleanAt(s) ==
  /\ s \in {"cleanDoclib", "cleanVolume", "cleanData", "done"} => postgres = "none" /\ liferay = "none"
  /\ s \in {"cleanVolume", "cleanData", "done"} /\ ~May("main") /\ ~May("worktree") => doclib = "absent"
  /\ s \in {"cleanData", "done"} /\ site.volume => Database = "absent"
  /\ s = "done" /\ site.inside => store["liferay-data"] = "absent" /\ Database = "absent"

SteadySite == site.may \cap {"main", "worktree", "docker"} = {}

StartAt(s) ==
  /\ s \in {"prepare", "doclib"} => liferay = "none"
  /\ s \in {"up", "health", "done"} => doclib = doclibPath

StageAt(c, f, s) ==
  /\ c.kind = "restore" /\ RestoreSite => RestoreAt(s)
  /\ c.kind \in Imports => ImportAt(c, f, s)
  /\ c.kind = "clean" => CleanAt(s)
  /\ c.kind \in {"start", "restart"} => (s \in {"up", "health", "done"} => doclib # "absent")
  /\ c.kind = "restart" \/ (c.kind = "start" /\ f.liferay = "none") => (SteadySite => StartAt(s))

AloneInv ==
  /\ \A p, q \in Proc : Active(p) /\ Active(q) => p = q
  /\ ended.outcome # "none" => \A p \in Proc : ~Active(p)
  /\ ended.outcome = "ok" => StageAt(ended.cmd, ended.found, "done")
  /\ \A p \in Proc : Active(p) => StageAt(proc[p].cmd, proc[p].found, Head(proc[p].todo))

OthersMay == \A o \in others : May(o)

EnvInv ==
  /\ TypeOK /\ Paths
  /\ OthersMay
  /\ Alone => AloneInv

-----------------------------------------------------------------------------
LEMMA OthersStay == OthersMay /\ site' = site /\ others' = others => OthersMay'
BY DEF OthersMay, May

LEMMA StepsOfCommand ==
  ASSUME NEW c \in Command
  PROVE  StepsOf(c) \subseteq Steps /\ Ends(c) \subseteq Steps
BY DEF Command, Kinds, StepsOf, Ends, Steps, StartSteps, ImportSteps, ResetSteps, RestoreSteps, CleanSteps, Imports

(* The rest of a path is a path; what comes next follows, or the command was at an end. *)
LEMMA PathTail ==
  ASSUME NEW c \in Command, NEW s, Path(c, s), s # <<>>
  PROVE  /\ Path(c, Tail(s)) /\ Head(s) \in StepsOf(c)
         /\ Tail(s) = <<>> => Head(s) \in Ends(c)
         /\ Tail(s) # <<>> => <<Head(s), Head(Tail(s))>> \in Follows /\ Head(Tail(s)) \in StepsOf(c)
<1>1. s \in Seq(StepsOf(c)) /\ Len(s) \in Nat \ {0}
  BY DEF Path
<1>2. Tail(s) \in Seq(StepsOf(c)) /\ Len(Tail(s)) = Len(s) - 1 /\ Head(s) = s[1] /\ s[1] \in StepsOf(c)
  BY <1>1
<1>3. \A i \in 1..Len(Tail(s)) : Tail(s)[i] = s[i + 1]
  BY <1>1, <1>2
<1>4. ASSUME Tail(s) = <<>> PROVE Len(s) = 1
  <2>1. Len(Tail(s)) = 0
    BY <1>4, EmptySeq
  <2> QED BY <2>1, <1>1, <1>2
<1>5. Tail(s) # <<>> => Len(s) > 1
  BY <1>1, <1>2, EmptySeq
<1>6. \A i \in 1..Len(Tail(s)) : i < Len(Tail(s)) => <<Tail(s)[i], Tail(s)[i + 1]>> \in Follows
  <2> SUFFICES ASSUME NEW i \in 1..Len(Tail(s)), i < Len(Tail(s))
               PROVE  <<Tail(s)[i], Tail(s)[i + 1]>> \in Follows
    OBVIOUS
  <2>1. i + 1 \in 1..Len(Tail(s)) /\ i + 1 \in 1..Len(s) /\ i + 1 < Len(s)
    BY <1>1, <1>2
  <2>2. Tail(s)[i] = s[i + 1] /\ Tail(s)[i + 1] = s[(i + 1) + 1]
    BY <2>1, <1>3
  <2> QED BY <2>1, <2>2 DEF Path
<1>7. Tail(s) # <<>> => Tail(s)[Len(Tail(s))] = s[Len(s)]
  BY <1>1, <1>2, <1>3, <1>5
<1>8. Path(c, Tail(s))
  BY <1>2, <1>6, <1>7 DEF Path
<1>9. ASSUME Tail(s) # <<>> PROVE <<Head(s), Head(Tail(s))>> \in Follows /\ Head(Tail(s)) \in StepsOf(c)
  <2>1. Head(Tail(s)) = s[2] /\ 1 \in 1..Len(s) /\ 1 < Len(s) /\ s[2] \in StepsOf(c)
    BY <1>1, <1>2, <1>3, <1>5, <1>9
  <2> QED BY <2>1, <1>2 DEF Path
<1> QED BY <1>2, <1>4, <1>8, <1>9 DEF Path

(* Two paths that meet make a path. *)
LEMMA PathJoin ==
  ASSUME NEW c \in Command, NEW s, NEW t, t # <<>>, Path(c, t),
         s \in Seq(StepsOf(c)), s # <<>>,
         \A i \in 1..Len(s) : i < Len(s) => <<s[i], s[i + 1]>> \in Follows,
         <<s[Len(s)], Head(t)>> \in Follows
  PROVE  Path(c, s \o t) /\ s \o t # <<>> /\ Head(s \o t) = s[1]
<1>1. t \in Seq(StepsOf(c)) /\ Len(t) \in Nat \ {0} /\ Len(s) \in Nat \ {0} /\ Head(t) = t[1]
  BY DEF Path
<1>2. s \o t \in Seq(StepsOf(c)) /\ Len(s \o t) = Len(s) + Len(t)
  BY <1>1
<1>3. \A i \in 1..Len(s) : (s \o t)[i] = s[i]
  BY <1>1, <1>2
<1>4. \A i \in 1..Len(t) : (s \o t)[Len(s) + i] = t[i]
  BY <1>1, <1>2
<1>5. ASSUME NEW i \in 1..Len(s \o t), i < Len(s \o t)
      PROVE  <<(s \o t)[i], (s \o t)[i + 1]>> \in Follows
  <2>1. CASE i < Len(s)
    <3>1. i \in 1..Len(s) /\ i + 1 \in 1..Len(s)
      BY <2>1, <1>1, <1>2
    <3> QED BY <3>1, <2>1, <1>3
  <2>2. CASE i = Len(s)
    <3>1. i \in 1..Len(s) /\ 1 \in 1..Len(t)
      BY <2>2, <1>1
    <3>2. (s \o t)[i] = s[Len(s)] /\ (s \o t)[i + 1] = t[1]
      BY <3>1, <2>2, <1>3, <1>4
    <3> QED BY <3>2, <1>1
  <2>3. CASE i > Len(s)
    <3> DEFINE j == i - Len(s)
    <3>1. j \in 1..Len(t) /\ j + 1 \in 1..Len(t) /\ j < Len(t) /\ i = Len(s) + j /\ i + 1 = Len(s) + (j + 1)
      BY <2>3, <1>1, <1>2, <1>5
    <3>2. (s \o t)[i] = t[j] /\ (s \o t)[i + 1] = t[j + 1]
      BY <3>1, <1>4
    <3> QED BY <3>1, <3>2 DEF Path
  <2>4. i \in Int /\ Len(s) \in Int
    BY <1>1, <1>2, <1>5
  <2>5. i < Len(s) \/ i = Len(s) \/ i > Len(s)
    BY <2>4
  <2> QED BY <2>1, <2>2, <2>3, <2>5
<1>6. (s \o t)[Len(s \o t)] = t[Len(t)]
  BY <1>1, <1>2, <1>4
<1>7. s \o t # <<>> /\ Head(s \o t) = s[1]
  BY <1>1, <1>2, <1>3
<1> QED BY <1>2, <1>5, <1>6, <1>7 DEF Path

(* The paths that plans are put together from. *)
Linked(s) == \A i \in 1..Len(s) : i < Len(s) => <<s[i], s[i + 1]>> \in Follows

LEMMA Links ==
  /\ Linked(<<"health">>) /\ Linked(<<"prepare", "doclib", "up">>) /\ Linked(<<"stop", "down">>)
  /\ Linked(<<"rollbackStop", "rollbackDown">>) /\ Linked(<<"stopLiferay", "upLiferay">>)
  /\ Linked(<<"source", "downQuietly", "dropPostgres", "copyPostgres", "dropData", "copyData">>)
  /\ Linked(<<"downVolumes", "cleanDoclib", "cleanVolume", "cleanData">>)
  /\ Linked(Import) /\ Linked(<<"download">>)
  /\ Linked(<<"wipe">>) /\ Linked(<<"rmPostgres", "rmVolume">>)
<1> USE DEF Linked, Follows
<1>1. Linked(<<"health">>) /\ Linked(<<"download">>) /\ Linked(<<"wipe">>)
  OBVIOUS
<1>2. Linked(<<"stop", "down">>) /\ Linked(<<"rollbackStop", "rollbackDown">>)
      /\ Linked(<<"stopLiferay", "upLiferay">>) /\ Linked(<<"rmPostgres", "rmVolume">>)
  OBVIOUS
<1>3. Linked(<<"prepare", "doclib", "up">>)
  OBVIOUS
<1>4. Linked(<<"downVolumes", "cleanDoclib", "cleanVolume", "cleanData">>)
  OBVIOUS
<1>5. Linked(<<"source", "downQuietly", "dropPostgres", "copyPostgres", "dropData", "copyData">>)
  OBVIOUS
<1>6. Linked(Import)
  BY DEF Import
<1> QED BY <1>1, <1>2, <1>3, <1>4, <1>5, <1>6

LEMMA StartPath ==
  ASSUME NEW c \in Command, StartSteps \subseteq StepsOf(c), {"up", "health"} \subseteq Ends(c), NEW w \in BOOLEAN
  PROVE  Path(c, Start(w)) /\ Start(w) # <<>> /\ Head(Start(w)) = "prepare"
<1> DEFINE s == <<"prepare", "doclib", "up">>
           t == <<"health">>
<1>1. s \in Seq(StepsOf(c)) /\ t \in Seq(StepsOf(c))
  BY DEF StartSteps
<1>2. Path(c, t) /\ t # <<>> /\ Head(t) = "health"
  BY <1>1, Links DEF Path, Linked
<1>3. Path(c, s) /\ s # <<>> /\ Head(s) = "prepare" /\ s[Len(s)] = "up" /\ s[1] = "prepare"
  BY <1>1, Links DEF Path, Linked
<1>4. Path(c, s \o t) /\ s \o t # <<>> /\ Head(s \o t) = "prepare"
  <2>1. <<s[Len(s)], Head(t)>> \in Follows
    BY <1>2, <1>3 DEF Follows
  <2>2. Linked(s)
    BY Links
  <2> HIDE DEF s, t
  <2> QED BY <1>1, <1>2, <1>3, <2>1, <2>2, PathJoin DEF Linked
<1>5. s \o <<>> = s
  BY <1>1, ConcatEmptySeq
<1>6. CASE w
  BY <1>6, <1>4 DEF Start
<1>7. CASE ~w
  BY <1>7, <1>3, <1>5 DEF Start
<1> QED BY <1>6, <1>7

LEMMA ImportStepsOf ==
  ASSUME NEW c \in Command, c.kind \in Imports
  PROVE  /\ StepsOf(c) = ImportSteps \cup (IF c.force THEN ResetSteps ELSE {})
         /\ Ends(c) = {"rollbackDown", "postImport"}
<1>1. CASE c.kind = "import"
  BY <1>1 DEF StepsOf, Ends, Imports
<1>2. CASE c.kind = "sync"
  BY <1>2 DEF StepsOf, Ends, Imports
<1> QED BY <1>1, <1>2 DEF Imports

(* Every plan is a path from its first step. *)
First(c) ==
  CASE c.kind = "start" -> "prepare"
    [] c.kind \in {"stop", "restart"} -> "stop"
    [] c.kind = "recreate" -> "stopLiferay"
    [] c.kind = "restore" -> "source"
    [] c.kind = "clean" -> "downVolumes"
    [] c.kind = "import" -> "check"
    [] c.kind = "sync" -> "download"

LEMMA PlanPath ==
  ASSUME NEW c \in Command
  PROVE  Path(c, Plan(c)) /\ Plan(c) # <<>> /\ Head(Plan(c)) = First(c)
<1>w. c.wait \in BOOLEAN /\ c.kind \in Kinds
  BY DEF Command
<1>1. CASE c.kind = "start"
  <2>1. StartSteps \subseteq StepsOf(c) /\ {"up", "health"} \subseteq Ends(c)
    BY <1>1 DEF StepsOf, Ends, Imports
  <2> QED BY <1>1, <1>w, <2>1, StartPath DEF Plan, First
<1>2. CASE c.kind = "stop"
  <2> DEFINE s == <<"stop", "down">>
  <2>1. s \in Seq(StepsOf(c)) /\ s[Len(s)] \in Ends(c)
    BY <1>2 DEF StepsOf, Ends, Imports
  <2>2. Path(c, s) /\ s # <<>> /\ Head(s) = "stop"
    BY <2>1, Links DEF Path, Linked
  <2> QED BY <1>2, <2>2 DEF Plan, First
<1>3. CASE c.kind = "restart"
  <2> DEFINE s == <<"stop", "down">>
             t == Start(c.wait)
  <2>1. StartSteps \subseteq StepsOf(c) /\ {"up", "health"} \subseteq Ends(c) /\ s \in Seq(StepsOf(c))
    BY <1>3 DEF StepsOf, Ends, Imports
  <2>2. Path(c, t) /\ t # <<>> /\ Head(t) = "prepare"
    BY <2>1, <1>w, StartPath
  <2>3. s # <<>> /\ s[Len(s)] = "down" /\ s[1] = "stop" /\ Linked(s)
    BY Links
  <2>4. <<s[Len(s)], Head(t)>> \in Follows
    BY <2>2, <2>3 DEF Follows
  <2> HIDE DEF s, t
  <2>5. Path(c, s \o t) /\ s \o t # <<>> /\ Head(s \o t) = "stop"
    BY <2>1, <2>2, <2>3, <2>4, PathJoin DEF Linked
  <2> QED BY <1>3, <2>5 DEF Plan, First, s, t
<1>4. CASE c.kind = "recreate"
  <2> DEFINE s == <<"stopLiferay", "upLiferay">>
             t == <<"health">>
  <2>1. s \in Seq(StepsOf(c)) /\ t \in Seq(StepsOf(c)) /\ {"upLiferay", "health"} \subseteq Ends(c)
    BY <1>4 DEF StepsOf, Ends, Imports
  <2>2. Path(c, t) /\ t # <<>> /\ Head(t) = "health"
    BY <2>1, Links DEF Path, Linked
  <2>3. Path(c, s) /\ s # <<>> /\ s[Len(s)] = "upLiferay" /\ s[1] = "stopLiferay" /\ Head(s) = "stopLiferay"
    BY <2>1, Links DEF Path, Linked
  <2>4. <<s[Len(s)], Head(t)>> \in Follows
    BY <2>2, <2>3 DEF Follows
  <2>5. s \o <<>> = s /\ Linked(s)
    BY <2>1, ConcatEmptySeq, Links
  <2> HIDE DEF s, t
  <2>6. Path(c, s \o t) /\ s \o t # <<>> /\ Head(s \o t) = "stopLiferay"
    BY <2>1, <2>2, <2>3, <2>4, <2>5, PathJoin DEF Linked
  <2>7. CASE c.wait
    BY <1>4, <2>6, <2>7 DEF Plan, First, s, t
  <2>8. CASE ~c.wait
    <3>1. Plan(c) = s
      BY <1>4, <2>5, <2>8 DEF Plan, s
    <3> QED BY <1>4, <2>3, <3>1 DEF First
  <2> QED BY <2>7, <2>8
<1>5. CASE c.kind = "restore"
  <2> DEFINE s == <<"source", "downQuietly", "dropPostgres", "copyPostgres", "dropData", "copyData">>
             t == Start(TRUE)
  <2>1. s \in Seq(StepsOf(c)) /\ (~c.task => "copyData" \in Ends(c))
        /\ (c.task => StartSteps \subseteq StepsOf(c) /\ {"up", "health"} \subseteq Ends(c))
    BY <1>5 DEF StepsOf, Ends, RestoreSteps, Imports
  <2>2. c.task => Path(c, t) /\ t # <<>> /\ Head(t) = "prepare"
    BY <2>1, StartPath
  <2>3. s # <<>> /\ s[Len(s)] = "copyData" /\ s[1] = "source" /\ Head(s) = "source" /\ Linked(s) /\ s \o <<>> = s
    BY <2>1, ConcatEmptySeq, Links
  <2>4. c.task => <<s[Len(s)], Head(t)>> \in Follows
    BY <2>2, <2>3 DEF Follows
  <2>9. Plan(c) = s \o (IF c.task THEN t ELSE <<>>)
    BY <1>5 DEF Plan
  <2> HIDE DEF s, t
  <2>5. CASE c.task
    <3>1. Path(c, s \o t) /\ s \o t # <<>> /\ Head(s \o t) = "source"
      BY <2>1, <2>2, <2>3, <2>4, <2>5, PathJoin DEF Linked
    <3> QED BY <1>5, <2>5, <2>9, <3>1 DEF First
  <2>6. CASE ~c.task
    <3>1. Path(c, s)
      BY <2>1, <2>3, <2>6 DEF Path, Linked
    <3> QED BY <1>5, <2>3, <2>6, <2>9, <3>1 DEF First
  <2> QED BY <2>5, <2>6
<1>6. CASE c.kind = "clean"
  <2> DEFINE s == <<"downVolumes", "cleanDoclib", "cleanVolume", "cleanData">>
  <2>1. s \in Seq(StepsOf(c)) /\ s[Len(s)] \in Ends(c)
    BY <1>6 DEF StepsOf, Ends, CleanSteps, Imports
  <2>2. Path(c, s) /\ s # <<>> /\ Head(s) = "downVolumes"
    BY <2>1, Links DEF Path, Linked
  <2> QED BY <1>6, <2>2 DEF Plan, First
<1>7. CASE c.kind \in Imports
  <2>1. Import \in Seq(StepsOf(c)) /\ Import[Len(Import)] \in Ends(c) /\ <<"download">> \in Seq(StepsOf(c))
    BY <1>7, ImportStepsOf DEF ImportSteps, Import
  <2>2. Path(c, Import) /\ Import # <<>> /\ Head(Import) = "check"
    <3>1. Import # <<>> /\ Head(Import) = "check"
      BY DEF Import
    <3> QED BY <3>1, <2>1, Links DEF Path, Linked
  <2> DEFINE s == <<"download">>
  <2>3. s # <<>> /\ s[Len(s)] = "download" /\ s[1] = "download" /\ Linked(s)
    BY Links
  <2>4. <<s[Len(s)], Head(Import)>> \in Follows
    BY <2>2, <2>3 DEF Follows
  <2>7. s \in Seq(StepsOf(c)) /\ (c.kind = "sync" => Plan(c) = s \o Import) /\ (c.kind = "import" => Plan(c) = Import)
    BY <2>1 DEF Plan
  <2> HIDE DEF s
  <2>5. Path(c, s \o Import) /\ s \o Import # <<>> /\ Head(s \o Import) = "download"
    BY <2>2, <2>3, <2>4, <2>7, PathJoin DEF Linked
  <2> QED BY <1>7, <2>2, <2>5, <2>7 DEF First, Imports
<1> QED BY <1>w, <1>1, <1>2, <1>3, <1>4, <1>5, <1>6, <1>7 DEF Kinds, Imports

(* The detours: the reset of an import with --force, and the rollback of a start. *)
LEMMA ResetPath ==
  ASSUME NEW c \in Command, c.kind \in Imports, c.force, NEW t, Path(c, t), t # <<>>, Head(t) = "upPostgres"
  PROVE  Path(c, Reset \o t) /\ Reset \o t # <<>>
         /\ Head(Reset \o t) = IF site.volume THEN "rmPostgres" ELSE "wipe"
<1>1. Reset \in Seq(StepsOf(c)) /\ Reset # <<>> /\ Reset[1] = (IF site.volume THEN "rmPostgres" ELSE "wipe")
  BY ImportStepsOf DEF Reset, ResetSteps
<1>2. Linked(Reset)
  BY Links DEF Reset
<1>3. <<Reset[Len(Reset)], Head(t)>> \in Follows
  BY DEF Reset, Follows
<1> QED BY <1>1, <1>2, <1>3, PathJoin DEF Linked

LEMMA RollbackPath ==
  ASSUME NEW c \in Command, "up" \in StepsOf(c)
  PROVE  Path(c, <<"rollbackStop", "rollbackDown">>)
<1>1. {"rollbackStop", "rollbackDown"} \subseteq StepsOf(c)
  BY DEF StepsOf, StartSteps, ImportSteps, ResetSteps, RestoreSteps, CleanSteps, Command, Kinds, Imports
<1> DEFINE s == <<"rollbackStop", "rollbackDown">>
<1>2. s \in Seq(StepsOf(c)) /\ s[Len(s)] \in Ends(c)
  BY <1>1 DEF Ends
<1> QED BY <1>2, Links DEF Path, Linked

-----------------------------------------------------------------------------
(* Whose steps they are, and where they lead. *)
LEMMA KindOf ==
  ASSUME NEW c \in Command, NEW s \in StepsOf(c)
  PROVE  /\ s \in {"prepare", "doclib", "up", "rollbackStop", "rollbackDown"} =>
              c.kind \in {"start", "restart", "restore"}
         /\ s = "health" => c.kind \in {"start", "restart", "restore", "recreate"}
         /\ s \in {"stop", "down"} => c.kind \in {"stop", "restart"}
         /\ s \in {"stopLiferay", "upLiferay"} => c.kind = "recreate"
         /\ s \in RestoreSteps => c.kind = "restore"
         /\ s \in CleanSteps => c.kind = "clean"
         /\ s \in ImportSteps => c.kind \in Imports
         /\ s \in {"wipe", "rmPostgres", "rmVolume"} => c.kind \in Imports /\ c.force
         /\ (s = "wipe" => ~site.volume) /\ (s \in {"rmPostgres", "rmVolume"} => site.volume)
<1>k. c.kind \in Kinds
  BY DEF Command
<1> USE DEF StartSteps, ImportSteps, ResetSteps, RestoreSteps, CleanSteps, Imports
<1>1. CASE c.kind \in Imports
  BY <1>1, ImportStepsOf
<1>2. CASE c.kind = "start"
  BY <1>2 DEF StepsOf
<1>3. CASE c.kind = "stop"
  BY <1>3 DEF StepsOf
<1>4. CASE c.kind = "restart"
  BY <1>4 DEF StepsOf
<1>5. CASE c.kind = "recreate"
  BY <1>5 DEF StepsOf
<1>6. CASE c.kind = "restore"
  BY <1>6 DEF StepsOf
<1>7. CASE c.kind = "clean"
  BY <1>7 DEF StepsOf
<1> QED BY <1>k, <1>1, <1>2, <1>3, <1>4, <1>5, <1>6, <1>7 DEF Kinds

LEMMA EndOf ==
  ASSUME NEW c \in Command, NEW s \in Ends(c)
  PROVE  /\ s \in {"rollbackDown", "up", "health", "down", "upLiferay", "copyData", "cleanData", "postImport"}
         /\ s = "down" => c.kind = "stop"
<1>k. c.kind \in Kinds
  BY DEF Command
<1>1. CASE c.kind \in Imports
  BY <1>1, ImportStepsOf
<1>2. CASE c.kind \in {"start", "stop", "restart", "recreate", "restore", "clean"}
  BY <1>2 DEF Ends, Imports
<1> QED BY <1>k, <1>1, <1>2 DEF Kinds, Imports

LEMMA NextOf ==
  ASSUME NEW c \in Command, NEW s, NEW n \in Nexts(c, s)
  PROVE  /\ s = "prepare" => n = "doclib"
         /\ s = "doclib" => n = "up"
         /\ s = "up" => n \in {"health", "done"}
         /\ s = "health" => n = "done"
         /\ s = "stop" => n = "down"
         /\ s = "down" => n = "prepare" \/ (n = "done" /\ c.kind = "stop")
         /\ s = "rollbackStop" => n = "rollbackDown"
         /\ s = "source" => n = "downQuietly"
         /\ s = "downQuietly" => n = "dropPostgres"
         /\ s = "dropPostgres" => n = "copyPostgres"
         /\ s = "copyPostgres" => n = "dropData"
         /\ s = "dropData" => n = "copyData"
         /\ s = "copyData" => n \in {"prepare", "done"}
         /\ s = "downVolumes" => n = "cleanDoclib"
         /\ s = "cleanDoclib" => n = "cleanVolume"
         /\ s = "cleanVolume" => n = "cleanData"
         /\ s = "cleanData" => n = "done"
         /\ s = "download" => n = "check"
         /\ s = "check" => n = "upPostgres"
         /\ s = "wipe" => n = "upPostgres"
         /\ s = "rmPostgres" => n = "rmVolume"
         /\ s = "rmVolume" => n = "upPostgres"
         /\ s = "upPostgres" => n = "ready"
         /\ s = "ready" => n = "stream"
         /\ s = "stream" => n = "imported"
         /\ s = "imported" => n = "postImport"
         /\ s = "postImport" => n = "done"
         /\ n \in Steps \cup {"done"}
<1>1. CASE n \in Steps /\ <<s, n>> \in Follows
  BY <1>1 DEF Follows
<1>2. CASE n = "done" /\ s \in Ends(c)
  BY <1>2, EndOf
<1> QED BY <1>1, <1>2 DEF Nexts

-----------------------------------------------------------------------------
(* The two halves of TypeOK: the environment, and the commands with the last outcome. *)
EnvTypes ==
  /\ site \in Sites
  /\ store \in [Storage -> Content]
  /\ postgres \in {"none", "stopped", "live", "orphan"} /\ (site.volume => postgres # "orphan")
  /\ liferay \in {"none", "starting", "healthy", "exited"}
  /\ others \subseteq {"main", "worktree"}
  /\ doclib \in {"absent", "default", "own"} /\ doclibPath \in {"default", "own"}
  /\ backup \in {"none", "partial", "whole"}
  /\ runs \in 0..MaxRuns[site]

RunType == [cmd : Command, todo : Seq(Steps), canceled : BOOLEAN, found : Looked]
Outcomes == {"none", "ok", "failed", "refused", "canceled"}
CommandTypes ==
  /\ proc \in [Proc -> RunType]
  /\ \A p \in Proc : proc[p].canceled => proc[p].cmd.task
  /\ ended \in [cmd : Command, outcome : Outcomes, at : Steps \cup {"none"}, found : Looked]

LEMMA TypeHalves == TypeOK <=> EnvTypes /\ CommandTypes
<1>1. Found \in Looked <=> /\ store["postgres-data"] \in Content
                           /\ postgres \in {"none", "stopped", "live", "orphan"}
                           /\ liferay \in {"none", "starting", "healthy", "exited"}
  BY DEF Found, Looked, Database
<1>2. store \in [Storage -> Content] => store["postgres-data"] \in Content
  BY DEF Storage
<1> QED BY <1>1, <1>2 DEF TypeOK, EnvTypes, CommandTypes, RunType, Outcomes

(* A command arrives at its step n, or at its good end. *)
Cmd(p) == proc[p].cmd
Here(p) == Head(proc[p].todo)
Arrives(p, n) ==
  IF n = "done" THEN Finish(p, "ok") ELSE \E t : Then(p, t) /\ Path(Cmd(p), t) /\ t # <<>> /\ Head(t) = n

LEMMA Facts ==
  ASSUME CommandTypes, Paths, NEW p \in Proc
  PROVE  /\ proc[p] \in RunType /\ DOMAIN proc = Proc /\ Cmd(p) \in Command /\ proc[p].found \in Looked
         /\ Path(Cmd(p), proc[p].todo) /\ proc[p].canceled \in BOOLEAN /\ (proc[p].canceled => Cmd(p).task)
         /\ Active(p) => Here(p) \in StepsOf(Cmd(p)) /\ Here(p) \in Steps
<1>1. proc[p] \in RunType /\ DOMAIN proc = Proc /\ (proc[p].canceled => Cmd(p).task)
  BY DEF CommandTypes, Cmd
<1>2. Cmd(p) \in Command /\ proc[p].found \in Looked /\ proc[p].canceled \in BOOLEAN
  BY <1>1 DEF RunType, Cmd
<1>3. Path(Cmd(p), proc[p].todo)
  BY DEF Paths, Cmd
<1>4. Active(p) => Here(p) \in StepsOf(Cmd(p)) /\ Here(p) \in Steps
  BY <1>2, <1>3, PathTail, StepsOfCommand DEF Active, Here
<1> QED BY <1>1, <1>2, <1>3, <1>4

LEMMA Proceeds ==
  ASSUME CommandTypes, Paths, NEW p \in Proc, Active(p), Proceed(p)
  PROVE  \E n \in Nexts(Cmd(p), Here(p)) : Arrives(p, n)
<1>1. Cmd(p) \in Command /\ Path(Cmd(p), proc[p].todo) /\ proc[p].todo # <<>>
  BY Facts DEF Active
<1>2. CASE Rest(p) = <<>>
  <2>1. Here(p) \in Ends(Cmd(p)) /\ Finish(p, "ok")
    BY <1>1, <1>2, PathTail DEF Proceed, Rest, Here
  <2> QED BY <2>1 DEF Nexts, Arrives
<1>3. CASE Rest(p) # <<>>
  <2>1. <<Here(p), Head(Rest(p))>> \in Follows /\ Path(Cmd(p), Rest(p)) /\ Head(Rest(p)) \in Steps
    BY <1>1, <1>3, PathTail, StepsOfCommand DEF Rest, Here
  <2>2. Head(Rest(p)) # "done"
    BY <2>1 DEF Steps
  <2>3. Then(p, Rest(p))
    BY <1>3 DEF Proceed
  <2> QED BY <1>3, <2>1, <2>2, <2>3 DEF Nexts, Arrives
<1> QED BY <1>2, <1>3

LEMMA SamePath == site' = site => \A c, s : Path(c, s)' <=> Path(c, s)
BY DEF Path, StepsOf, Ends, ResetSteps

LEMMA IdleType == Nothing \in Command /\ NotLooked \in Looked /\ Path(Nothing, <<>>)
                  /\ Idle \in RunType /\ Idle.todo = <<>> /\ Idle.cmd = Nothing /\ Idle.canceled = FALSE
<1>1. Nothing \in Command
  BY DEF Nothing, Command, Kinds
<1>2. NotLooked \in Looked
  BY DEF NotLooked, Looked, Content
<1>3. Path(Nothing, <<>>) /\ <<>> \in Seq(Steps)
  BY EmptySeq DEF Path
<1> QED BY <1>1, <1>2, <1>3 DEF Idle, RunType

(* Ending a command, or sending it on along a path, keeps the types and the paths. *)
LEMMA Landed ==
  ASSUME CommandTypes, Paths, NEW p \in Proc, Active(p), site' = site
  PROVE  /\ \A o \in Outcomes : Finish(p, o) => CommandTypes' /\ Paths'
         /\ \A n : Arrives(p, n) => CommandTypes' /\ Paths'
<1>f. proc[p] \in RunType /\ DOMAIN proc = Proc /\ Cmd(p) \in Command /\ proc[p].found \in Looked
      /\ (proc[p].canceled => Cmd(p).task)
  BY Facts
<1>1. ASSUME NEW o \in Outcomes, Finish(p, o) PROVE CommandTypes' /\ Paths'
  <2>1. /\ proc' = [proc EXCEPT ![p] = Idle]
        /\ ended' = [cmd |-> Cmd(p), outcome |-> Recorded(p, o), at |-> Here(p), found |-> proc[p].found]
    BY <1>1 DEF Finish, Cmd, Here
  <2>4. Recorded(p, o) \in Outcomes /\ Here(p) \in Steps
    BY Facts DEF Recorded, Outcomes
  <2>2. CommandTypes'
    BY <2>1, <2>4, <1>f, IdleType DEF CommandTypes
  <2>3. \A q \in Proc : Path(proc'[q].cmd, proc'[q].todo)
    BY <2>1, <1>f, IdleType DEF Paths
  <2> QED BY <2>2, <2>3, SamePath DEF Paths
<1>2. ASSUME NEW t, Then(p, t), Path(Cmd(p), t) PROVE CommandTypes' /\ Paths'
  <2>1. proc' = [proc EXCEPT ![p] = [proc[p] EXCEPT !.todo = t]] /\ ended' = ended
    BY <1>2, <1>f DEF Then
  <2>2. t \in Seq(Steps)
    <3>1. t \in Seq(StepsOf(Cmd(p))) /\ StepsOf(Cmd(p)) \subseteq Steps
      BY <1>2, <1>f, StepsOfCommand DEF Path
    <3> QED BY <3>1, SeqMonotonic
  <2> DEFINE r == [proc[p] EXCEPT !.todo = t]
  <2>3. r \in RunType /\ r.cmd = Cmd(p) /\ r.todo = t /\ r.canceled = proc[p].canceled
    BY <2>2, <1>f DEF RunType, Cmd
  <2>4. proc' = [proc EXCEPT ![p] = r]
    BY <2>1
  <2> HIDE DEF r
  <2>5. CommandTypes'
    BY <2>1, <2>3, <2>4, <1>f DEF CommandTypes
  <2>6. \A q \in Proc : Path(proc'[q].cmd, proc'[q].todo)
    BY <2>3, <2>4, <1>2, <1>f DEF Paths
  <2> QED BY <2>5, <2>6, SamePath DEF Paths
<1>3. ASSUME NEW n, Arrives(p, n) PROVE CommandTypes' /\ Paths'
  <2>1. CASE n = "done"
    BY <1>1, <1>3, <2>1 DEF Arrives, Outcomes
  <2>2. CASE n # "done"
    BY <1>2, <1>3, <2>2 DEF Arrives
  <2> QED BY <2>1, <2>2
<1> QED BY <1>1, <1>3

-----------------------------------------------------------------------------
(* What a step of a command amounts to: it arrives where its stage holds, or gives up; and *)
(* it replaces no database unasked.                                                        *)
Outcome(p, c, f) ==
  \/ \E n \in Steps \cup {"done"} :
       Arrives(p, n) /\ (Alone /\ StageAt(c, f, Here(p)) => StageAt(c, f, n)')
  \/ \E o \in {"failed", "refused"} : Finish(p, o)

Asked(p, c, f) ==
  (Alone => StageAt(c, f, Here(p))) /\ Database \in Precious /\ Database' # Database => Replaces(proc[p])

Context(p, c, f) ==
  /\ EnvTypes /\ CommandTypes /\ Paths /\ OthersMay
  /\ c = Cmd(p) /\ f = proc[p].found

(* The storages and the containers under what is done to them. *)
LEMMA StoreMoves ==
  ASSUME EnvTypes
  PROVE  /\ \A x \in Content :
              /\ WithDatabase(x) \in [Storage -> Content] /\ WithDatabase(x)["postgres-data"] = x
              /\ WithDatabase(x)["liferay-data"] = store["liferay-data"]
              /\ With("liferay-data", x) \in [Storage -> Content] /\ With("liferay-data", x)["liferay-data"] = x
              /\ With("liferay-data", x)["postgres-data"] = Database
         /\ Database \in Content /\ store["liferay-data"] \in Content
         /\ Interrupted \in [Storage -> Content]
         /\ Interrupted["postgres-data"] = (IF Database = "init" THEN "torn" ELSE Database)
         /\ Interrupted["liferay-data"] = store["liferay-data"]
BY DEF EnvTypes, WithDatabase, With, Database, Storage, Interrupted, Content

LEMMA Laying ==
  ASSUME EnvTypes, NEW s \in [Storage -> Content]
  PROVE  /\ LaidOut(s) \in [Storage -> Content]
         /\ \A x \in Storage : s[x] # "absent" => LaidOut(s)[x] = s[x]
         /\ \A x \in Storage : LaidOut(s)[x] \in {s[x], "empty"}
         /\ LaidOut(s)["postgres-data"] = (IF s["postgres-data"] = "absent" /\ ~site.volume
                                           THEN "empty" ELSE s["postgres-data"])
BY DEF LaidOut, Storage, Content

LEMMA PostgresUpMoves ==
  ASSUME EnvTypes, NEW x \in {"init", "fresh"}, PostgresUp(x)
  PROVE  /\ store' \in [Storage -> Content] /\ postgres' \in {"live", "orphan"}
         /\ (site.volume => postgres' # "orphan")
         /\ store'["liferay-data"] = store["liferay-data"]
         /\ Database \notin {"absent", "empty"} => Database' = Database
         /\ postgres \notin {"live", "orphan"} => postgres' = "live"
              /\ Database' = (IF Database \in {"absent", "empty"} THEN x ELSE Database)
         /\ postgres \in {"live", "orphan"} => postgres' = postgres /\ store' = store
<1>1. CASE postgres \in {"live", "orphan"}
  BY <1>1 DEF PostgresUp, EnvTypes, Database
<1>2. CASE postgres \notin {"live", "orphan"}
  <2>1. postgres' = "live" /\ store' = WithDatabase(Created(Database, x))
    BY <1>2 DEF PostgresUp
  <2>2. Created(Database, x) \in Content /\ Database \in Content
    BY StoreMoves DEF Created, Content
  <2>3. store' \in [Storage -> Content] /\ store'["postgres-data"] = Created(Database, x)
        /\ store'["liferay-data"] = store["liferay-data"]
    BY <2>1, <2>2, StoreMoves
  <2> QED BY <1>2, <2>1, <2>3 DEF Created, Database
<1> QED BY <1>1, <1>2

LEMMA PartlyUpMoves ==
  ASSUME EnvTypes, PartlyUp
  PROVE  /\ store' \in [Storage -> Content]
         /\ postgres' \in {"none", "stopped", "live", "orphan"} /\ (site.volume => postgres' # "orphan")
         /\ liferay' \in {"none", "starting", "healthy", "exited"}
         /\ store'["liferay-data"] = store["liferay-data"]
         /\ Database \notin {"absent", "empty"} => Database' = Database
<1>1. CASE UNCHANGED <<store, containers>>
  BY <1>1 DEF EnvTypes, containers, Database
<1>2. CASE PostgresUp("init") /\ (UNCHANGED liferay \/ LiferayUp)
  <2>1. liferay' \in {"none", "starting", "healthy", "exited"}
    BY <1>2 DEF EnvTypes, LiferayUp
  <2> QED BY <1>2, <2>1, PostgresUpMoves
<1> QED BY <1>1, <1>2 DEF PartlyUp

LEMMA StoppedMoves ==
  ASSUME EnvTypes
  PROVE  /\ PostgresStops \/ AllRemoved =>
              /\ store' = Interrupted /\ postgres' \in {"none", "stopped"}
         /\ LiferayStops => liferay' \in {"none", "exited"} /\ (liferay = "none" => liferay' = "none")
         /\ AllRemoved => postgres' = "none" /\ liferay' = "none"
BY DEF EnvTypes, PostgresStops, AllRemoved, LiferayStops, Stopped

LEMMA Onward ==
  ASSUME NEW p \in Proc, NEW c \in Command, NEW f \in Looked, Context(p, c, f), Active(p), Proceed(p),
         \A n \in Nexts(c, Here(p)) : Alone /\ StageAt(c, f, Here(p)) => StageAt(c, f, n)'
  PROVE  Outcome(p, c, f)
<1>1. PICK n \in Nexts(c, Here(p)) : Arrives(p, n)
  BY Proceeds DEF Context
<1>2. n \in Steps \cup {"done"}
  BY <1>1, NextOf
<1> QED BY <1>1, <1>2 DEF Outcome

LEMMA HereOf ==
  ASSUME NEW p \in Proc, NEW c \in Command, NEW f, NEW s, Context(p, c, f), At(p, s)
  PROVE  Active(p) /\ Here(p) = s /\ s \in StepsOf(c)
BY Facts DEF Context, At, Here

(* start *)
LEMMA PrepareStep ==
  ASSUME NEW p \in Proc, NEW c \in Command, NEW f \in Looked, Context(p, c, f), Prepare(p)
  PROVE  EnvTypes' /\ Outcome(p, c, f) /\ Asked(p, c, f)
<1>0. Active(p) /\ Here(p) = "prepare" /\ c.kind \in {"start", "restart", "restore"} /\ EnvTypes
  BY HereOf, KindOf DEF Prepare, Context
<1>1. /\ site' = site /\ others' = others /\ doclibPath' = doclibPath /\ runs' = runs /\ postgres' = postgres
      /\ liferay' = liferay /\ doclib' = doclib /\ backup' = backup
  BY DEF Prepare, outside, containers
<1>2. Cloned \in [Storage -> Content]
  BY DEF Cloned, Content
<1>3. store' \in [Storage -> Content]
  BY <1>0, <1>2, Laying DEF Prepare, EnvTypes
<1>4. EnvTypes'
  BY <1>0, <1>1, <1>3 DEF EnvTypes
<1>5. HasState \/ site.main => \A x \in Storage : store[x] # "absent" => store'[x] = store[x]
  BY <1>0, Laying DEF Prepare, EnvTypes
<1>6. Asked(p, c, f)
  BY <1>5 DEF Asked, HasState, Database, Storage, Precious, Prepare
<1> SUFFICES Outcome(p, c, f)
  BY <1>4, <1>6
<1>7. CASE Proceed(p)
  <2>1. \A n \in Nexts(c, "prepare") : n = "doclib"
    BY NextOf
  <2>2. Alone /\ StageAt(c, f, "prepare") => StageAt(c, f, "doclib")'
    <3>1. ASSUME c.kind = "restore", RestoreSite, RestoreAt("prepare") PROVE RestoreAt("doclib")'
      <4>1. Database = "main" /\ store["liferay-data"] # "absent"
        BY <3>1 DEF RestoreAt
      <4>2. store'["postgres-data"] = store["postgres-data"] /\ store'["liferay-data"] = store["liferay-data"]
        BY <4>1, <1>5 DEF HasState, Storage, Database
      <4> QED BY <3>1, <4>2, <1>1 DEF RestoreAt, Database
    <3>2. ASSUME StartAt("prepare") PROVE StartAt("doclib")'
      BY <3>2, <1>1 DEF StartAt
    <3> QED BY <1>0, <1>1, <3>1, <3>2 DEF StageAt, RestoreSite, SteadySite, May, Imports
  <2> QED BY <1>0, <1>7, <2>1, <2>2, Onward
<1>8. CASE Finish(p, "refused")
  BY <1>8 DEF Outcome
<1>9. Proceed(p) \/ Finish(p, "refused")
  BY DEF Prepare
<1> QED BY <1>7, <1>8, <1>9

LEMMA DoclibStep ==
  ASSUME NEW p \in Proc, NEW c \in Command, NEW f \in Looked, Context(p, c, f), EnsureDoclibVolume(p)
  PROVE  EnvTypes' /\ Outcome(p, c, f) /\ Asked(p, c, f)
<1>0. Active(p) /\ Here(p) = "doclib" /\ c.kind \in {"start", "restart", "restore"}
      /\ EnvTypes /\ OthersMay
  BY HereOf, KindOf DEF EnsureDoclibVolume, Context
<1>1. /\ site' = site /\ others' = others /\ doclibPath' = doclibPath /\ runs' = runs /\ postgres' = postgres
      /\ liferay' = liferay /\ store' = store /\ backup' = backup
  BY DEF EnsureDoclibVolume, outside, containers
<1>2. doclib' \in {"absent", "default", "own"}
  BY <1>0 DEF EnsureDoclibVolume, EnvTypes
<1>3. EnvTypes'
  BY <1>0, <1>1, <1>2 DEF EnvTypes
<1>4. Asked(p, c, f)
  BY <1>1 DEF Asked, Database
<1> SUFFICES Outcome(p, c, f)
  BY <1>3, <1>4
<1>5. CASE Proceed(p) /\ doclib' # "absent" /\ (doclib' = doclibPath \/ DoclibInUse \/ May("docker"))
  <2>1. \A n \in Nexts(c, "doclib") : n = "up"
    BY NextOf
  <2>2. Alone /\ StageAt(c, f, "doclib") => StageAt(c, f, "up")'
    <3>1. ASSUME RestoreAt("doclib") PROVE RestoreAt("up")'
      BY <3>1, <1>1 DEF RestoreAt, Database
    <3>2. ASSUME StartAt("doclib"), SteadySite PROVE StartAt("up")'
      <4>1. others = {} /\ ~May("docker")
        BY <1>0, <3>2 DEF SteadySite, OthersMay, May, EnvTypes
      <4>2. doclib' = doclibPath
        BY <1>5, <3>2, <4>1 DEF StartAt, DoclibInUse
      <4> QED BY <4>2, <1>1 DEF StartAt
    <3> QED BY <1>0, <1>1, <1>5, <3>1, <3>2 DEF StageAt, RestoreSite, SteadySite, May, Imports
  <2> QED BY <1>0, <1>5, <2>1, <2>2, Onward
<1>6. CASE Finish(p, "failed")
  BY <1>6 DEF Outcome
<1>7. \/ Proceed(p) /\ doclib' # "absent" /\ (doclib' = doclibPath \/ DoclibInUse \/ May("docker"))
      \/ Finish(p, "failed")
  BY <1>0 DEF EnsureDoclibVolume, SameDevice, EnvTypes
<1> QED BY <1>5, <1>6, <1>7

LEMMA UpStep ==
  ASSUME NEW p \in Proc, NEW c \in Command, NEW f \in Looked, Context(p, c, f), Up(p)
  PROVE  EnvTypes' /\ Outcome(p, c, f) /\ Asked(p, c, f)
<1>0. Active(p) /\ Here(p) = "up" /\ c.kind \in {"start", "restart", "restore"} /\ EnvTypes /\ "up" \in StepsOf(c)
      /\ c = Cmd(p)
  BY HereOf, KindOf DEF Up, Context
<1>1. /\ site' = site /\ others' = others /\ doclibPath' = doclibPath /\ runs' = runs
      /\ doclib' = doclib /\ backup' = backup
  BY DEF Up, outside
<1>2. /\ store' \in [Storage -> Content]
      /\ postgres' \in {"none", "stopped", "live", "orphan"} /\ (site.volume => postgres' # "orphan")
      /\ liferay' \in {"none", "starting", "healthy", "exited"}
      /\ store'["liferay-data"] = store["liferay-data"]
      /\ Database \notin {"absent", "empty"} => Database' = Database
  <2>1. CASE PostgresUp("fresh") /\ LiferayUp
    BY <1>0, <2>1, PostgresUpMoves DEF LiferayUp, EnvTypes
  <2> QED BY <1>0, <2>1, PartlyUpMoves DEF Up
<1>3. EnvTypes'
  BY <1>0, <1>1, <1>2 DEF EnvTypes
<1>4. Asked(p, c, f)
  BY <1>2 DEF Asked, Precious
<1> SUFFICES Outcome(p, c, f)
  BY <1>3, <1>4
<1>5. ASSUME NEW n \in {"health", "done", "rollbackStop"}, StageAt(c, f, "up") PROVE StageAt(c, f, n)'
  <2>1. ASSUME RestoreAt("up") PROVE RestoreAt(n)'
    <3>1. Database = "main" /\ Database' = "main"
      BY <2>1, <1>2 DEF RestoreAt
    <3> QED BY <2>1, <3>1, <1>1, <1>2, <1>5 DEF RestoreAt
  <2>2. ASSUME StartAt("up") PROVE StartAt(n)'
    BY <2>2, <1>1, <1>5 DEF StartAt
  <2> QED BY <1>0, <1>1, <1>5, <2>1, <2>2 DEF StageAt, RestoreSite, SteadySite, May, Imports
<1>6. CASE Proceed(p)
  <2>1. \A n \in Nexts(c, "up") : n \in {"health", "done"}
    BY NextOf
  <2> QED BY <1>0, <1>5, <1>6, <2>1, Onward
<1>7. CASE Rollback(p)
  <2> DEFINE t == <<"rollbackStop", "rollbackDown">>
  <2>1. Path(c, t) /\ t # <<>> /\ Head(t) = "rollbackStop"
    BY <1>0, RollbackPath
  <2>2. Arrives(p, "rollbackStop")
    BY <1>7, <1>0, <2>1 DEF Rollback, Arrives
  <2>3. "rollbackStop" \in Steps
    BY DEF Steps
  <2> QED BY <1>0, <1>5, <2>2, <2>3 DEF Outcome
<1>8. CASE Finish(p, "failed")
  BY <1>8 DEF Outcome
<1>9. Proceed(p) \/ Rollback(p) \/ Finish(p, "failed")
  BY DEF Up
<1> QED BY <1>6, <1>7, <1>8, <1>9

LEMMA HealthStep ==
  ASSUME NEW p \in Proc, NEW c \in Command, NEW f \in Looked, Context(p, c, f), Health(p)
  PROVE  EnvTypes' /\ Outcome(p, c, f) /\ Asked(p, c, f)
<1>0. Active(p) /\ Here(p) = "health" /\ c.kind \in {"start", "restart", "restore", "recreate"} /\ EnvTypes
  BY HereOf, KindOf DEF Health, Context
<1>1. /\ site' = site /\ others' = others /\ doclibPath' = doclibPath /\ runs' = runs /\ postgres' = postgres
      /\ liferay' = liferay /\ store' = store /\ backup' = backup /\ doclib' = doclib
  BY DEF Health, outside, containers
<1>3. EnvTypes'
  BY <1>0, <1>1 DEF EnvTypes
<1>4. Asked(p, c, f)
  BY <1>1 DEF Asked, Database
<1> SUFFICES Outcome(p, c, f)
  BY <1>3, <1>4
<1>5. CASE Proceed(p)
  <2>1. \A n \in Nexts(c, "health") : n = "done"
    BY NextOf
  <2>2. Alone /\ StageAt(c, f, "health") => StageAt(c, f, "done")'
    <3>1. ASSUME RestoreAt("health") PROVE RestoreAt("done")'
      BY <3>1, <1>1 DEF RestoreAt, Database
    <3>2. ASSUME StartAt("health") PROVE StartAt("done")'
      BY <3>2, <1>1 DEF StartAt
    <3> QED BY <1>0, <1>1, <3>1, <3>2 DEF StageAt, RestoreSite, SteadySite, May, Imports
  <2> QED BY <1>0, <1>5, <2>1, <2>2, Onward
<1>6. CASE Finish(p, "failed")
  BY <1>6 DEF Outcome
<1>7. Proceed(p) \/ Finish(p, "failed")
  BY DEF Health
<1> QED BY <1>5, <1>6, <1>7

(* stop, restart and recreate *)
LEMMA StopStepOK ==
  ASSUME NEW p \in Proc, NEW c \in Command, NEW f \in Looked, Context(p, c, f), Stop(p)
  PROVE  EnvTypes' /\ Outcome(p, c, f) /\ Asked(p, c, f)
<1>0. EnvTypes
  BY DEF Context
<1>1. /\ site' = site /\ others' = others /\ doclibPath' = doclibPath /\ runs' = runs
      /\ doclib' = doclib /\ backup' = backup
  BY DEF Stop, outside
<1>2. AllStop \/ (store' = store /\ postgres' = postgres /\ (liferay' = liferay \/ LiferayStops))
  BY DEF Stop, containers
<1>3. /\ store' \in [Storage -> Content] /\ (Database \in Precious => Database' = Database)
      /\ postgres' \in {"none", "stopped", "live", "orphan"} /\ (site.volume => postgres' # "orphan")
      /\ liferay' \in {"none", "starting", "healthy", "exited"} /\ (liferay = "none" => liferay' = "none")
  BY <1>0, <1>2, StoreMoves, StoppedMoves DEF AllStop, EnvTypes, Database, Precious
<1>4. EnvTypes'
  BY <1>0, <1>1, <1>3 DEF EnvTypes
<1>5. Asked(p, c, f)
  BY <1>3 DEF Asked
<1> SUFFICES Outcome(p, c, f)
  BY <1>4, <1>5
<1>6. CASE At(p, "stop") /\ Proceed(p)
  <2>0. Active(p) /\ Here(p) = "stop" /\ c.kind \in {"stop", "restart"}
    BY <1>6, HereOf, KindOf
  <2>1. \A n \in Nexts(c, "stop") : n = "down"
    BY NextOf
  <2>2. StageAt(c, f, "stop") => StageAt(c, f, "down")'
    BY <2>0, <1>1, <1>3 DEF StageAt, StartAt, May, Imports
  <2> QED BY <1>6, <2>0, <2>1, <2>2, Onward
<1>7. CASE At(p, "rollbackStop") /\ Proceed(p)
  <2>0. Active(p) /\ Here(p) = "rollbackStop" /\ c.kind \in {"start", "restart", "restore"}
    BY <1>7, HereOf, KindOf
  <2>1. \A n \in Nexts(c, "rollbackStop") : n = "rollbackDown"
    BY NextOf
  <2>2. StageAt(c, f, "rollbackDown")'
    BY <2>0 DEF StageAt, StartAt, RestoreAt, Imports
  <2> QED BY <1>7, <2>0, <2>1, <2>2, Onward
<1>8. CASE Finish(p, "failed")
  BY <1>8 DEF Outcome
<1> QED BY <1>6, <1>7, <1>8 DEF Stop

LEMMA RemoveStep ==
  ASSUME NEW p \in Proc, NEW c \in Command, NEW f \in Looked, Context(p, c, f), RemoveContainers(p)
  PROVE  EnvTypes' /\ Outcome(p, c, f) /\ Asked(p, c, f)
<1>0. EnvTypes
  BY DEF Context
<1>1. /\ site' = site /\ others' = others /\ doclibPath' = doclibPath /\ runs' = runs
      /\ doclib' = doclib /\ backup' = backup
  BY DEF RemoveContainers, outside
<1>2. AllRemoved \/ (store' = store /\ postgres' = postgres /\ liferay' = liferay)
  BY DEF RemoveContainers, containers
<1>3. /\ store' \in [Storage -> Content] /\ (Database \in Precious => Database' = Database)
      /\ postgres' \in {"none", "stopped", "live", "orphan"} /\ (site.volume => postgres' # "orphan")
      /\ liferay' \in {"none", "starting", "healthy", "exited"}
  BY <1>0, <1>2, StoreMoves, StoppedMoves DEF EnvTypes, Database, Precious
<1>4. EnvTypes'
  BY <1>0, <1>1, <1>3 DEF EnvTypes
<1>5. Asked(p, c, f)
  BY <1>3 DEF Asked
<1> SUFFICES Outcome(p, c, f)
  BY <1>4, <1>5
<1>6. CASE At(p, "down") /\ AllRemoved /\ Proceed(p)
  <2>0. Active(p) /\ Here(p) = "down" /\ c.kind \in {"stop", "restart"}
    BY <1>6, HereOf, KindOf
  <2>1. \A n \in Nexts(c, "down") : n = "prepare" \/ (n = "done" /\ c.kind = "stop")
    BY NextOf
  <2>2. liferay' = "none"
    BY <1>6, <1>0, StoppedMoves
  <2>3. ASSUME NEW n, n = "prepare" \/ (n = "done" /\ c.kind = "stop") PROVE StageAt(c, f, n)'
    BY <2>0, <2>2, <2>3 DEF StageAt, StartAt, Imports
  <2> QED BY <1>6, <2>0, <2>1, <2>3, Onward
<1>7. CASE Finish(p, "failed")
  BY <1>7 DEF Outcome
<1> QED BY <1>6, <1>7 DEF RemoveContainers

LEMMA RecreateStep ==
  ASSUME NEW p \in Proc, NEW c \in Command, NEW f \in Looked, Context(p, c, f), StopLiferay(p) \/ UpLiferay(p)
  PROVE  EnvTypes' /\ Outcome(p, c, f) /\ Asked(p, c, f)
<1>0. EnvTypes /\ Active(p) /\ c.kind = "recreate"
  BY HereOf, KindOf DEF Context, StopLiferay, UpLiferay
<1>1. /\ site' = site /\ others' = others /\ doclibPath' = doclibPath /\ runs' = runs
      /\ doclib' = doclib /\ backup' = backup
  BY DEF StopLiferay, UpLiferay, outside
<1>3. /\ store' \in [Storage -> Content] /\ (Database \in Precious => Database' = Database)
      /\ postgres' \in {"none", "stopped", "live", "orphan"} /\ (site.volume => postgres' # "orphan")
      /\ liferay' \in {"none", "starting", "healthy", "exited"}
  <2>1. CASE StopLiferay(p)
    BY <1>0, <2>1, StoppedMoves DEF StopLiferay, EnvTypes, Database
  <2>2. CASE PostgresUp("fresh") /\ liferay' = "starting"
    BY <1>0, <2>2, PostgresUpMoves DEF Precious
  <2>3. CASE PartlyUp
    BY <1>0, <2>3, PartlyUpMoves DEF Precious
  <2> QED BY <2>1, <2>2, <2>3 DEF UpLiferay
<1>4. EnvTypes'
  BY <1>0, <1>1, <1>3 DEF EnvTypes
<1>5. Asked(p, c, f)
  BY <1>3 DEF Asked
<1> SUFFICES Outcome(p, c, f)
  BY <1>4, <1>5
<1>6. CASE Proceed(p)
  <2>1. ASSUME NEW n PROVE StageAt(c, f, n)'
    BY <1>0 DEF StageAt, Imports
  <2> QED BY <1>0, <1>6, <2>1, Onward
<1>7. CASE Finish(p, "failed")
  BY <1>7 DEF Outcome
<1> QED BY <1>6, <1>7 DEF StopLiferay, UpLiferay

(* restore *)
LEMMA RestoreStepOK ==
  ASSUME NEW p \in Proc, NEW c \in Command, NEW f \in Looked, Context(p, c, f), RestoreStep(p)
  PROVE  EnvTypes' /\ Outcome(p, c, f) /\ Asked(p, c, f)
<1>0. EnvTypes /\ Active(p) /\ c.kind = "restore" /\ c = Cmd(p) /\ OthersMay
      /\ Here(p) \in RestoreSteps
  BY HereOf, KindOf DEF Context, RestoreStep, RestoreSource, DownQuietly, DropPostgres, CopyPostgres, DropData,
                        CopyData, RestoreSteps
<1>1. /\ site' = site /\ others' = others /\ doclibPath' = doclibPath /\ runs' = runs
      /\ doclib' = doclib /\ backup' = backup
  BY DEF RestoreStep, RestoreSource, DownQuietly, DropPostgres, CopyPostgres, DropData, CopyData, outside
<1>2. Asked(p, c, f)
  BY <1>0 DEF Asked, Replaces, Cmd
<1>3. ASSUME NEW n, RestoreSite => RestoreAt(n)' PROVE StageAt(c, f, n)'
  BY <1>0, <1>1, <1>3 DEF StageAt, RestoreSite, SteadySite, May, Imports
<1>4. StageAt(c, f, Here(p)) /\ RestoreSite => RestoreAt(Here(p)) /\ ~MainUp
  BY <1>0 DEF StageAt, RestoreSite, MainUp, OthersMay
<1>5. CASE RestoreSource(p)
  <2>0. Here(p) = "source" /\ store' = store /\ postgres' = postgres /\ liferay' = liferay
    BY <1>5, HereOf DEF RestoreSource, containers
  <2>1. EnvTypes'
    BY <1>0, <1>1, <2>0 DEF EnvTypes
  <2>2. RestoreAt("downQuietly")'
    BY DEF RestoreAt
  <2>3. Proceed(p) => Outcome(p, c, f)
    BY <1>0, <1>3, <2>0, <2>2, NextOf, Onward
  <2>4. Finish(p, "refused") => Outcome(p, c, f)
    BY DEF Outcome
  <2> QED BY <1>2, <1>5, <2>1, <2>3, <2>4 DEF RestoreSource
<1>6. CASE DownQuietly(p)
  <2>0. Here(p) = "downQuietly" /\ Proceed(p)
    BY <1>6, HereOf DEF DownQuietly
  <2>1. AllRemoved \/ (May("docker") /\ store' = store /\ postgres' = postgres /\ liferay' = liferay)
    BY <1>6 DEF DownQuietly, containers
  <2>2. EnvTypes'
    BY <1>0, <1>1, <2>1, StoreMoves, StoppedMoves DEF EnvTypes
  <2>3. RestoreSite => RestoreAt("dropPostgres")'
    BY <1>0, <1>1, <2>1, StoppedMoves DEF RestoreAt, RestoreSite
  <2>4. Outcome(p, c, f)
    BY <1>0, <1>3, <2>0, <2>3, NextOf, Onward
  <2> QED BY <1>2, <2>2, <2>4
<1>7. CASE DropPostgres(p)
  <2>0. Here(p) = "dropPostgres" /\ liferay' = liferay
    BY <1>7, HereOf DEF DropPostgres
  <2>1. CASE site.volume /\ DropPostgresVolume /\ Proceed(p)
    <3>1. EnvTypes'
      BY <1>0, <1>1, <2>0, <2>1, StoreMoves DEF EnvTypes, DropPostgresVolume, Content
    <3>2. RestoreSite /\ RestoreAt("dropPostgres") => RestoreAt("copyPostgres")'
      <4> SUFFICES ASSUME RestoreSite, RestoreAt("dropPostgres") PROVE RestoreAt("copyPostgres")'
        OBVIOUS
      <4>1. postgres = "none" /\ postgres' = "none" /\ store' = WithDatabase("empty")
        BY <2>1 DEF RestoreAt, DropPostgresVolume
      <4>2. store'["postgres-data"] = "empty"
        BY <1>0, <4>1, StoreMoves DEF Content
      <4> QED BY <4>1, <4>2 DEF RestoreAt, Database
    <3>3. \A n \in Nexts(c, "dropPostgres") : n = "copyPostgres"
      BY NextOf
    <3>4. \A n \in Nexts(c, Here(p)) : StageAt(c, f, Here(p)) => StageAt(c, f, n)'
      BY <1>3, <1>4, <2>0, <3>2, <3>3
    <3>5. Outcome(p, c, f)
      BY <1>0, <2>1, <3>4, Onward
    <3> QED BY <1>2, <3>1, <3>5
  <2>2. CASE site.main /\ store' = store /\ postgres' = postgres /\ Then(p, Tail(Rest(p)))
    <3>1. EnvTypes'
      BY <1>0, <1>1, <2>0, <2>2 DEF EnvTypes
    <3>2. Path(c, proc[p].todo) /\ proc[p].todo # <<>> /\ "dropPostgres" \notin Ends(c)
          /\ Head(proc[p].todo) = "dropPostgres"
      BY <1>0, <2>0, Facts, EndOf DEF Context, Active, Here
    <3>3. Rest(p) # <<>> /\ Path(c, Rest(p)) /\ <<"dropPostgres", Head(Rest(p))>> \in Follows
      BY <3>2, PathTail DEF Rest
    <3>4. Head(Rest(p)) = "copyPostgres" /\ "copyPostgres" \notin Ends(c)
      BY <3>3, EndOf DEF Follows
    <3>5. Tail(Rest(p)) # <<>> /\ Path(c, Tail(Rest(p))) /\ <<"copyPostgres", Head(Tail(Rest(p)))>> \in Follows
      BY <3>3, <3>4, PathTail
    <3>6. Head(Tail(Rest(p))) = "dropData"
      BY <3>5 DEF Follows
    <3>7. Arrives(p, "dropData") /\ "dropData" \in Steps
      BY <1>0, <2>2, <3>5, <3>6 DEF Arrives, Steps
    <3>8. StageAt(c, f, "dropData")'
      BY <1>3, <2>2 DEF RestoreSite
    <3>9. Outcome(p, c, f)
      BY <3>7, <3>8 DEF Outcome
    <3> QED BY <1>2, <3>1, <3>9
  <2>3. CASE ~site.volume /\ DropPostgresDirectory /\ Proceed(p)
    <3>1. EnvTypes'
      BY <1>0, <1>1, <2>0, <2>3, StoreMoves DEF EnvTypes, DropPostgresDirectory, Orphaned, Content
    <3>2. RestoreAt("copyPostgres")'
      <4>1. postgres' # "live" /\ store'["postgres-data"] = "absent"
        BY <1>0, <2>3, StoreMoves DEF DropPostgresDirectory, Orphaned, Content
      <4> QED BY <4>1 DEF RestoreAt, Database
    <3>3. \A n \in Nexts(c, "dropPostgres") : n = "copyPostgres"
      BY NextOf
    <3>5. Outcome(p, c, f)
      BY <1>0, <1>3, <2>0, <2>3, <3>2, <3>3, Onward
    <3> QED BY <1>2, <3>1, <3>5
  <2>4. CASE CopyFails(p, "postgres-data") /\ postgres' = postgres
    <3>1. EnvTypes' /\ Finish(p, "failed")
      BY <1>0, <1>1, <2>0, <2>4, StoreMoves DEF EnvTypes, CopyFails, Content, WithDatabase
    <3> QED BY <1>2, <3>1 DEF Outcome
  <2> QED BY <1>7, <2>1, <2>2, <2>3, <2>4 DEF DropPostgres
<1>8. CASE CopyPostgres(p)
  <2>0. Here(p) = "copyPostgres" /\ liferay' = liferay /\ postgres' = postgres
    BY <1>8, HereOf DEF CopyPostgres, containers
  <2>f. FromMain \in Content /\ (~MainUp => FromMain = "main")
    BY DEF FromMain, Content
  <2>1. CASE ~site.main /\ store' = WithDatabase(Copied("postgres-data", FromMain)) /\ Proceed(p)
    <3>1. Copied("postgres-data", FromMain) \in Content
      BY <2>f DEF Copied, Content
    <3>2. store' \in [Storage -> Content] /\ store'["postgres-data"] = Copied("postgres-data", FromMain)
      BY <1>0, <2>1, <3>1, StoreMoves
    <3>3. EnvTypes'
      BY <1>0, <1>1, <2>0, <3>2 DEF EnvTypes
    <3>4. ~MainUp /\ RestoreAt("copyPostgres") => RestoreAt("dropData")'
      BY <2>0, <2>f, <3>2 DEF RestoreAt, Copied, Database
    <3>5. \A n \in Nexts(c, "copyPostgres") : n = "dropData"
      BY NextOf
    <3>6. \A n \in Nexts(c, Here(p)) : StageAt(c, f, Here(p)) => StageAt(c, f, n)'
      BY <1>3, <1>4, <2>0, <3>4, <3>5
    <3>7. Outcome(p, c, f)
      BY <1>0, <2>1, <3>6, Onward
    <3> QED BY <1>2, <3>3, <3>7
  <2>2. CASE site.main /\ store' = store /\ (Proceed(p) \/ Finish(p, "failed"))
    <3>1. EnvTypes'
      BY <1>0, <1>1, <2>0, <2>2 DEF EnvTypes
    <3>2. \A n : StageAt(c, f, n)'
      BY <1>3, <2>2 DEF RestoreSite
    <3>3. Proceed(p) => Outcome(p, c, f)
      BY <1>0, <3>2, Onward
    <3>4. Finish(p, "failed") => Outcome(p, c, f)
      BY DEF Outcome
    <3> QED BY <1>2, <2>2, <3>1, <3>3, <3>4
  <2>3. CASE CopyFails(p, "postgres-data")
    <3>1. EnvTypes' /\ Finish(p, "failed")
      BY <1>0, <1>1, <2>0, <2>3, StoreMoves DEF EnvTypes, CopyFails, Content, WithDatabase
    <3> QED BY <1>2, <3>1 DEF Outcome
  <2> QED BY <1>8, <2>1, <2>2, <2>3 DEF CopyPostgres
<1>9. CASE DropData(p) \/ CopyData(p)
  <2>0. liferay' = liferay /\ postgres' = postgres
    BY <1>9 DEF DropData, CopyData, containers
  <2>1. CASE CopyFails(p, "liferay-data")
    <3>1. EnvTypes' /\ Finish(p, "failed")
      BY <1>0, <1>1, <2>0, <2>1, StoreMoves DEF EnvTypes, CopyFails, Content
    <3> QED BY <1>2, <3>1 DEF Outcome
  <2>2. CASE At(p, "dropData") /\ store' = With("liferay-data", "absent") /\ Proceed(p)
    <3>1. Here(p) = "dropData"
      BY <2>2, HereOf
    <3>2. store' \in [Storage -> Content] /\ store'["liferay-data"] = "absent" /\ store'["postgres-data"] = Database
      BY <1>0, <2>2, StoreMoves DEF Content
    <3>3. EnvTypes'
      BY <1>0, <1>1, <2>0, <3>2 DEF EnvTypes
    <3>4. RestoreAt("dropData") => RestoreAt("copyData")'
      BY <2>0, <3>2 DEF RestoreAt, Database
    <3>5. \A n \in Nexts(c, "dropData") : n = "copyData"
      BY NextOf
    <3>6. \A n \in Nexts(c, Here(p)) : StageAt(c, f, Here(p)) => StageAt(c, f, n)'
      BY <1>3, <1>4, <3>1, <3>4, <3>5
    <3>7. Outcome(p, c, f)
      BY <1>0, <2>2, <3>6, Onward
    <3> QED BY <1>2, <3>3, <3>7
  <2>3. CASE /\ At(p, "copyData") /\ Proceed(p)
             /\ store' = With("liferay-data", Copied("liferay-data", IF site.base THEN "base" ELSE FromMain))
    <3> DEFINE x == Copied("liferay-data", IF site.base THEN "base" ELSE FromMain)
    <3>1. Here(p) = "copyData"
      BY <2>3, HereOf
    <3>f. x \in Content /\ (~MainUp /\ store["liferay-data"] = "absent" => x = IF site.base THEN "base" ELSE "main")
      BY DEF FromMain, Content, Copied
    <3>8. store' = With("liferay-data", x)
      BY <2>3
    <3> HIDE DEF x
    <3>2. store' \in [Storage -> Content] /\ store'["liferay-data"] = x /\ store'["postgres-data"] = Database
      BY <1>0, <3>f, <3>8, StoreMoves
    <3>3. EnvTypes'
      BY <1>0, <1>1, <2>0, <3>2 DEF EnvTypes
    <3>4. ASSUME NEW n \in {"prepare", "done"}, ~MainUp, RestoreAt("copyData") PROVE RestoreAt(n)'
      BY <1>1, <2>0, <3>2, <3>4, <3>f DEF RestoreAt, Database
    <3>5. \A n \in Nexts(c, "copyData") : n \in {"prepare", "done"}
      BY NextOf
    <3>6. \A n \in Nexts(c, Here(p)) : StageAt(c, f, Here(p)) => StageAt(c, f, n)'
      BY <1>3, <1>4, <3>1, <3>4, <3>5
    <3>7. Outcome(p, c, f)
      BY <1>0, <2>3, <3>6, Onward
    <3> QED BY <1>2, <3>3, <3>7
  <2> QED BY <1>9, <2>1, <2>2, <2>3 DEF DropData, CopyData
<1> QED BY <1>5, <1>6, <1>7, <1>8, <1>9 DEF RestoreStep

(* clean *)
LEMMA CleanStepOK ==
  ASSUME NEW p \in Proc, NEW c \in Command, NEW f \in Looked, Context(p, c, f), CleanStep(p)
  PROVE  EnvTypes' /\ Outcome(p, c, f) /\ Asked(p, c, f)
<1>0. EnvTypes /\ Active(p) /\ c.kind = "clean" /\ c = Cmd(p) /\ OthersMay
  BY HereOf, KindOf DEF Context, CleanStep, DownVolumes, CleanDoclib, CleanVolume, CleanData, CleanSteps
<1>1. site' = site /\ others' = others /\ doclibPath' = doclibPath /\ runs' = runs /\ backup' = backup
  BY DEF CleanStep, DownVolumes, CleanDoclib, CleanVolume, CleanData, outside
<1>2. Asked(p, c, f)
  BY <1>0 DEF Asked, Replaces, Cmd
<1>3. ASSUME NEW s, NEW n, CleanAt(s) => CleanAt(n)', StageAt(c, f, s) PROVE StageAt(c, f, n)'
  BY <1>0, <1>3 DEF StageAt, Imports
<1>4. Finish(p, "failed") => Outcome(p, c, f)
  BY DEF Outcome
<1>5. CASE DownVolumes(p)
  <2>0. Here(p) = "downVolumes" /\ doclib' = doclib
    BY <1>5, HereOf DEF DownVolumes
  <2>1. EnvTypes'
    BY <1>0, <1>1, <1>5, <2>0, StoreMoves, StoppedMoves DEF EnvTypes, DownVolumes, containers
  <2>2. CASE AllRemoved /\ Proceed(p)
    <3>1. CleanAt("cleanDoclib")'
      BY <1>0, <2>2, StoppedMoves DEF CleanAt
    <3>2. \A n \in Nexts(c, "downVolumes") : n = "cleanDoclib"
      BY NextOf
    <3> QED BY <1>0, <1>2, <1>3, <2>0, <2>1, <2>2, <3>1, <3>2, Onward
  <2> QED BY <1>2, <1>4, <1>5, <2>1, <2>2 DEF DownVolumes, CleanFailed
<1>6. CASE CleanDoclib(p)
  <2>0. Here(p) = "cleanDoclib" /\ store' = store /\ postgres' = postgres /\ liferay' = liferay
    BY <1>6, HereOf DEF CleanDoclib, containers
  <2>1. EnvTypes'
    BY <1>0, <1>1, <1>6, <2>0 DEF EnvTypes, CleanDoclib
  <2>2. CASE doclib' = "absent" /\ Proceed(p)
    <3>1. CleanAt("cleanDoclib") => CleanAt("cleanVolume")'
      BY <2>0, <2>2 DEF CleanAt
    <3>2. \A n \in Nexts(c, "cleanDoclib") : n = "cleanVolume"
      BY NextOf
    <3> QED BY <1>0, <1>2, <1>3, <2>0, <2>1, <2>2, <3>1, <3>2, Onward
  <2> QED BY <1>2, <1>4, <1>6, <2>1, <2>2 DEF CleanDoclib, CleanFailed
<1>7. CASE CleanVolume(p)
  <2>0. Here(p) = "cleanVolume" /\ doclib' = doclib /\ postgres' = postgres /\ liferay' = liferay
    BY <1>7, HereOf DEF CleanVolume, containers
  <2>1. store' = store \/ store' = WithDatabase("absent")
    BY <1>7 DEF CleanVolume
  <2>3. EnvTypes'
    BY <1>0, <1>1, <2>0, <2>1, StoreMoves DEF EnvTypes, Content
  <2>2. CASE (~site.volume \/ store' = WithDatabase("absent")) /\ Proceed(p)
    <3>1. site.volume => Database' = "absent"
      BY <1>0, <2>2, StoreMoves DEF Database, Content
    <3>2. CleanAt("cleanVolume") => CleanAt("cleanData")'
      BY <1>1, <2>0, <3>1 DEF CleanAt, May
    <3>3. \A n \in Nexts(c, "cleanVolume") : n = "cleanData"
      BY NextOf
    <3> QED BY <1>0, <1>2, <1>3, <2>0, <2>2, <2>3, <3>2, <3>3, Onward
  <2> QED BY <1>2, <1>4, <1>7, <2>2, <2>3 DEF CleanVolume, CleanFailed
<1>8. CASE CleanData(p)
  <2>0. Here(p) = "cleanData" /\ doclib' = doclib /\ liferay' = liferay
    BY <1>8, HereOf DEF CleanData
  <2>n. \A n \in Nexts(c, "cleanData") : n = "done"
    BY NextOf
  <2>1. CASE ~site.inside /\ UNCHANGED <<store, postgres>> /\ Proceed(p)
    <3>1. EnvTypes'
      BY <1>0, <1>1, <2>0, <2>1 DEF EnvTypes
    <3>2. CleanAt("cleanData") => CleanAt("done")'
      BY <1>1, <2>0, <2>1 DEF CleanAt, May, Database
    <3> QED BY <1>0, <1>2, <1>3, <2>0, <2>n, <2>1, <3>1, <3>2, Onward
  <2>2. CASE /\ store' = [s \in Storage |-> IF site.volume /\ s = "postgres-data" THEN store[s] ELSE "absent"]
             /\ postgres' = (IF site.volume THEN postgres ELSE Orphaned)
             /\ Proceed(p)
    <3>1. store' \in [Storage -> Content] /\ store'["liferay-data"] = "absent"
          /\ store'["postgres-data"] = IF site.volume THEN Database ELSE "absent"
      BY <1>0, <2>2 DEF EnvTypes, Storage, Content, Database
    <3>2. EnvTypes'
      BY <1>0, <1>1, <2>0, <2>2, <3>1 DEF EnvTypes, Orphaned
    <3>3. CleanAt("cleanData") => CleanAt("done")'
      BY <1>1, <2>0, <2>2, <3>1 DEF CleanAt, May, Database, Orphaned
    <3> QED BY <1>0, <1>2, <1>3, <2>0, <2>n, <2>2, <3>2, <3>3, Onward
  <2>3. CASE CopyFails(p, "liferay-data") /\ UNCHANGED postgres
    <3>1. EnvTypes' /\ Finish(p, "failed")
      BY <1>0, <1>1, <2>0, <2>3, StoreMoves DEF EnvTypes, CopyFails, Content
    <3> QED BY <1>2, <1>4, <3>1
  <2> QED BY <1>8, <2>1, <2>2, <2>3 DEF CleanData
<1> QED BY <1>5, <1>6, <1>7, <1>8 DEF CleanStep

(* import and sync *)
LEMMA CheckStep ==
  ASSUME NEW p \in Proc, NEW c \in Command, NEW f \in Looked, Context(p, c, f), CheckImport(p)
  PROVE  EnvTypes' /\ Outcome(p, c, f) /\ Asked(p, c, f)
<1>0. EnvTypes /\ Active(p) /\ c.kind \in Imports /\ c = Cmd(p) /\ Here(p) = "check" /\ CommandTypes /\ Paths
  BY HereOf, KindOf DEF Context, CheckImport, ImportSteps
<1>1. /\ site' = site /\ others' = others /\ doclibPath' = doclibPath /\ runs' = runs /\ backup' = backup
      /\ postgres' = postgres /\ liferay' = liferay /\ doclib' = doclib /\ store' = LaidOut(store)
  BY DEF CheckImport, outside, containers
<1>2. store' \in [Storage -> Content] /\ (Database # "absent" => Database' = Database)
  BY <1>0, <1>1, Laying DEF EnvTypes, Database, Storage
<1>3. EnvTypes'
  BY <1>0, <1>1, <1>2 DEF EnvTypes
<1>4. Asked(p, c, f)
  BY <1>2 DEF Asked, Precious
<1> SUFFICES Outcome(p, c, f)
  BY <1>3, <1>4
<1>5. ASSUME NEW n, ImportAt(c, f, "check") => ImportAt(c, f, n)', StageAt(c, f, "check") PROVE StageAt(c, f, n)'
  BY <1>0, <1>5 DEF StageAt, Imports
<1>6. CASE ~HasContents(store') /\ Proceed(p)
  <2>1. Database' \in {"absent", "empty"}
    BY <1>6 DEF HasContents, Database
  <2>2. ImportAt(c, f, "check") => ImportAt(c, f, "upPostgres")'
    BY <1>1, <2>1 DEF ImportAt, Raw
  <2>3. \A n \in Nexts(c, "check") : n = "upPostgres"
    BY NextOf
  <2> QED BY <1>0, <1>5, <1>6, <2>2, <2>3, Onward
<1>7. CASE proc[p].cmd.force /\ Then(p, Reset \o Rest(p))
  <2>1. Path(c, proc[p].todo) /\ proc[p].todo # <<>> /\ "check" \notin Ends(c) /\ Head(proc[p].todo) = "check"
    BY <1>0, Facts, EndOf DEF Active, Here
  <2>2. Rest(p) # <<>> /\ Path(c, Rest(p)) /\ <<"check", Head(Rest(p))>> \in Follows
    BY <2>1, PathTail DEF Rest
  <2>3. Head(Rest(p)) = "upPostgres"
    BY <2>2 DEF Follows
  <2> DEFINE t == Reset \o Rest(p)
  <2>9. PICK n \in {"rmPostgres", "wipe"} : n = IF site.volume THEN "rmPostgres" ELSE "wipe"
    OBVIOUS
  <2>4. Path(c, t) /\ t # <<>> /\ Head(t) = n
    BY <1>0, <1>7, <2>2, <2>3, <2>9, ResetPath DEF Cmd
  <2>5. Then(p, t)
    BY <1>7
  <2>6. n \in Steps /\ n # "done" /\ n \in {"rmPostgres", "wipe"}
    BY <2>9 DEF Steps
  <2> HIDE DEF t
  <2>7. Arrives(p, n)
    BY <1>0, <2>4, <2>5, <2>6 DEF Arrives
  <2>8. ImportAt(c, f, "check") => ImportAt(c, f, n)'
    BY <1>1, <2>6 DEF ImportAt
  <2> QED BY <1>0, <1>5, <2>6, <2>7, <2>8 DEF Outcome
<1>8. CASE Finish(p, "failed") \/ Finish(p, "refused")
  BY <1>8 DEF Outcome
<1> QED BY <1>6, <1>7, <1>8 DEF CheckImport

(* --force: what an import does before it may fill a database again. *)
LEMMA ResetStep ==
  ASSUME NEW p \in Proc, NEW c \in Command, NEW f \in Looked, Context(p, c, f),
         Wipe(p) \/ RemovePostgres(p) \/ RemoveVolume(p)
  PROVE  EnvTypes' /\ Outcome(p, c, f) /\ Asked(p, c, f)
<1>0. EnvTypes /\ Active(p) /\ c.kind \in Imports /\ c.force /\ c = Cmd(p)
  BY HereOf, KindOf DEF Context, Wipe, RemovePostgres, RemoveVolume
<1>1. /\ site' = site /\ others' = others /\ doclibPath' = doclibPath /\ runs' = runs /\ backup' = backup
      /\ liferay' = liferay /\ doclib' = doclib
  BY DEF Wipe, RemovePostgres, RemoveVolume, outside, containers
<1>2. Asked(p, c, f)
  BY <1>0 DEF Asked, Replaces, Cmd, Imports
<1>3. ASSUME NEW s, NEW n, ImportAt(c, f, s) => ImportAt(c, f, n)', StageAt(c, f, s) PROVE StageAt(c, f, n)'
  BY <1>0, <1>3 DEF StageAt, Imports
<1>4. Finish(p, "failed") => Outcome(p, c, f)
  BY DEF Outcome
<1>5. CASE Wipe(p)
  <2>0. Here(p) = "wipe" /\ ~site.volume
    BY <1>5, HereOf, KindOf DEF Wipe
  <2>1. CASE store' = WithDatabase("empty") /\ postgres' = Orphaned /\ Proceed(p)
    <3>1. store' \in [Storage -> Content] /\ store'["postgres-data"] = "empty"
      BY <1>0, <2>1, StoreMoves DEF Content
    <3>2. EnvTypes'
      BY <1>0, <1>1, <2>0, <2>1, <3>1 DEF EnvTypes, Orphaned
    <3>3. ImportAt(c, f, "wipe") => ImportAt(c, f, "upPostgres")'
      BY <1>0, <1>1, <2>1, <3>1 DEF ImportAt, Orphaned, Database, Raw
    <3>4. \A n \in Nexts(c, "wipe") : n = "upPostgres"
      BY NextOf
    <3> QED BY <1>0, <1>2, <1>3, <2>0, <2>1, <3>2, <3>3, <3>4, Onward
  <2>2. CASE CopyFails(p, "postgres-data") /\ UNCHANGED postgres
    <3>1. EnvTypes' /\ Finish(p, "failed")
      BY <1>0, <1>1, <2>2, StoreMoves DEF EnvTypes, CopyFails, Content, WithDatabase
    <3> QED BY <1>2, <1>4, <3>1
  <2> QED BY <1>5, <2>1, <2>2 DEF Wipe
<1>6. CASE RemovePostgres(p)
  <2>0. Here(p) = "rmPostgres" /\ Proceed(p)
    BY <1>6, HereOf DEF RemovePostgres
  <2>1. (postgres' = "none" /\ store' = Interrupted) \/ (store' = store /\ postgres' = postgres)
    BY <1>6 DEF RemovePostgres
  <2>2. EnvTypes'
    BY <1>0, <1>1, <2>1, StoreMoves DEF EnvTypes
  <2>3. ImportAt(c, f, "rmPostgres") => ImportAt(c, f, "rmVolume")'
    BY <1>1, <2>1 DEF ImportAt
  <2>4. \A n \in Nexts(c, "rmPostgres") : n = "rmVolume"
    BY NextOf
  <2> QED BY <1>0, <1>2, <1>3, <2>0, <2>2, <2>3, <2>4, Onward
<1>7. CASE RemoveVolume(p)
  <2>0. Here(p) = "rmVolume" /\ postgres' = postgres
    BY <1>7, HereOf DEF RemoveVolume, containers
  <2>1. CASE store' = WithDatabase("absent") /\ Proceed(p)
    <3>1. store' \in [Storage -> Content] /\ store'["postgres-data"] = "absent"
      BY <1>0, <2>1, StoreMoves DEF Content
    <3>2. EnvTypes'
      BY <1>0, <1>1, <2>0, <3>1 DEF EnvTypes
    <3>3. ImportAt(c, f, "rmVolume") => ImportAt(c, f, "upPostgres")'
      BY <1>0, <1>1, <2>0, <3>1 DEF ImportAt, Database, Raw
    <3>4. \A n \in Nexts(c, "rmVolume") : n = "upPostgres"
      BY NextOf
    <3> QED BY <1>0, <1>2, <1>3, <2>0, <2>1, <3>2, <3>3, <3>4, Onward
  <2>2. CASE UNCHANGED store /\ Finish(p, "failed")
    <3>1. EnvTypes'
      BY <1>0, <1>1, <2>0, <2>2 DEF EnvTypes
    <3> QED BY <1>2, <1>4, <2>2, <3>1
  <2> QED BY <1>7, <2>1, <2>2 DEF RemoveVolume
<1> QED BY <1>5, <1>6, <1>7

LEMMA ImportStepOK ==
  ASSUME NEW p \in Proc, NEW c \in Command, NEW f \in Looked, Context(p, c, f),
         \/ Download(p) \/ UpPostgres(p) \/ PostgresReady(p) \/ Stream(p) \/ Imported(p) \/ PostImport(p)
  PROVE  EnvTypes' /\ Outcome(p, c, f) /\ Asked(p, c, f)
<1>0. EnvTypes /\ Active(p) /\ c.kind \in Imports /\ c = Cmd(p) /\ f = proc[p].found
  BY HereOf, KindOf DEF Context, ImportSteps, Download, UpPostgres, PostgresReady, Stream, Imported, PostImport
<1>1. /\ site' = site /\ others' = others /\ doclibPath' = doclibPath /\ runs' = runs
      /\ liferay' = liferay /\ doclib' = doclib
  BY DEF Download, UpPostgres, PostgresReady, Stream, Imported, PostImport, outside, containers
<1>3. ASSUME NEW s, NEW n, ImportAt(c, f, s) => ImportAt(c, f, n)', StageAt(c, f, s) PROVE StageAt(c, f, n)'
  BY <1>0, <1>3 DEF StageAt, Imports
<1>4. Finish(p, "failed") => Outcome(p, c, f)
  BY DEF Outcome
<1>5. CASE Download(p)
  <2>0. Here(p) = "download" /\ store' = store /\ postgres' = postgres
    BY <1>5, HereOf DEF Download, containers
  <2>1. EnvTypes'
    BY <1>0, <1>1, <1>5, <2>0 DEF EnvTypes, Download
  <2>2. Asked(p, c, f)
    BY <2>0 DEF Asked, Database
  <2>3. ImportAt(c, f, "download") => ImportAt(c, f, "check")'
    BY <1>1, <2>0 DEF ImportAt
  <2>4. \A n \in Nexts(c, "download") : n = "check"
    BY NextOf
  <2>5. Proceed(p) => Outcome(p, c, f)
    BY <1>0, <1>3, <2>0, <2>3, <2>4, Onward
  <2> QED BY <1>4, <1>5, <2>1, <2>2, <2>5 DEF Download
<1>6. CASE UpPostgres(p)
  <2>0. Here(p) = "upPostgres" /\ backup' = backup
    BY <1>6, HereOf DEF UpPostgres
  <2>1. PostgresUp("init") \/ (store' = store /\ postgres' = postgres)
    BY <1>6 DEF UpPostgres
  <2>2. EnvTypes' /\ (Database \in Precious => Database' = Database)
    BY <1>0, <1>1, <2>0, <2>1, PostgresUpMoves DEF EnvTypes, Precious, Database
  <2>3. Asked(p, c, f)
    BY <2>2 DEF Asked
  <2>4. CASE PostgresUp("init") /\ Proceed(p)
    <3>1. ImportAt(c, f, "upPostgres") => ImportAt(c, f, "ready")'
      <4>1. /\ Database \notin {"absent", "empty"} => Database' = Database
            /\ postgres \notin {"live", "orphan"} => postgres' = "live"
                 /\ Database' = (IF Database \in {"absent", "empty"} THEN "init" ELSE Database)
            /\ postgres \in {"live", "orphan"} => postgres' = postgres /\ store' = store
        BY <1>0, <2>4, PostgresUpMoves
      <4>2. Database \in Raw => Database' \in Raw
        BY <1>0, <4>1 DEF Raw, Database, EnvTypes
      <4>3. postgres \in {"none", "stopped"} /\ Database \in {"absent", "empty"} =>
              postgres' = "live" /\ Database' = "init"
        BY <4>1
      <4> QED BY <1>1, <4>2, <4>3 DEF ImportAt
    <3>2. \A n \in Nexts(c, "upPostgres") : n = "ready"
      BY NextOf
    <3> QED BY <1>0, <1>3, <2>0, <2>2, <2>3, <2>4, <3>1, <3>2, Onward
  <2> QED BY <1>4, <1>6, <2>2, <2>3, <2>4 DEF UpPostgres
<1>7. CASE PostgresReady(p) \/ PostImport(p)
  <2>1. store' = store /\ postgres' = postgres /\ backup' = backup
    BY <1>7 DEF PostgresReady, PostImport, containers
  <2>2. EnvTypes'
    BY <1>0, <1>1, <2>1 DEF EnvTypes
  <2>3. Asked(p, c, f)
    BY <2>1 DEF Asked, Database
  <2>4. CASE Proceed(p) /\ At(p, "ready")
    <3>1. ImportAt(c, f, "ready") => ImportAt(c, f, "stream")'
      BY <1>1, <2>1 DEF ImportAt, Database
    <3>2. Here(p) = "ready" /\ \A n \in Nexts(c, "ready") : n = "stream"
      BY <2>4, NextOf, HereOf
    <3> QED BY <1>0, <1>3, <2>2, <2>3, <2>4, <3>1, <3>2, Onward
  <2>5. CASE Proceed(p) /\ At(p, "postImport")
    <3>1. ImportAt(c, f, "postImport") => ImportAt(c, f, "done")'
      BY <1>1, <2>1 DEF ImportAt, Database
    <3>2. Here(p) = "postImport" /\ \A n \in Nexts(c, "postImport") : n = "done"
      BY <2>5, NextOf, HereOf
    <3> QED BY <1>0, <1>3, <2>2, <2>3, <2>5, <3>1, <3>2, Onward
  <2> QED BY <1>4, <1>7, <2>2, <2>3, <2>4, <2>5 DEF PostgresReady, PostImport
<1>8. CASE Stream(p)
  <2>0. Here(p) = "stream" /\ postgres' = postgres /\ backup' = backup
    BY <1>8, HereOf DEF Stream, containers
  <2>1. \/ Database \in {"fresh", "init"} /\ postgres = "live" /\ store' = WithDatabase("part")
        \/ Database \notin {"fresh", "init"} /\ postgres = "live" /\ store' = WithDatabase("torn")
        \/ postgres # "live" /\ store' = store
    BY <1>8 DEF Stream
  <2>2. store' \in [Storage -> Content]
        /\ (Database \in {"fresh", "init"} /\ postgres = "live" => Database' = "part")
    BY <1>0, <2>1, StoreMoves DEF EnvTypes, Content, Database
  <2>3. EnvTypes'
    BY <1>0, <1>1, <2>0, <2>2 DEF EnvTypes
  <2>4. Asked(p, c, f)
    <3> SUFFICES ASSUME Alone => StageAt(c, f, "stream"), Database \in Precious PROVE Replaces(proc[p])
      BY <2>0 DEF Asked
    <3>1. Alone /\ ~c.force /\ ~PortalUp(f.liferay) => Database \in Raw
      BY <1>0 DEF StageAt, ImportAt
    <3>2. Database \notin Raw
      BY DEF Precious, Raw
    <3> QED BY <1>0, <3>1, <3>2 DEF Replaces, Cmd, Imports
  <2>5. ImportAt(c, f, "stream") => ImportAt(c, f, "imported")'
    BY <1>1, <2>0, <2>2 DEF ImportAt
  <2>6. \A n \in Nexts(c, "stream") : n = "imported"
    BY NextOf
  <2>7. Proceed(p) => Outcome(p, c, f)
    BY <1>0, <1>3, <2>0, <2>5, <2>6, Onward
  <2>8. Proceed(p) \/ Finish(p, "failed")
    BY <1>8 DEF Stream
  <2> QED BY <1>4, <2>3, <2>4, <2>7, <2>8
<1>9. CASE Imported(p)
  <2>0. Here(p) = "imported" /\ postgres' = postgres /\ backup' = backup
    BY <1>9, HereOf DEF Imported, containers
  <2>1. store' = store \/ (Database = "part" /\ store' = WithDatabase("backup"))
    BY <1>9 DEF Imported
  <2>2. EnvTypes'
    BY <1>0, <1>1, <2>0, <2>1, StoreMoves DEF EnvTypes, Content
  <2>3. Asked(p, c, f)
    BY <2>1 DEF Asked, Database, Precious
  <2>4. CASE /\ Proceed(p)
             /\ store' = (IF postgres = "live" /\ Database = "part" /\ backup = "whole"
                          THEN WithDatabase("backup") ELSE store)
    <3>1. postgres = "live" /\ Database = "part" /\ backup = "whole" => Database' = "backup"
      BY <1>0, <2>4, StoreMoves DEF Database, Content
    <3>2. ImportAt(c, f, "imported") => ImportAt(c, f, "postImport")'
      BY <1>1, <2>0, <3>1 DEF ImportAt
    <3>3. \A n \in Nexts(c, "imported") : n = "postImport"
      BY NextOf
    <3> QED BY <1>0, <1>3, <2>0, <2>2, <2>3, <2>4, <3>2, <3>3, Onward
  <2> QED BY <1>4, <1>9, <2>2, <2>3, <2>4 DEF Imported
<1> QED BY <1>5, <1>6, <1>7, <1>8, <1>9

LEMMA StepMoves ==
  ASSUME NEW p \in Proc, NEW c \in Command, NEW f \in Looked, Context(p, c, f), Step(p)
  PROVE  /\ EnvTypes' /\ Outcome(p, c, f) /\ Asked(p, c, f)
         /\ Active(p) /\ site' = site /\ others' = others
<1>1. CASE StartStep(p)
  <2>1. Active(p) /\ site' = site /\ others' = others
    BY <1>1 DEF StartStep, Prepare, EnsureDoclibVolume, Up, Health, At, outside
  <2> QED BY <1>1, <2>1, PrepareStep, DoclibStep, UpStep, HealthStep DEF StartStep
<1>2. CASE StopStep(p)
  <2>1. Active(p) /\ site' = site /\ others' = others
    BY <1>2 DEF StopStep, Stop, RemoveContainers, StopLiferay, UpLiferay, At, outside
  <2> QED BY <1>2, <2>1, StopStepOK, RemoveStep, RecreateStep DEF StopStep
<1>3. CASE RestoreStep(p)
  <2>1. Active(p) /\ site' = site /\ others' = others
    BY <1>3 DEF RestoreStep, RestoreSource, DownQuietly, DropPostgres, CopyPostgres, DropData, CopyData, At, outside
  <2> QED BY <1>3, <2>1, RestoreStepOK
<1>4. CASE CleanStep(p)
  <2>1. Active(p) /\ site' = site /\ others' = others
    BY <1>4 DEF CleanStep, DownVolumes, CleanDoclib, CleanVolume, CleanData, At, outside
  <2> QED BY <1>4, <2>1, CleanStepOK
<1>5. CASE ImportStep(p)
  <2>1. Active(p) /\ site' = site /\ others' = others
    BY <1>5 DEF ImportStep, Download, CheckImport, Wipe, RemovePostgres, RemoveVolume, UpPostgres, PostgresReady,
                Stream, Imported, PostImport, At, outside
  <2> QED BY <1>5, <2>1, CheckStep, ResetStep, ImportStepOK DEF ImportStep
<1> QED BY <1>1, <1>2, <1>3, <1>4, <1>5 DEF Step

-----------------------------------------------------------------------------
(* The invariant holds at first and is kept by every step. *)
LEMMA TypeHalvesNext == TypeOK' <=> EnvTypes' /\ CommandTypes'
BY TypeHalves, PTL

LEMMA InitInv == Init => EnvInv
<1> SUFFICES ASSUME Init PROVE EnvInv
  OBVIOUS
<1>1. EnvTypes
  <2>1. MaxRuns[site] \in Nat
    BY ConstantsAssumption DEF Init
  <2>2. runs \in 0..MaxRuns[site]
    BY <2>1 DEF Init
  <2>3. store \in [Storage -> Content]
    BY DEF Init, Content
  <2>4. others \subseteq {"main", "worktree"} /\ doclib \in {"absent", "default"}
    BY DEF Init
  <2> QED BY <2>2, <2>3, <2>4 DEF Init, EnvTypes
<1>2. \A p \in Proc : proc[p] = Idle
  BY DEF Init
<1>3. CommandTypes
  <2>1. None \in [cmd : Command, outcome : Outcomes, at : Steps \cup {"none"}, found : Looked]
    BY IdleType DEF None, Outcomes
  <2> QED BY <2>1, IdleType DEF Init, CommandTypes
<1>4. Paths /\ \A p \in Proc : ~Active(p)
  BY <1>2, IdleType DEF Paths, Active
<1>5. ended.outcome = "none"
  BY DEF Init, None
<1>6. AloneInv
  BY <1>4, <1>5 DEF AloneInv
<1>7. OthersMay
  BY DEF Init, OthersMay, May
<1> QED BY <1>1, <1>3, <1>4, <1>6, <1>7, TypeHalves DEF EnvInv

(* What happens around the commands keeps their stages. *)
LEMMA AroundKeepsInv ==
  ASSUME EnvInv, proc' = proc, ended' = ended, site' = site, EnvTypes', OthersMay',
         \A c \in Command, f \in Looked : \A s : StageAt(c, f, s) => StageAt(c, f, s)'
  PROVE  EnvInv'
<1>1. EnvTypes /\ CommandTypes /\ Paths /\ (Alone => AloneInv) /\ (Alone' <=> Alone)
  BY TypeHalves DEF EnvInv, Alone, May
<1>2. CommandTypes' /\ Paths' /\ \A q : Active(q)' <=> Active(q)
  BY <1>1, SamePath DEF CommandTypes, Paths, Active
<1>3. ASSUME Alone PROVE AloneInv'
  <2>1. AloneInv
    BY <1>1, <1>3
  <2>2. ended.cmd \in Command /\ ended.found \in Looked
    BY <1>1 DEF CommandTypes
  <2>3. ended.outcome = "ok" => StageAt(ended.cmd, ended.found, "done")'
    <3>1. PICK c \in Command, f \in Looked : c = ended.cmd /\ f = ended.found
      BY <2>2
    <3>2. ended.outcome = "ok" => StageAt(c, f, "done")'
      BY <2>1, <3>1 DEF AloneInv
    <3>3. c = ended'.cmd /\ f = ended'.found
      BY <3>1
    <3> QED BY <3>2, <3>3
  <2>4. ASSUME NEW p \in Proc, Active(p) PROVE StageAt(proc[p].cmd, proc[p].found, Head(proc[p].todo))'
    <3>1. Cmd(p) \in Command /\ proc[p].found \in Looked
      BY <1>1, Facts
    <3>2. PICK c \in Command, f \in Looked : c = proc[p].cmd /\ f = proc[p].found
      BY <3>1 DEF Cmd
    <3>3. PICK s : s = Head(proc[p].todo)
      OBVIOUS
    <3>4. StageAt(c, f, s)'
      BY <2>1, <2>4, <3>2, <3>3 DEF AloneInv
    <3>5. c = proc'[p].cmd /\ f = proc'[p].found /\ s = Head(proc'[p].todo)
      BY <3>2, <3>3
    <3> QED BY <3>4, <3>5
  <2> QED BY <1>2, <2>1, <2>3, <2>4 DEF AloneInv
<1> QED BY <1>1, <1>2, <1>3, TypeHalvesNext DEF EnvInv, May

(* The portal boots, the server has created its cluster, and main starts and stops. *)
LEMMA BootKeepsInv == EnvInv /\ Boot => EnvInv'
<1> SUFFICES ASSUME EnvInv, Boot PROVE EnvInv'
  OBVIOUS
<1>0. EnvTypes /\ OthersMay
  BY TypeHalves DEF EnvInv
<1>1. /\ site' = site /\ others' = others /\ doclibPath' = doclibPath /\ runs' = runs /\ backup' = backup
      /\ doclib' = doclib /\ postgres' = postgres /\ proc' = proc /\ ended' = ended
      /\ liferay = "starting" /\ liferay' = "healthy" /\ postgres = "live" /\ Database # "init"
  BY DEF Boot, outside
<1>2. /\ store' \in [Storage -> Content]
      /\ \A x \in Storage : store[x] \notin {"absent", "empty", "fresh"} => store'[x] = store[x]
  BY <1>0 DEF Boot, EnvTypes, Content
<1>3. EnvTypes'
  BY <1>0, <1>1, <1>2 DEF EnvTypes
<1>4. Database \notin {"absent", "empty", "fresh"} => Database' = Database
  BY <1>2 DEF Database, Storage
<1>5. store["liferay-data"] \notin {"absent", "empty", "fresh"} => store'["liferay-data"] = store["liferay-data"]
  BY <1>2 DEF Storage
<1>6. ASSUME NEW c \in Command, NEW f \in Looked, NEW s, StageAt(c, f, s) PROVE StageAt(c, f, s)'
  <2>1. ASSUME RestoreAt(s) PROVE RestoreAt(s)'
    BY <1>1, <1>4, <1>5, <2>1 DEF RestoreAt
  <2>2. ASSUME ImportAt(c, f, s) PROVE ImportAt(c, f, s)'
    <3>1. ~PortalUp(f.liferay) => s = "done"
      BY <1>1, <2>2 DEF ImportAt, PortalUp
    <3> QED BY <1>1, <1>4, <2>2, <3>1 DEF ImportAt, Quiet
  <2>3. ASSUME CleanAt(s) PROVE CleanAt(s)'
    BY <1>1, <2>3 DEF CleanAt
  <2>4. ASSUME StartAt(s) PROVE StartAt(s)'
    BY <1>1, <2>4 DEF StartAt
  <2> QED BY <1>1, <1>6, <2>1, <2>2, <2>3, <2>4 DEF StageAt, RestoreSite, SteadySite, May
<1> QED BY <1>0, <1>1, <1>3, <1>6, OthersStay, AroundKeepsInv

LEMMA InitialisedKeepsInv == EnvInv /\ PostgresInitialised => EnvInv'
<1> SUFFICES ASSUME EnvInv, PostgresInitialised PROVE EnvInv'
  OBVIOUS
<1>0. EnvTypes /\ OthersMay
  BY TypeHalves DEF EnvInv
<1>1. /\ site' = site /\ others' = others /\ doclibPath' = doclibPath /\ runs' = runs /\ backup' = backup
      /\ doclib' = doclib /\ postgres' = postgres /\ liferay' = liferay /\ proc' = proc /\ ended' = ended
      /\ postgres = "live" /\ Database = "init"
  BY DEF PostgresInitialised, outside, containers
<1>2. store' \in [Storage -> Content] /\ Database' = "fresh" /\ store'["liferay-data"] = store["liferay-data"]
  BY <1>0, StoreMoves DEF PostgresInitialised, Content, Database
<1>3. EnvTypes'
  BY <1>0, <1>1, <1>2 DEF EnvTypes
<1>6. ASSUME NEW c \in Command, NEW f \in Looked, NEW s, StageAt(c, f, s) PROVE StageAt(c, f, s)'
  <2>1. ASSUME RestoreAt(s) PROVE RestoreAt(s)'
    BY <1>1, <1>2, <2>1 DEF RestoreAt
  <2>2. ASSUME ImportAt(c, f, s) PROVE ImportAt(c, f, s)'
    BY <1>1, <1>2, <2>2 DEF ImportAt, Raw
  <2>3. ASSUME CleanAt(s) PROVE CleanAt(s)'
    BY <1>1, <2>3 DEF CleanAt
  <2>4. ASSUME StartAt(s) PROVE StartAt(s)'
    BY <1>1, <2>4 DEF StartAt
  <2> QED BY <1>1, <1>6, <2>1, <2>2, <2>3, <2>4 DEF StageAt, RestoreSite, SteadySite, May
<1> QED BY <1>0, <1>1, <1>3, <1>6, OthersStay, AroundKeepsInv

LEMMA OtherKeepsInv ==
  EnvInv /\ (\E o \in {"main", "worktree"} : OtherStarts(o) \/ OtherStops(o)) => EnvInv'
<1> SUFFICES ASSUME EnvInv, NEW o \in {"main", "worktree"}, OtherStarts(o) \/ OtherStops(o) PROVE EnvInv'
  OBVIOUS
<1>0. EnvTypes /\ OthersMay
  BY TypeHalves DEF EnvInv
<1>1. /\ site' = site /\ doclibPath' = doclibPath /\ runs' = runs /\ backup' = backup /\ store' = store
      /\ postgres' = postgres /\ liferay' = liferay /\ proc' = proc /\ ended' = ended
  BY DEF OtherStarts, OtherStops, containers, library
<1>5. May(o)
  BY <1>0 DEF OtherStarts, OtherStops, OthersMay
<1>6. others' \subseteq {"main", "worktree"} /\ others' \subseteq others \cup {o}
  BY <1>0 DEF OtherStarts, OtherStops, EnvTypes
<1>7. doclib' \in {"absent", "default", "own"} /\ (doclib # "absent" => doclib' # "absent")
  BY <1>0 DEF OtherStarts, OtherStops, library, EnvTypes
<1>2. EnvTypes'
  BY <1>0, <1>1, <1>6, <1>7 DEF EnvTypes
<1>8. OthersMay'
  BY <1>0, <1>1, <1>5, <1>6 DEF OthersMay, May
<1>3. ASSUME NEW c \in Command, NEW f \in Looked, NEW s, StageAt(c, f, s) PROVE StageAt(c, f, s)'
  <2>1. ~SteadySite' /\ ~(~May("main") /\ ~May("worktree"))'
    BY <1>1, <1>5 DEF May, SteadySite
  <2>4. ASSUME RestoreAt(s) PROVE RestoreAt(s)'
    BY <1>1, <2>4 DEF RestoreAt, Database
  <2>2. ASSUME ImportAt(c, f, s) PROVE ImportAt(c, f, s)'
    BY <1>1, <2>2 DEF ImportAt, Database
  <2>3. ASSUME CleanAt(s) PROVE CleanAt(s)'
    BY <1>1, <2>1, <2>3 DEF CleanAt, Database
  <2> QED BY <1>1, <1>3, <1>7, <2>1, <2>2, <2>3, <2>4 DEF StageAt, RestoreSite, May
<1> QED BY <1>1, <1>2, <1>3, <1>8, AroundKeepsInv

LEMMA StutterKeepsInv == EnvInv /\ UNCHANGED vars => EnvInv'
<1> SUFFICES ASSUME EnvInv, UNCHANGED vars PROVE EnvInv'
  OBVIOUS
<1>0. EnvTypes /\ OthersMay
  BY TypeHalves DEF EnvInv
<1>1. /\ site' = site /\ others' = others /\ doclibPath' = doclibPath /\ runs' = runs /\ backup' = backup
      /\ store' = store /\ doclib' = doclib /\ postgres' = postgres /\ liferay' = liferay /\ proc' = proc
      /\ ended' = ended
  BY DEF vars, containers, library
<1>2. EnvTypes'
  BY <1>0, <1>1 DEF EnvTypes
<1>3. ASSUME NEW c \in Command, NEW f \in Looked, NEW s, StageAt(c, f, s) PROVE StageAt(c, f, s)'
  BY <1>1, <1>3 DEF StageAt, RestoreAt, ImportAt, CleanAt, StartAt, RestoreSite, SteadySite, May, Database
<1> QED BY <1>0, <1>1, <1>2, <1>3, OthersStay, AroundKeepsInv

(* When nobody runs, there is little to keep. *)
LEMMA Resting ==
  ASSUME EnvTypes', CommandTypes', Paths', OthersMay', site' = site,
         Alone => /\ \A q \in Proc : ~(proc'[q].todo # <<>>)
                  /\ ended'.outcome = "ok" => StageAt(ended.cmd, ended.found, "done")'
  PROVE  EnvInv'
<1>1. Alone => AloneInv'
  BY DEF AloneInv, Active
<1> QED BY <1>1, OthersStay, TypeHalvesNext DEF EnvInv, Alone, May

LEMMA StepKeepsInv ==
  ASSUME EnvInv, NEW p \in Proc, Step(p)
  PROVE  EnvInv'
<1>0. CommandTypes /\ Paths /\ (Alone => AloneInv) /\ OthersMay
  BY TypeHalves DEF EnvInv
<1>1. PICK c \in Command, f \in Looked : c = Cmd(p) /\ f = proc[p].found
  BY <1>0, Facts
<1>2. Context(p, c, f)
  BY <1>1, TypeHalves DEF EnvInv, Context
<1>3. EnvTypes' /\ Outcome(p, c, f) /\ Active(p) /\ site' = site /\ others' = others
  BY <1>2, StepMoves
<1>4. DOMAIN proc = Proc /\ proc[p] \in RunType
  BY <1>0, Facts
<1>5. Alone => /\ StageAt(c, f, Here(p)) /\ ended.outcome = "none"
               /\ \A q \in Proc : q # p => ~Active(q)
  <2> SUFFICES ASSUME Alone PROVE StageAt(c, f, Here(p)) /\ ended.outcome = "none"
                                  /\ \A q \in Proc : q # p => ~Active(q)
    OBVIOUS
  <2>1. StageAt(proc[p].cmd, proc[p].found, Head(proc[p].todo))
    BY <1>0, <1>3 DEF AloneInv
  <2> QED BY <1>0, <1>1, <1>3, <2>1 DEF AloneInv, Cmd, Here
<1>6. ASSUME NEW o \in Outcomes, Finish(p, o),
             o = "ok" => (Alone => StageAt(c, f, "done")')
      PROVE  EnvInv'
  <2>1. CommandTypes' /\ Paths'
    BY <1>0, <1>3, <1>6, Landed
  <2>2. proc' = [proc EXCEPT ![p] = Idle] /\ ended'.cmd = c /\ ended'.found = f
        /\ (ended'.outcome = "ok" => o = "ok")
    BY <1>1, <1>6 DEF Finish, Cmd, Recorded
  <2>3. Alone => \A q \in Proc : ~(proc'[q].todo # <<>>)
    BY <1>4, <1>5, <2>2, IdleType DEF Active
  <2>4. Alone /\ ended'.outcome = "ok" => StageAt(ended.cmd, ended.found, "done")'
    <3>1. c = ended'.cmd /\ f = ended'.found
      BY <2>2
    <3> QED BY <1>6, <2>2, <3>1
  <2> QED BY <1>0, <1>3, <1>6, <2>1, <2>2, <2>3, <2>4, OthersStay, Resting
<1>7. ASSUME NEW n \in Steps, Arrives(p, n), Alone => StageAt(c, f, n)' PROVE EnvInv'
  <2>1. CommandTypes' /\ Paths'
    BY <1>0, <1>3, <1>7, Landed
  <2>2. n # "done"
    BY DEF Steps
  <2>3. PICK t : Then(p, t) /\ t # <<>> /\ Head(t) = n
    BY <1>7, <2>2 DEF Arrives
  <2>4. proc' = [proc EXCEPT ![p] = [proc[p] EXCEPT !.todo = t]] /\ ended' = ended
    BY <2>3, <1>4 DEF Then
  <2>5. proc'[p].cmd = c /\ proc'[p].found = f /\ proc'[p].todo = t /\ \A q \in Proc : q # p => proc'[q] = proc[q]
    BY <1>1, <1>4, <2>4 DEF RunType, Cmd
  <2>6. Alone => StageAt(proc[p].cmd, proc[p].found, Head(proc[p].todo))'
    <3>1. c = proc'[p].cmd /\ f = proc'[p].found /\ n = Head(proc'[p].todo)
      BY <2>3, <2>5
    <3> QED BY <1>7, <3>1
  <2>7. Alone => \A q \in Proc : Active(q)' => q = p
    BY <1>5, <2>5 DEF Active
  <2>8. Alone => AloneInv'
    <3> SUFFICES ASSUME Alone PROVE AloneInv'
      OBVIOUS
    <3>1. ended'.outcome = "none"
      BY <1>5, <2>4
    <3>2. \A q \in Proc : Active(q)' => StageAt(proc[q].cmd, proc[q].found, Head(proc[q].todo))'
      BY <2>6, <2>7
    <3> QED BY <2>7, <3>1, <3>2 DEF AloneInv
  <2> QED BY <1>0, <1>3, <2>1, <2>8, OthersStay, TypeHalvesNext DEF EnvInv, Alone, May
<1>8. CASE \E o \in {"failed", "refused"} : Finish(p, o)
  <2>1. PICK o \in {"failed", "refused"} : Finish(p, o)
    BY <1>8
  <2> QED BY <1>6, <2>1 DEF Outcomes
<1>10. ASSUME NEW n \in Steps \cup {"done"}, Arrives(p, n), Alone => StageAt(c, f, n)' PROVE EnvInv'
  <2>1. CASE n = "done"
    <3>1. Finish(p, "ok")
      BY <1>10, <2>1 DEF Arrives
    <3> QED BY <1>6, <1>10, <2>1, <3>1 DEF Outcomes
  <2> QED BY <1>7, <1>10, <2>1
<1> QED BY <1>3, <1>5, <1>8, <1>10 DEF Outcome

LEMMA LaunchKeepsInv ==
  ASSUME EnvInv, NEW p \in Proc, NEW c \in Commands, Launch(p, c)
  PROVE  EnvInv'
<1>0. EnvTypes /\ CommandTypes /\ Paths /\ (Alone => AloneInv) /\ OthersMay /\ c \in Command
  BY TypeHalves, ConstantsAssumption DEF EnvInv
<1>1. /\ site' = site /\ others' = others /\ doclibPath' = doclibPath /\ backup' = backup /\ store' = store
      /\ doclib' = doclib /\ postgres' = postgres /\ liferay' = liferay /\ ended' = None
      /\ runs < MaxRuns[site] /\ runs' = runs + 1
  BY DEF Launch, containers, library
<1> DEFINE r == [Idle EXCEPT !.cmd = c, !.todo = Plan(c), !.found = Found]
<1>2. proc' = [proc EXCEPT ![p] = r] /\ DOMAIN proc = Proc
  BY <1>0, Facts DEF Launch
<1>3. Path(c, Plan(c)) /\ Plan(c) # <<>> /\ Head(Plan(c)) = First(c)
  BY <1>0, PlanPath
<1>4. Found \in Looked
  BY TypeHalves DEF EnvInv, TypeOK
<1>5. Plan(c) \in Seq(Steps)
  <2>1. Plan(c) \in Seq(StepsOf(c)) /\ StepsOf(c) \subseteq Steps
    BY <1>0, <1>3, StepsOfCommand DEF Path
  <2> QED BY <2>1, SeqMonotonic
<1>6. r \in RunType /\ r.cmd = c /\ r.todo = Plan(c) /\ r.canceled = FALSE /\ r.found = Found
  BY <1>0, <1>4, <1>5 DEF Idle, RunType
<1> HIDE DEF r
<1>7. EnvTypes'
  <2>1. MaxRuns[site] \in Nat
    BY <1>0, ConstantsAssumption DEF EnvTypes
  <2>2. runs' \in 0..MaxRuns[site]
    BY <1>0, <1>1, <2>1 DEF EnvTypes
  <2> QED BY <1>0, <1>1, <2>2 DEF EnvTypes
<1>8. CommandTypes'
  <2>1. None \in [cmd : Command, outcome : Outcomes, at : Steps \cup {"none"}, found : Looked]
    BY IdleType DEF None, Outcomes
  <2> QED BY <1>0, <1>1, <1>2, <1>6, <2>1 DEF CommandTypes
<1>9. Paths'
  <2>1. \A q \in Proc : Path(proc'[q].cmd, proc'[q].todo)
    BY <1>0, <1>2, <1>3, <1>6 DEF Paths
  <2> QED BY <1>1, <2>1, SamePath DEF Paths
<1>10. Alone => AloneInv'
  <2> SUFFICES ASSUME Alone PROVE AloneInv'
    OBVIOUS
  <2>1. \A q \in Proc : ~Active(q)
    BY DEF Launch
  <2>2. \A q \in Proc : Active(q)' => q = p
    BY <1>2, <2>1 DEF Active
  <2>3. PICK f \in Looked : f = Found
    BY <1>4
  <2>4. PICK s : s = First(c)
    OBVIOUS
  <2>5. StageAt(c, f, s)'
    <3>k. c.kind \in Kinds
      BY <1>0 DEF Command
    <3>1. f.liferay = liferay' /\ f.postgres = postgres'
      BY <1>1, <2>3 DEF Found
    <3>2. CASE c.kind = "restore"
      <4>1. RestoreAt(s)'
        BY <2>4, <3>2 DEF RestoreAt, First
      <4> QED BY <3>2, <4>1 DEF StageAt, Imports
    <3>3. CASE c.kind \in Imports
      <4>1. s \in {"check", "download"}
        BY <2>4, <3>3 DEF First, Imports
      <4>2. ImportAt(c, f, s)'
        BY <3>1, <4>1 DEF ImportAt, Quiet
      <4> QED BY <3>3, <4>2 DEF StageAt, Imports
    <3>4. CASE c.kind = "clean"
      <4>1. CleanAt(s)'
        BY <2>4, <3>4 DEF CleanAt, First
      <4> QED BY <3>4, <4>1 DEF StageAt, Imports
    <3>5. CASE c.kind \in {"start", "restart"}
      <4>1. s \in {"prepare", "stop"}
        BY <2>4, <3>5 DEF First
      <4>2. c.kind = "restart" \/ f.liferay = "none" => StartAt(s)'
        BY <2>4, <3>1, <3>5, <4>1 DEF StartAt, First
      <4> QED BY <3>5, <4>1, <4>2 DEF StageAt, Imports
    <3>6. CASE c.kind \in {"stop", "recreate"}
      BY <3>6 DEF StageAt, Imports
    <3> QED BY <3>k, <3>2, <3>3, <3>4, <3>5, <3>6 DEF Kinds, Imports
  <2>6. c = proc'[p].cmd /\ f = proc'[p].found /\ s = Head(proc'[p].todo)
    BY <1>2, <1>3, <1>6, <2>3, <2>4
  <2>7. StageAt(proc[p].cmd, proc[p].found, Head(proc[p].todo))'
    BY <2>5, <2>6
  <2>8. \A q \in Proc : Active(q)' => StageAt(proc[q].cmd, proc[q].found, Head(proc[q].todo))'
    BY <2>2, <2>7
  <2>9. ended'.outcome = "none"
    BY <1>1 DEF None
  <2> QED BY <2>2, <2>8, <2>9 DEF AloneInv
<1> QED BY <1>0, <1>1, <1>7, <1>8, <1>9, <1>10, OthersStay, TypeHalvesNext DEF EnvInv, Alone, May

LEMMA CancelKeepsInv ==
  ASSUME EnvInv, NEW p \in Proc, Cancel(p)
  PROVE  EnvInv'
<1>0. EnvTypes /\ CommandTypes /\ Paths /\ (Alone => AloneInv) /\ OthersMay
  BY TypeHalves DEF EnvInv
<1>1. /\ site' = site /\ others' = others /\ doclibPath' = doclibPath /\ runs' = runs /\ backup' = backup
      /\ store' = store /\ doclib' = doclib /\ postgres' = postgres /\ liferay' = liferay /\ ended' = ended
  BY DEF Cancel, outside, containers
<1>2. EnvTypes'
  BY <1>0, <1>1 DEF EnvTypes
<1> DEFINE r == [proc[p] EXCEPT !.canceled = TRUE]
<1>3. proc' = [proc EXCEPT ![p] = r] /\ DOMAIN proc = Proc /\ proc[p] \in RunType /\ proc[p].cmd.task
  BY <1>0, Facts DEF Cancel, Cancelable
<1>4. r \in RunType /\ r.cmd = proc[p].cmd /\ r.todo = proc[p].todo /\ r.found = proc[p].found
  BY <1>3 DEF RunType
<1> HIDE DEF r
<1>5. \A q \in Proc : proc'[q].cmd = proc[q].cmd /\ proc'[q].todo = proc[q].todo /\ proc'[q].found = proc[q].found
  BY <1>3, <1>4
<1>6. CommandTypes'
  BY <1>0, <1>1, <1>3, <1>4 DEF CommandTypes
<1>7. Paths'
  <2>1. \A q \in Proc : Path(proc'[q].cmd, proc'[q].todo)
    BY <1>0, <1>5 DEF Paths
  <2> QED BY <1>1, <2>1, SamePath DEF Paths
<1>8. ASSUME NEW c \in Command, NEW f \in Looked, NEW s, StageAt(c, f, s) PROVE StageAt(c, f, s)'
  BY <1>1, <1>8 DEF StageAt, RestoreAt, ImportAt, CleanAt, StartAt, RestoreSite, SteadySite, May, Database
<1>9. ASSUME Alone PROVE AloneInv'
  <2>1. AloneInv /\ \A q \in Proc : Active(q)' <=> Active(q)
    BY <1>0, <1>5, <1>9 DEF Active
  <2>2. ended.outcome = "ok" => StageAt(ended.cmd, ended.found, "done")'
    <3>1. PICK c \in Command, f \in Looked : c = ended.cmd /\ f = ended.found
      BY <1>0 DEF CommandTypes
    <3>2. ended.outcome = "ok" => StageAt(c, f, "done")'
      BY <1>8, <2>1, <3>1 DEF AloneInv
    <3>3. c = ended'.cmd /\ f = ended'.found
      BY <1>1, <3>1
    <3> QED BY <3>2, <3>3
  <2>3. ASSUME NEW q \in Proc, Active(q) PROVE StageAt(proc[q].cmd, proc[q].found, Head(proc[q].todo))'
    <3>1. Cmd(q) \in Command /\ proc[q].found \in Looked
      BY <1>0, Facts
    <3>2. PICK c \in Command, f \in Looked : c = proc[q].cmd /\ f = proc[q].found
      BY <3>1 DEF Cmd
    <3>3. PICK s : s = Head(proc[q].todo)
      OBVIOUS
    <3>4. StageAt(c, f, s)'
      BY <1>8, <2>1, <2>3, <3>2, <3>3 DEF AloneInv
    <3>5. c = proc'[q].cmd /\ f = proc'[q].found /\ s = Head(proc'[q].todo)
      BY <1>5, <3>2, <3>3
    <3> QED BY <3>4, <3>5
  <2> QED BY <1>1, <2>1, <2>2, <2>3 DEF AloneInv
<1> QED BY <1>0, <1>1, <1>2, <1>6, <1>7, <1>9, OthersStay, TypeHalvesNext DEF EnvInv, Alone, May

LEMMA KillKeepsInv ==
  ASSUME EnvInv, NEW p \in Proc, Kill(p)
  PROVE  EnvInv'
<1>0. EnvTypes /\ CommandTypes /\ Paths /\ (Alone => AloneInv) /\ OthersMay
  BY TypeHalves DEF EnvInv
<1>1. /\ site' = site /\ others' = others /\ doclibPath' = doclibPath /\ runs' = runs /\ backup' = backup
      /\ store' = store /\ doclib' = doclib /\ postgres' = postgres /\ liferay' = liferay /\ ended' = None
      /\ proc' = [proc EXCEPT ![p] = Idle] /\ Active(p) /\ DOMAIN proc = Proc
  BY <1>0, Facts DEF Kill, outside, containers
<1>2. EnvTypes'
  BY <1>0, <1>1 DEF EnvTypes
<1>3. CommandTypes'
  <2>1. None \in [cmd : Command, outcome : Outcomes, at : Steps \cup {"none"}, found : Looked]
    BY IdleType DEF None, Outcomes
  <2> QED BY <1>0, <1>1, <2>1, IdleType DEF CommandTypes
<1>4. Paths'
  <2>1. \A q \in Proc : Path(proc'[q].cmd, proc'[q].todo)
    BY <1>0, <1>1, IdleType DEF Paths
  <2> QED BY <1>1, <2>1, SamePath DEF Paths
<1>5. Alone => \A q \in Proc : ~(proc'[q].todo # <<>>)
  BY <1>0, <1>1, IdleType DEF AloneInv, Active
<1>6. ended'.outcome = "none"
  BY <1>1 DEF None
<1> QED BY <1>0, <1>1, <1>2, <1>3, <1>4, <1>5, <1>6, OthersStay, Resting

LEMMA ConfigureKeepsInv == EnvInv /\ ConfigureDoclib => EnvInv'
<1> SUFFICES ASSUME EnvInv, ConfigureDoclib PROVE EnvInv'
  OBVIOUS
<1>0. EnvTypes /\ CommandTypes /\ Paths /\ OthersMay
  BY TypeHalves DEF EnvInv
<1>1. /\ site' = site /\ others' = others /\ runs' = runs /\ backup' = backup /\ store' = store /\ proc' = proc
      /\ doclib' = doclib /\ postgres' = postgres /\ liferay' = liferay /\ ended' = None
      /\ doclibPath' \in {"default", "own"} /\ \A q \in Proc : ~Active(q)
  BY DEF ConfigureDoclib, containers
<1>2. EnvTypes'
  BY <1>0, <1>1 DEF EnvTypes
<1>3. CommandTypes'
  <2>1. None \in [cmd : Command, outcome : Outcomes, at : Steps \cup {"none"}, found : Looked]
    BY IdleType DEF None, Outcomes
  <2> QED BY <1>0, <1>1, <2>1 DEF CommandTypes
<1>4. Paths'
  BY <1>0, <1>1, SamePath DEF Paths
<1>5. \A q \in Proc : ~(proc'[q].todo # <<>>)
  BY <1>1 DEF Active
<1>6. ended'.outcome = "none"
  BY <1>1 DEF None
<1> QED BY <1>0, <1>1, <1>2, <1>3, <1>4, <1>5, <1>6, OthersStay, Resting

LEMMA NextKeepsInv == EnvInv /\ [Next]_vars => EnvInv'
<1> SUFFICES ASSUME EnvInv, [Next]_vars PROVE EnvInv'
  OBVIOUS
<1>1. CASE \E p \in Proc : Step(p) \/ Cancel(p) \/ Kill(p) \/ \E c \in Commands : Launch(p, c)
  BY <1>1, StepKeepsInv, CancelKeepsInv, KillKeepsInv, LaunchKeepsInv
<1>2. CASE Boot \/ PostgresInitialised
  BY <1>2, BootKeepsInv, InitialisedKeepsInv
<1>3. CASE (\E o \in {"main", "worktree"} : OtherStarts(o) \/ OtherStops(o)) \/ ConfigureDoclib
  BY <1>3, OtherKeepsInv, ConfigureKeepsInv
<1>4. CASE UNCHANGED vars
  BY <1>4, StutterKeepsInv
<1> QED BY <1>1, <1>2, <1>3, <1>4 DEF Next

LEMMA SpecKeepsInv == Spec => []EnvInv
<1>1. Init => EnvInv
  BY InitInv
<1>2. EnvInv /\ [Next]_vars => EnvInv'
  BY NextKeepsInv
<1> QED BY <1>1, <1>2, PTL DEF Spec

-----------------------------------------------------------------------------
(* What a canceled start leaves: until it asks for the containers it only takes them down, *)
(* and from then on a cancel leads to a rollback.                                          *)
Starts == {"start", "restart", "restore"}
Reports == {"ok", "failed", "refused"}
Rolls == {"up", "rollbackStop", "rollbackDown"}
CalmSteps == RestoreSteps \cup {"stop", "down", "prepare", "doclib"}

CancelLeft(c, f, at) ==
  c.kind \in Starts =>
    IF at \in Rolls THEN postgres = "none" /\ liferay = "none" ELSE at = "health" \/ StartedNothing(f)

CalmInv ==
  Alone /\ ~May("docker") =>
    /\ ended.outcome = "canceled" => CancelLeft(ended.cmd, ended.found, ended.at)
    /\ \A p \in Proc : Active(p) /\ Cmd(p).kind \in Starts /\ Here(p) \in CalmSteps =>
         StartedNothing(proc[p].found)

LEMMA CalmStays ==
  ASSUME NEW p \in Proc, NEW c \in Command, NEW f \in Looked, Context(p, c, f), Step(p), c.kind \in Starts,
         Here(p) \in CalmSteps, StartedNothing(f)
  PROVE  StartedNothing(f)'
<1>0. EnvTypes /\ \A s : At(p, s) => s = Here(p) /\ s \in StepsOf(c)
  BY HereOf DEF Context
<1>1. CASE postgres' = postgres /\ liferay' = liferay
  BY <1>1 DEF StartedNothing
<1>2. CASE postgres' \in {postgres, "none", "stopped"} /\ liferay' \in {liferay, "none", "exited"}
  BY <1>2 DEF StartedNothing, PortalUp, PostgresIsUp
<1>3. CASE postgres' = Orphaned /\ liferay' = liferay
  BY <1>3 DEF StartedNothing, PostgresIsUp, Orphaned
<1>4. CASE StartStep(p)
  <2>1. Prepare(p) \/ EnsureDoclibVolume(p)
    BY <1>0, <1>4 DEF StartStep, Up, Health, CalmSteps, RestoreSteps
  <2> QED BY <1>1, <2>1 DEF Prepare, EnsureDoclibVolume, containers
<1>5. CASE StopStep(p)
  <2>1. Stop(p) \/ RemoveContainers(p)
    BY <1>0, <1>5 DEF StopStep, StopLiferay, UpLiferay, CalmSteps, RestoreSteps
  <2>2. /\ postgres' = postgres \/ PostgresStops \/ AllRemoved
        /\ liferay' = liferay \/ LiferayStops \/ AllRemoved
    BY <2>1 DEF Stop, RemoveContainers, AllStop, containers
  <2> QED BY <1>0, <1>2, <2>2, StoppedMoves
<1>6. CASE RestoreStep(p)
  <2>1. CASE DropPostgres(p)
    BY <1>1, <1>3, <2>1 DEF DropPostgres, DropPostgresVolume, DropPostgresDirectory
  <2>2. CASE DownQuietly(p)
    BY <1>0, <1>1, <1>2, <2>2, StoppedMoves DEF DownQuietly, containers
  <2>3. CASE RestoreSource(p) \/ CopyPostgres(p) \/ DropData(p) \/ CopyData(p)
    BY <1>1, <2>3 DEF RestoreSource, CopyPostgres, DropData, CopyData, containers
  <2> QED BY <1>6, <2>1, <2>2, <2>3 DEF RestoreStep
<1>7. CASE CleanStep(p)
  <2>1. \E s \in CleanSteps : At(p, s)
    BY <1>7 DEF CleanStep, DownVolumes, CleanDoclib, CleanVolume, CleanData, CleanSteps
  <2> QED BY <1>0, <2>1, KindOf DEF Starts
<1>8. CASE ImportStep(p)
  <2>1. \E s \in ImportSteps \cup {"wipe", "rmPostgres", "rmVolume"} : At(p, s)
    BY <1>8 DEF ImportStep, Download, CheckImport, Wipe, RemovePostgres, RemoveVolume, UpPostgres, PostgresReady,
                Stream, Imported, PostImport, ImportSteps
  <2> QED BY <1>0, <2>1, KindOf DEF Starts, Imports
<1> QED BY <1>4, <1>5, <1>6, <1>7, <1>8 DEF Step

(* The step whose turn it is. *)
LEMMA StepOf ==
  ASSUME NEW p \in Proc, NEW c \in Command, NEW f \in Looked, Context(p, c, f), Step(p)
  PROVE  /\ Active(p)
         /\ Here(p) = "up" => Up(p)
         /\ Here(p) = "health" => Health(p)
         /\ Here(p) = "rollbackStop" => Stop(p)
         /\ Here(p) = "rollbackDown" => RemoveContainers(p)
<1>0. \A s : At(p, s) => s = Here(p)
  BY HereOf DEF Context
<1>a. Active(p)
  BY StepMoves
<1>1. CASE StartStep(p)
  BY <1>0, <1>a, <1>1 DEF StartStep, Prepare, EnsureDoclibVolume, Up, Health
<1>2. CASE StopStep(p)
  BY <1>0, <1>a, <1>2 DEF StopStep, Stop, RemoveContainers, StopLiferay, UpLiferay
<1>3. CASE RestoreStep(p)
  BY <1>0, <1>a, <1>3 DEF RestoreStep, RestoreSource, DownQuietly, DropPostgres, CopyPostgres, DropData, CopyData
<1>4. CASE CleanStep(p)
  BY <1>0, <1>a, <1>4 DEF CleanStep, DownVolumes, CleanDoclib, CleanVolume, CleanData
<1>5. CASE ImportStep(p)
  BY <1>0, <1>a, <1>5 DEF ImportStep, Download, CheckImport, Wipe, RemovePostgres, RemoveVolume, UpPostgres,
                    PostgresReady, Stream, Imported, PostImport
<1> QED BY <1>1, <1>2, <1>3, <1>4, <1>5  DEF Step

(* Past that point a canceled start that ends has rolled back, or was waiting for health. *)
LEMMA CancelRolls ==
  ASSUME NEW p \in Proc, NEW c \in Command, NEW f \in Looked, NEW h, h = Here(p), Context(p, c, f), Step(p),
         c.kind \in Starts, h \notin CalmSteps, ~May("docker")
  PROVE  \/ \E t : Then(p, t) /\ t # <<>> /\ Head(t) \notin CalmSteps
         \/ \E o \in Reports : Finish(p, o) /\ (proc[p].canceled => CancelLeft(c, f, h)')
<1>0. EnvTypes /\ CommandTypes /\ Paths /\ c = Cmd(p) /\ Active(p)
  BY StepOf DEF Context
<1>1. ASSUME NEW n \in {"health", "rollbackDown"}, Arrives(p, n)
      PROVE  \E t : Then(p, t) /\ t # <<>> /\ Head(t) \notin CalmSteps
  BY <1>1 DEF Arrives, CalmSteps, RestoreSteps
<1>2. h \in StepsOf(c) /\ c.kind \in Kinds
  BY <1>0, Facts DEF Command
<1>3. h \in {"up", "health", "rollbackStop", "rollbackDown"}
  BY <1>2 DEF StepsOf, StartSteps, Starts, CalmSteps, RestoreSteps, Imports
<1>4. \A s : At(p, s) => s = h
  BY HereOf
<1>5. CASE h = "up"
  <2>1. CASE Rollback(p)
    <3> DEFINE t == <<"rollbackStop", "rollbackDown">>
    <3>1. Then(p, t) /\ t # <<>> /\ Head(t) \notin CalmSteps
      BY <2>1 DEF Rollback, CalmSteps, RestoreSteps
    <3> QED BY <3>1
  <2>2. CASE ~Aborted(p) /\ Proceed(p)
    <3>1. PICK n \in Nexts(c, "up") : Arrives(p, n)
      BY <1>0, <1>5, <2>2, Proceeds
    <3>2. n \in {"health", "done"}
      BY <3>1, NextOf
    <3>3. CASE n = "done"
      BY <2>2, <3>1, <3>3 DEF Arrives, Aborted, Reports
    <3> QED BY <1>1, <3>1, <3>2, <3>3
  <2> QED BY <1>5, <2>1, <2>2, StepOf DEF Up
<1>6. CASE h = "health"
  <2>1. CancelLeft(c, f, h)'
    BY <1>6 DEF CancelLeft, Rolls
  <2>2. CASE Proceed(p)
    <3>1. PICK n \in Nexts(c, "health") : Arrives(p, n)
      BY <1>0, <1>6, <2>2, Proceeds
    <3>2. n = "done"
      BY <3>1, NextOf
    <3> QED BY <2>1, <3>1, <3>2 DEF Arrives, Reports
  <2>3. CASE Finish(p, "failed")
    BY <2>1, <2>3 DEF Reports
  <2> QED BY <1>6, <2>2, <2>3, StepOf DEF Health
<1>7. CASE h = "rollbackStop"
  <2>1. Proceed(p)
    BY <1>4, <1>7, StepOf DEF Stop
  <2>2. PICK n \in Nexts(c, "rollbackStop") : Arrives(p, n)
    BY <1>0, <1>7, <2>1, Proceeds
  <2>3. n = "rollbackDown"
    BY <2>2, NextOf
  <2> QED BY <1>1, <2>2, <2>3
<1>8. CASE h = "rollbackDown"
  <2>1. AllRemoved /\ Finish(p, "failed")
    BY <1>4, <1>8, StepOf DEF RemoveContainers
  <2>2. CancelLeft(c, f, h)'
    BY <1>0, <1>8, <2>1, StoppedMoves DEF CancelLeft, Rolls
  <2> QED BY <2>1, <2>2 DEF Reports
<1> QED BY <1>3, <1>5, <1>6, <1>7, <1>8

LEMMA StepKeepsCalm ==
  ASSUME EnvInv, CalmInv, NEW p \in Proc, Step(p), Alone, ~May("docker")
  PROVE  /\ ended'.outcome = "canceled" => CancelLeft(ended.cmd, ended.found, ended.at)'
         /\ \A q \in Proc : Active(q)' /\ Cmd(q)'.kind \in Starts /\ Here(q)' \in CalmSteps =>
              StartedNothing(proc[q].found)'
<1>0. EnvTypes /\ CommandTypes /\ Paths /\ AloneInv /\ OthersMay
  BY TypeHalves DEF EnvInv
<1>1. PICK c \in Command, f \in Looked : c = Cmd(p) /\ f = proc[p].found
  BY <1>0, Facts
<1>2. PICK h : h = Here(p)
  OBVIOUS
<1>3. Context(p, c, f) /\ Active(p)
  BY <1>0, <1>1, StepOf DEF Context
<1>4. DOMAIN proc = Proc /\ proc[p] \in RunType
  BY <1>0, Facts
<1>5. ended.outcome = "none" /\ \A q \in Proc : q # p => ~Active(q)
  BY <1>0, <1>3 DEF AloneInv
<1>6. \/ \E t : Then(p, t) /\ t # <<>>
      \/ \E o \in Reports : Finish(p, o)
  <2>1. Outcome(p, c, f)
    BY <1>3, StepMoves
  <2> QED BY <2>1 DEF Outcome, Arrives, Reports
<1>7. c.kind \in Starts /\ h \in CalmSteps => StartedNothing(f)'
  <2>1. c.kind \in Starts /\ h \in CalmSteps => StartedNothing(f)
    BY <1>1, <1>2, <1>3 DEF CalmInv
  <2> QED BY <1>2, <1>3, <2>1, CalmStays
<1>8. ASSUME NEW o \in Reports, Finish(p, o), proc[p].canceled => CancelLeft(c, f, h)'
      PROVE  /\ ended'.outcome = "canceled" => CancelLeft(ended.cmd, ended.found, ended.at)'
             /\ \A q \in Proc : ~Active(q)'
  <2>1. proc' = [proc EXCEPT ![p] = Idle] /\ ended'.cmd = c /\ ended'.found = f /\ ended'.at = h
        /\ ended'.outcome = Recorded(p, o)
    BY <1>1, <1>2, <1>8 DEF Finish, Cmd, Here
  <2>2. \A q \in Proc : ~Active(q)'
    BY <1>4, <1>5, <2>1, IdleType DEF Active
  <2>3. ended'.outcome = "canceled" => CancelLeft(c, f, h)'
    BY <1>8, <2>1 DEF Recorded, Reports
  <2>4. c = ended'.cmd /\ f = ended'.found /\ h = ended'.at
    BY <2>1
  <2> QED BY <2>2, <2>3, <2>4
<1>9. ASSUME NEW t, Then(p, t), t # <<>>, c.kind \in Starts /\ Head(t) \in CalmSteps => StartedNothing(f)'
      PROVE  /\ ended'.outcome = "none"
             /\ \A q \in Proc : Active(q)' /\ Cmd(q)'.kind \in Starts /\ Here(q)' \in CalmSteps =>
                  StartedNothing(proc[q].found)'
  <2>1. proc' = [proc EXCEPT ![p] = [proc[p] EXCEPT !.todo = t]] /\ ended' = ended
    BY <1>4, <1>9 DEF Then
  <2>2. proc'[p].cmd = c /\ proc'[p].found = f /\ proc'[p].todo = t /\ \A q \in Proc : q # p => proc'[q] = proc[q]
    BY <1>1, <1>4, <2>1 DEF RunType, Cmd
  <2>3. \A q \in Proc : Active(q)' => q = p
    BY <1>5, <2>2 DEF Active
  <2>4. Cmd(p)'.kind \in Starts /\ Here(p)' \in CalmSteps => StartedNothing(f)'
    BY <1>9, <2>2 DEF Cmd, Here
  <2>5. StartedNothing(f)' => StartedNothing(proc[p].found)'
    BY <2>2 DEF StartedNothing
  <2> QED BY <1>5, <2>1, <2>3, <2>4, <2>5
<1>10. CASE c.kind \notin Starts
  <2>1. CancelLeft(c, f, h)'
    BY <1>10 DEF CancelLeft
  <2> QED BY <1>6, <1>8, <1>9, <1>10, <2>1
<1>11. CASE c.kind \in Starts /\ h \in CalmSteps
  <2>1. CancelLeft(c, f, h)'
    BY <1>7, <1>11 DEF CancelLeft, Rolls, CalmSteps, RestoreSteps
  <2> QED BY <1>6, <1>7, <1>8, <1>9, <1>11, <2>1
<1>12. CASE c.kind \in Starts /\ h \notin CalmSteps
  <2>1. \/ \E t : Then(p, t) /\ t # <<>> /\ Head(t) \notin CalmSteps
        \/ \E o \in Reports : Finish(p, o) /\ (proc[p].canceled => CancelLeft(c, f, h)')
    BY <1>2, <1>3, <1>12, CancelRolls
  <2> QED BY <1>8, <1>9, <2>1
<1> QED BY <1>10, <1>11, <1>12

(* Whatever else happens leaves the containers, but for the portal that becomes healthy. *)
LEMMA AroundKeepsCalm ==
  ASSUME CalmInv, site' = site, ended' \in {ended, None}, postgres' = postgres,
         liferay' = liferay \/ (liferay = "starting" /\ liferay' = "healthy"),
         \A q \in Proc : \/ proc'[q].todo = <<>>
                         \/ proc'[q].found.liferay = liferay' /\ proc'[q].found.postgres = postgres'
                         \/ /\ proc'[q].cmd = proc[q].cmd /\ proc'[q].todo = proc[q].todo
                            /\ proc'[q].found = proc[q].found
  PROVE  CalmInv'
<1> SUFFICES ASSUME Alone, ~May("docker") PROVE CalmInv'
  BY DEF CalmInv, Alone, May
<1>1. ASSUME NEW f, NEW g, g = f, StartedNothing(f) PROVE StartedNothing(g)'
  BY <1>1 DEF StartedNothing, PortalUp
<1>2. ended'.outcome = "canceled" => CancelLeft(ended.cmd, ended.found, ended.at)'
  <2> SUFFICES ASSUME ended'.outcome = "canceled" PROVE CancelLeft(ended.cmd, ended.found, ended.at)'
    OBVIOUS
  <2>1. ended' = ended /\ CancelLeft(ended.cmd, ended.found, ended.at)
    BY DEF None, CalmInv
  <2>2. StartedNothing(ended.found) => StartedNothing(ended.found)'
    BY <2>1 DEF StartedNothing, PortalUp
  <2> QED BY <2>1, <2>2 DEF CancelLeft
<1>3. ASSUME NEW q \in Proc, Active(q)', Cmd(q)'.kind \in Starts, Here(q)' \in CalmSteps
      PROVE  StartedNothing(proc[q].found)'
  <2>1. CASE proc'[q].found.liferay = liferay' /\ proc'[q].found.postgres = postgres'
    BY <2>1 DEF StartedNothing
  <2>2. CASE /\ proc'[q].cmd = proc[q].cmd /\ proc'[q].todo = proc[q].todo /\ proc'[q].found = proc[q].found
    <3>1. StartedNothing(proc[q].found)
      BY <1>3, <2>2 DEF CalmInv, Active, Cmd, Here
    <3> QED BY <2>2, <3>1 DEF StartedNothing, PortalUp
  <2> QED BY <1>3, <2>1, <2>2 DEF Active
<1> QED BY <1>2, <1>3 DEF CalmInv

LEMMA NextKeepsCalm == EnvInv /\ CalmInv /\ [Next]_vars => CalmInv'
<1> SUFFICES ASSUME EnvInv, CalmInv, [Next]_vars PROVE CalmInv'
  OBVIOUS
<1>0. EnvTypes /\ CommandTypes /\ Paths /\ DOMAIN proc = Proc /\ \A q \in Proc : proc[q] \in RunType
  BY TypeHalves DEF EnvInv, CommandTypes
<1>1. ASSUME NEW p \in Proc, Step(p) PROVE CalmInv'
  <2>1. site' = site
    <3>1. PICK c \in Command, f \in Looked : c = Cmd(p) /\ f = proc[p].found
      BY <1>0, Facts
    <3>2. Context(p, c, f)
      BY <1>0, <3>1 DEF Context, EnvInv
    <3> QED BY <1>1, <3>2, StepMoves
  <2> SUFFICES ASSUME Alone, ~May("docker") PROVE CalmInv'
    BY <2>1 DEF CalmInv, Alone, May
  <2> QED BY <1>1, StepKeepsCalm DEF CalmInv
<1>2. ASSUME NEW p \in Proc, Cancel(p) PROVE CalmInv'
  <2>1. site' = site /\ ended' = ended /\ postgres' = postgres /\ liferay' = liferay
        /\ proc' = [proc EXCEPT ![p] = [proc[p] EXCEPT !.canceled = TRUE]]
    BY <1>0, <1>2 DEF Cancel, outside, containers
  <2>2. \A q \in Proc : proc'[q].cmd = proc[q].cmd /\ proc'[q].todo = proc[q].todo /\ proc'[q].found = proc[q].found
    BY <1>0, <2>1 DEF RunType
  <2> QED BY <2>1, <2>2, AroundKeepsCalm
<1>3. ASSUME NEW p \in Proc, Kill(p) PROVE CalmInv'
  <2>1. site' = site /\ ended' = None /\ postgres' = postgres /\ liferay' = liferay
        /\ proc' = [proc EXCEPT ![p] = Idle]
    BY <1>3 DEF Kill, outside, containers
  <2>2. ASSUME NEW q \in Proc PROVE proc'[q].todo = <<>> \/ proc'[q] = proc[q]
    BY <1>0, <2>1, IdleType
  <2> QED BY <2>1, <2>2, AroundKeepsCalm
<1>4. ASSUME NEW p \in Proc, NEW c \in Commands, Launch(p, c) PROVE CalmInv'
  <2> DEFINE r == [Idle EXCEPT !.cmd = c, !.todo = Plan(c), !.found = Found]
  <2>1. site' = site /\ ended' = None /\ postgres' = postgres /\ liferay' = liferay
        /\ proc' = [proc EXCEPT ![p] = r]
    BY <1>4 DEF Launch, containers
  <2>2. r.found = Found
    BY DEF Idle
  <2>3. r.found.liferay = liferay /\ r.found.postgres = postgres
    BY <2>2 DEF Found
  <2> HIDE DEF r
  <2> QED BY <1>0, <2>1, <2>3, AroundKeepsCalm
<1>5. ASSUME \/ Boot \/ PostgresInitialised \/ ConfigureDoclib \/ UNCHANGED vars
             \/ \E o \in {"main", "worktree"} : OtherStarts(o) \/ OtherStops(o)
      PROVE  CalmInv'
  <2>1. site' = site /\ ended' \in {ended, None} /\ postgres' = postgres /\ proc' = proc
        /\ (liferay' = liferay \/ (liferay = "starting" /\ liferay' = "healthy"))
    BY <1>5 DEF Boot, PostgresInitialised, ConfigureDoclib, OtherStarts, OtherStops, vars, outside, containers
  <2> QED BY <2>1, AroundKeepsCalm
<1> QED BY <1>1, <1>2, <1>3, <1>4, <1>5 DEF Next

-----------------------------------------------------------------------------
(* Every variable keeps its type, whatever the commands, their interleaving and the sites. *)
THEOREM EnvironmentTypeCorrect == Spec => []TypeOK
<1>1. EnvInv => TypeOK
  BY DEF EnvInv
<1> QED BY <1>1, SpecKeepsInv, PTL

(* env start: a task that is recorded as canceled leaves no container once docker compose  *)
(* was asked to bring them up (rollbackStartedEnvironment), and before that it has started *)
(* nothing, whatever ran before, when commands do not overlap and docker does not fail.    *)
THEOREM CanceledLeavesNothing == Spec => []CanceledStartLeavesNothing
<1>1. CalmInv => CanceledStartLeavesNothing
  BY DEF CalmInv, CancelLeft, Rolls, Starts, CanceledStartLeavesNothing, Ran
<1>2. Init => CalmInv
  <2> SUFFICES ASSUME Init PROVE CalmInv
    OBVIOUS
  <2>1. \A p \in Proc : ~Active(p)
    BY IdleType DEF Init, Active
  <2> QED BY <2>1 DEF CalmInv, Init, None
<1>3. EnvInv /\ CalmInv /\ [Next]_vars => CalmInv'
  BY NextKeepsCalm
<1> QED BY <1>1, <1>2, <1>3, SpecKeepsInv, PTL DEF Spec

(* What the reports of success promise: a restore has replaced everything, an import of a  *)
(* whole backup has put it in place, a clean has removed what it said, and a start mounts  *)
(* the documents that are configured.                                                      *)
THEOREM ReportsAreTrue == Spec => []SuccessMeansDone
<1>1. EnvInv => SuccessMeansDone
  <2> SUFFICES ASSUME EnvInv PROVE SuccessMeansDone
    OBVIOUS
  <2> DEFINE c == ended.cmd
             f == ended.found
  <2>1. Alone /\ ended.outcome = "ok" => StageAt(c, f, "done")
    BY DEF EnvInv, AloneInv
  <2> HIDE DEF c, f
  <2>2. RestoreIsWhole
    <3> SUFFICES ASSUME Ran({"restore"}, "ok"), RestoreSite
                 PROVE  Database = "main" /\ store["liferay-data"] = IF site.base THEN "base" ELSE "main"
      BY DEF RestoreIsWhole, RestoreSite
    <3>1. RestoreAt("done")
      BY <2>1 DEF Ran, StageAt, c
    <3> QED BY <3>1 DEF RestoreAt
  <2>3. ImportIsWhole
    <3> SUFFICES ASSUME Ran({"import", "sync"}, "ok"), backup = "whole", Quiet(f)
                 PROVE  Database = "backup"
      BY DEF ImportIsWhole, Quiet, f
    <3>1. ImportAt(c, f, "done")
      BY <2>1 DEF Ran, StageAt, Imports, c
    <3> QED BY <3>1 DEF ImportAt
  <2>4. CleanRemovesAll
    <3> SUFFICES ASSUME Ran({"clean"}, "ok")
                 PROVE  /\ postgres = "none" /\ liferay = "none"
                        /\ ~May("main") /\ ~May("worktree") => doclib = "absent"
                        /\ site.volume \/ site.inside => Database = "absent"
                        /\ site.inside => store["liferay-data"] = "absent"
      BY DEF CleanRemovesAll
    <3>1. CleanAt("done")
      BY <2>1 DEF Ran, StageAt, c
    <3> QED BY <3>1 DEF CleanAt
  <2>5. StartMountsDoclib
    <3> SUFFICES ASSUME Ran({"start", "restart"}, "ok")
                 PROVE  /\ doclib # "absent"
                        /\ (c.kind = "restart" \/ f.liferay = "none") /\ SteadySite => doclib = doclibPath
      BY DEF StartMountsDoclib, SteadySite, c, f
    <3>1. doclib # "absent"
      BY <2>1 DEF Ran, StageAt, c
    <3>2. (c.kind = "restart" \/ f.liferay = "none") /\ SteadySite => StartAt("done")
      BY <2>1 DEF Ran, StageAt, c
    <3> QED BY <3>1, <3>2 DEF StartAt
  <2> QED BY <2>2, <2>3, <2>4, <2>5 DEF SuccessMeansDone
<1> QED BY <1>1, SpecKeepsInv, PTL

(* A database worth keeping is only replaced by a command that says so: restore, clean, or *)
(* an import with --force; never by a start, a cancel, a rollback or the portal's boot.    *)
THEOREM NothingReplacedUnasked == Spec => OnlyForceReplaces
<1>1. ASSUME EnvInv, [Next]_vars, Database \in Precious, Database' # Database
      PROVE  \E p \in Proc : Active(p) /\ Replaces(proc[p])
  <2>0. EnvTypes /\ CommandTypes /\ Paths /\ (Alone => AloneInv) /\ OthersMay
    BY <1>1, TypeHalves DEF EnvInv
  <2>1. ASSUME NEW p \in Proc, Step(p) PROVE Active(p) /\ Replaces(proc[p])
    <3>1. PICK c \in Command, f \in Looked : c = Cmd(p) /\ f = proc[p].found
      BY <2>0, Facts
    <3>2. Context(p, c, f)
      BY <2>0, <3>1 DEF Context
    <3>3. Asked(p, c, f) /\ Active(p)
      BY <2>1, <3>2, StepMoves
    <3>4. Alone => StageAt(c, f, Here(p))
      BY <2>0, <3>1, <3>3 DEF AloneInv, Cmd, Here
    <3> QED BY <1>1, <3>3, <3>4 DEF Asked
  <2>2. ASSUME \/ \E p \in Proc : Cancel(p) \/ Kill(p) \/ \E c \in Commands : Launch(p, c)
               \/ (\E o \in {"main", "worktree"} : OtherStarts(o) \/ OtherStops(o)) \/ ConfigureDoclib \/ UNCHANGED vars
        PROVE  Database' = Database
    BY <2>2 DEF Cancel, Kill, Launch, OtherStarts, OtherStops, ConfigureDoclib, vars, Database
  <2>3. ASSUME PostgresInitialised PROVE FALSE
    BY <1>1, <2>3 DEF PostgresInitialised, Precious
  <2>4. ASSUME Boot PROVE Database' = Database
    BY <1>1, <2>4 DEF Boot, Database, Precious, Storage
  <2> QED BY <1>1, <2>1, <2>2, <2>3, <2>4 DEF Next
<1>2. EnvInv /\ [Next]_vars =>
        [(Database \in Precious /\ Database' # Database) => \E p \in Proc : Active(p) /\ Replaces(proc[p])]_vars
  BY <1>1
<1> QED BY <1>2, SpecKeepsInv, PTL DEF Spec, OnlyForceReplaces
=============================================================================
