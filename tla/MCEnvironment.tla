--------------------------- MODULE MCEnvironment ---------------------------
(***************************************************************************)
(* Small instances of Environment.  A site says what may go wrong there:   *)
(* faults with one command at a time, or two commands together.            *)
(***************************************************************************)
EXTENDS Environment, TLC

C(kind, wait, force, task) == [kind |-> kind, wait |-> wait, force |-> force, task |-> task]
S(main, volume, base, inside, gzip, may) ==
  [main |-> main, volume |-> volume, base |-> base, inside |-> inside, gzip |-> gzip, may |-> may]

Terminal == {C("start", TRUE, FALSE, FALSE), C("stop", FALSE, FALSE, FALSE), C("restore", FALSE, FALSE, FALSE),
             C("clean", FALSE, TRUE, FALSE), C("import", FALSE, FALSE, FALSE), C("import", FALSE, TRUE, FALSE)}
Tasks == {C("start", FALSE, FALSE, TRUE), C("restart", TRUE, FALSE, TRUE), C("recreate", TRUE, FALSE, TRUE),
          C("restore", TRUE, FALSE, TRUE), C("sync", FALSE, TRUE, TRUE)}
AllCommands == Terminal \cup Tasks

Faulty == {"kill", "docker", "copy"}
AllSites == {
  S(FALSE, FALSE, FALSE, TRUE, TRUE, Faulty), S(FALSE, TRUE, FALSE, TRUE, TRUE, {"kill", "copy"}),
  S(FALSE, FALSE, TRUE, FALSE, FALSE, {"cancel", "docker"}), S(TRUE, FALSE, FALSE, TRUE, TRUE, {"cancel", "docker", "files"}),
  S(TRUE, TRUE, TRUE, FALSE, FALSE, {"cancel", "download", "kill"}), S(TRUE, FALSE, TRUE, TRUE, TRUE, {"copy", "files"}),
  S(FALSE, TRUE, FALSE, TRUE, TRUE, {"main", "cancel"}), S(TRUE, TRUE, FALSE, TRUE, TRUE, {"worktree", "cancel", "files"}),
  S(FALSE, FALSE, FALSE, TRUE, TRUE, {"together"}), S(TRUE, TRUE, FALSE, TRUE, TRUE, {"together"})}
MCMaxRuns == [s \in AllSites |-> IF "together" \in s.may THEN (IF s.volume THEN 2 ELSE 3)
                             ELSE IF "worktree" \in s.may THEN 3 ELSE 4]

MainOnBtrfs == {S(TRUE, FALSE, TRUE, FALSE, TRUE, {})}
RestoreRuns == [s \in MainOnBtrfs |-> 2]

MCSymmetry == Permutations(Proc)
=============================================================================
