-------------------------- MODULE MCWorktreeState --------------------------
(***************************************************************************)
(* Small instances of WorktreeState.  Two storages tell a whole clone from *)
(* a mixed one: the database and the deploy cache, the only storage that   *)
(* is never a volume.                                                      *)
(***************************************************************************)
EXTENDS WorktreeState, TLC

CONSTANTS postgres, deployCache

MCSubdirs == <<postgres, deployCache>>
HandOver == {<<FALSE, FALSE>>, <<TRUE, FALSE>>, <<TRUE, TRUE>>}
StopOnly == {<<FALSE, FALSE>>, <<TRUE, FALSE>>}
RestartOnly == {<<TRUE, TRUE>>}

OnDisk == [btrfs |-> FALSE, volumes |-> {}]
InVolumes == [btrfs |-> FALSE, volumes |-> {postgres}]
OnBtrfs == [btrfs |-> TRUE, volumes |-> {}]
RecoverySites == {OnDisk, OnBtrfs}
SnapshotSites == {OnDisk, InVolumes, OnBtrfs}
MainDownSites == {OnDisk}

MCSymmetry == Permutations(Proc)
=============================================================================
