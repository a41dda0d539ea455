-------------------------- MODULE DocumentLibrary --------------------------
(***************************************************************************)
(* The document library of a local environment: downloaded from a backup   *)
(* by a process of its own, in the foreground or detached with a pid file, *)
(* and then mounted as a Docker volume.  Commands may overlap, be killed,  *)
(* or find what an earlier download left behind.                           *)
(***************************************************************************)
EXTENDS Integers, Sequences, SequencesExt, FiniteSets, TLC

CONSTANTS Libraries, LibraryFaults, LibraryKills    \* bounds: steps that fail, commands killed

Bind(d) == [kind |-> "bind", device |-> d]
Nothing == [kind |-> "none", device |-> ""]
Nas == [kind |-> "cifs", device |-> "nas"]

\* A download goes to a directory that is known, and a volume is none, bound or on the NAS.
CommandOK(l, m) ==
  /\ m.op \in {"download", "mount"} /\ m.background \in BOOLEAN /\ {m.backup, m.dest, m.path} \subseteq STRING
  /\ m.op = "download" => m.dest \in DOMAIN l.found
ASSUME LibraryAssumption ==
  /\ {LibraryFaults, LibraryKills} \subseteq Nat
  /\ \A l \in Libraries :
       /\ \A c \in DOMAIN l.clients : /\ Len(l.clients[c]) \in Nat /\ DOMAIN l.clients[c] = 1 .. Len(l.clients[c])
                                      /\ \A i \in DOMAIN l.clients[c] : CommandOK(l, l.clients[c][i])
       /\ l.dirs \subseteq STRING /\ l.latest \in STRING /\ l.nas \in {"none", "incomplete", "full"} /\ l.inUse \in BOOLEAN
       /\ (l.volume \in {Nothing, Nas} \/ l.volume = Bind(l.volume.device))

VARIABLES library,      \* the case: clients, latest, nas, inUse, found, dirs (there without a library), path
          folders,      \* directory -> [of: backups begun there, whole: backups all there]
          loaders,      \* by pid: [alive, ok, dest, backup, detached, started, had: a library was there before]
          pidFile,      \* doclib-download.pid, 0 when there is none
          docPath,      \* DOCLIB_PATH
          volume,       \* [kind, device]
          libPc, libTask, libBackup,    \* of each client
          libOwn,       \* client -> its download's pid, or the mount it chose
          replies,      \* client -> last reply
          volumeWas,    \* the volume when a mount began
          libFaults, libKills

libraryVars == <<library, folders, loaders, pidFile, docPath, volume, libPc, libTask, libOwn, libBackup, replies,
                 volumeWas, libFaults, libKills>>
Clients == DOMAIN library.clients
Command(c) == library.clients[c][libTask[c]]
HasDoclib(d) == d \in DOMAIN folders /\ folders[d].of # {}
Alive(p) == p \in DOMAIN loaders /\ loaders[p].alive
NoReply == [what |-> "none"]

At(c, pc) == libPc[c] = pc
Step(c, pc) == libPc' = [libPc EXCEPT ![c] = pc] /\ UNCHANGED replies
Reply(c, r) == libPc' = [libPc EXCEPT ![c] = "idle"] /\ replies' = [replies EXCEPT ![c] = r]
Refuse(c) == Reply(c, [what |-> "error"])
LibraryFails == libFaults < LibraryFaults /\ libFaults' = libFaults + 1
NoFault == UNCHANGED <<library, libFaults, libKills>>
LibraryKept == UNCHANGED <<folders, loaders, pidFile, docPath, volume, libOwn, libBackup, volumeWas>>

-----------------------------------------------------------------------------
(* files-download: the backup asked for, or the latest that succeeded.      *)
RunCommand(c) ==
  /\ At(c, "idle") /\ libTask[c] < Len(library.clients[c])
  /\ libTask' = [libTask EXCEPT ![c] = @ + 1]
  /\ Step(c, library.clients[c][libTask[c] + 1].op)
  /\ volumeWas' = [volumeWas EXCEPT ![c] = volume]
  /\ NoFault /\ UNCHANGED <<folders, loaders, pidFile, docPath, volume, libOwn, libBackup>>
ResolveBackup(c) ==
  /\ At(c, "download")
  /\ LET b == IF Command(c).backup # "" THEN Command(c).backup ELSE library.latest
     IN  IF b = "" THEN Refuse(c) /\ UNCHANGED libBackup
         ELSE libBackup' = [libBackup EXCEPT ![c] = b] /\ Step(c, IF Command(c).background THEN "checkPid" ELSE "spawn")
  /\ NoFault /\ UNCHANGED <<folders, loaders, pidFile, docPath, volume, libTask, libOwn, volumeWas>>
BugCheckPid(c) == At(c, "checkPid") /\ pidFile' = 0 /\ Step(c, "spawn") /\ NoFault
                  /\ UNCHANGED <<folders, loaders, docPath, volume, libTask, libOwn, libBackup,
                                 volumeWas>>
CheckPid(c) ==
  /\ At(c, "checkPid")
  /\ IF Alive(pidFile) THEN Reply(c, [what |-> "pending"]) /\ UNCHANGED pidFile
     ELSE pidFile' = 0 /\ Step(c, "spawn")
  /\ NoFault /\ UNCHANGED <<folders, loaders, docPath, volume, libTask, libOwn, libBackup, volumeWas>>
Spawn(c) ==
  /\ At(c, "spawn")
  /\ loaders' = Append(loaders, [alive |-> TRUE, ok |-> FALSE, dest |-> Command(c).dest, backup |-> libBackup[c],
                                 detached |-> Command(c).background, started |-> FALSE,
                                 had |-> HasDoclib(Command(c).dest)])
  /\ libOwn' = [libOwn EXCEPT ![c] = Len(loaders) + 1]
  /\ Step(c, IF Command(c).background THEN "writePid" ELSE "wait")
  /\ NoFault /\ UNCHANGED <<folders, pidFile, docPath, volume, libTask, libBackup, volumeWas>>
WritePid(c) ==
  /\ At(c, "writePid") /\ pidFile' = libOwn[c] /\ Step(c, "poll")
  /\ NoFault /\ UNCHANGED <<folders, loaders, docPath, volume, libTask, libOwn, libBackup, volumeWas>>

(* A download that ended well has its directory, or the place it was given  *)
(* when there is none below it.                                             *)
DownloadEnds(c) ==
  /\ At(c, "wait") /\ ~Alive(libOwn[c])
  /\ LET d == Command(c).dest
     IN  IF ~loaders[libOwn[c]].ok THEN Refuse(c) /\ UNCHANGED docPath
         ELSE /\ docPath' = IF HasDoclib(d) THEN d ELSE docPath
              /\ Reply(c, [what |-> "downloaded", path |-> d, backup |-> libBackup[c], own |-> libOwn[c]])
  /\ NoFault /\ UNCHANGED <<folders, loaders, pidFile, volume, libTask, libOwn, libBackup, volumeWas>>
(* A detached one is left as soon as a directory is there, whoever made it. *)
DownloadBegins(c) ==
  /\ At(c, "poll") /\ (HasDoclib(Command(c).dest) \/ ~Alive(libOwn[c]))
  /\ IF HasDoclib(Command(c).dest)
     THEN /\ docPath' = Command(c).dest /\ UNCHANGED pidFile
          /\ Reply(c, [what |-> "background", path |-> Command(c).dest, backup |-> libBackup[c], own |-> libOwn[c]])
     ELSE pidFile' = 0 /\ Refuse(c) /\ UNCHANGED docPath
  /\ NoFault /\ UNCHANGED <<folders, loaders, volume, libTask, libOwn, libBackup, volumeWas>>
DownloadTimesOut(c) ==
  /\ At(c, "poll") /\ ~HasDoclib(Command(c).dest) /\ Alive(libOwn[c])
  /\ loaders' = [loaders EXCEPT ![libOwn[c]].alive = FALSE] /\ pidFile' = 0 /\ Refuse(c)
  /\ NoFault /\ UNCHANGED <<folders, docPath, volume, libTask, libOwn, libBackup, volumeWas>>

(* The LCP process: it makes the directory, fills it, and may fail.         *)
LoaderRuns(p) ==
  /\ Alive(p)
  /\ LET l == loaders[p]
     IN  \/ /\ ~l.started /\ folders' = [folders EXCEPT ![l.dest].of = @ \cup {l.backup}]
            /\ loaders' = [loaders EXCEPT ![p].started = TRUE] /\ UNCHANGED libFaults
         \/ /\ l.started /\ folders' = [folders EXCEPT ![l.dest].whole = @ \cup {l.backup}]
            /\ loaders' = [loaders EXCEPT ![p].alive = FALSE, ![p].ok = TRUE] /\ UNCHANGED libFaults
         \/ LibraryFails /\ loaders' = [loaders EXCEPT ![p].alive = FALSE] /\ UNCHANGED folders
  /\ UNCHANGED <<library, pidFile, docPath, volume, libPc, libTask, libOwn, libBackup, replies,
                 volumeWas, libKills>>

-----------------------------------------------------------------------------
(* files-mount: a path that exists, with a library in it or not, else the   *)
(* NAS, else the default directory, which is reported although a NAS volume *)
(* is left as it is.                                                        *)
MountPath(c) == IF Command(c).path # "" THEN Command(c).path ELSE docPath
PathExists(c) == MountPath(c) # "" /\ (MountPath(c) \in library.dirs \/ HasDoclib(MountPath(c)))
Mount(mode, v) == [mode |-> mode, device |-> v]
Device(c) == IF PathExists(c) THEN Mount("local", Bind(MountPath(c)))
             ELSE IF library.nas # "none" THEN Mount("nas", Nas) ELSE Mount("default", Bind("default"))
MountReply(m) == [what |-> "mounted", mode |-> m.mode, device |-> m.device]
ChooseVolume(c) ==
  /\ At(c, "mount")
  /\ LET m == Device(c)
     IN  CASE m.mode = "nas" /\ library.nas = "incomplete" -> Refuse(c) /\ UNCHANGED libOwn
           [] m.mode = "default" /\ (volume.kind = "cifs" \/ volume = m.device) -> Reply(c, MountReply(m)) /\ UNCHANGED libOwn
           [] OTHER -> Step(c, "remove") /\ libOwn' = [libOwn EXCEPT ![c] = m]
  /\ NoFault /\ UNCHANGED <<folders, loaders, pidFile, docPath, volume, libTask, libBackup, volumeWas>>
RemoveVolume(c) ==
  /\ At(c, "remove")
  /\ IF volume.kind # "none" /\ library.inUse THEN Refuse(c) /\ UNCHANGED volume
     ELSE volume' = Nothing /\ Step(c, "create")
  /\ NoFault /\ UNCHANGED <<folders, loaders, pidFile, docPath, libTask, libOwn, libBackup, volumeWas>>
(* Docker takes a volume that is there already as it is.                    *)
CreateVolume(c) ==
  /\ At(c, "create")
  /\ \/ LibraryFails /\ Refuse(c) /\ UNCHANGED volume
     \/ /\ volume' = (IF volume.kind = "none" THEN libOwn[c].device ELSE volume) /\ UNCHANGED libFaults
        /\ IF libOwn[c].mode = "local" THEN Step(c, "savePath") ELSE Reply(c, MountReply(libOwn[c]))
  /\ UNCHANGED <<library, folders, loaders, pidFile, docPath, libTask, libOwn, libBackup,
                 volumeWas, libKills>>
SavePath(c) ==
  /\ At(c, "savePath") /\ docPath' = libOwn[c].device.device
  /\ Reply(c, MountReply(libOwn[c]))
  /\ NoFault /\ UNCHANGED <<folders, loaders, pidFile, volume, libTask, libOwn, libBackup, volumeWas>>

(* A command is killed; what it spawned goes on.                            *)
KillCommand(c) ==
  /\ libKills < LibraryKills /\ libKills' = libKills + 1 /\ ~At(c, "idle")
  /\ Reply(c, [what |-> "killed"])
  /\ LibraryKept /\ UNCHANGED <<library, libTask, libFaults>>

LibraryStart(pc, faults, kills) ==
  /\ library \in Libraries
  /\ folders = [d \in DOMAIN library.found |-> [of |-> library.found[d], whole |-> library.found[d]]]
  /\ loaders = <<>> /\ pidFile = 0 /\ docPath = library.path /\ volume = library.volume
  /\ libPc = [c \in Clients |-> pc] /\ libTask = [c \in Clients |-> 0] /\ libOwn = [c \in Clients |-> 0]
  /\ libBackup = [c \in Clients |-> ""] /\ replies = [c \in Clients |-> NoReply]
  /\ volumeWas = [c \in Clients |-> library.volume] /\ libFaults = faults /\ libKills = kills
LibraryInit == LibraryStart("idle", 0, 0)
LibraryNext ==
  \/ \E c \in Clients :
       \/ RunCommand(c) \/ ResolveBackup(c) \/ CheckPid(c) \/ Spawn(c) \/ WritePid(c) \/ DownloadEnds(c) \/ DownloadBegins(c)
       \/ DownloadTimesOut(c) \/ ChooseVolume(c) \/ RemoveVolume(c) \/ CreateVolume(c) \/ SavePath(c) \/ KillCommand(c)
  \/ \E p \in DOMAIN loaders : LoaderRuns(p)
LibrarySpec == LibraryInit /\ [][LibraryNext]_libraryVars

-----------------------------------------------------------------------------
(* DOCLIB_PATH names a directory with a library in it, or one that is there *)
(* and that a mount was asked for; and what a download in the foreground    *)
(* says is downloaded is all there.                                         *)
AskedFor(d) == /\ d \in library.dirs
               /\ \E c \in Clients : \E i \in 1 .. libTask[c] : library.clients[c][i].op = "mount" /\ library.clients[c][i].path = d
PathIsSound(d) == d # library.path => HasDoclib(d) \/ AskedFor(d)
PathHasLibrary ==
  /\ PathIsSound(docPath)
  /\ \A c \in Clients : replies[c].what = "downloaded" => replies[c].backup \in folders[replies[c].path].whole

(* Commands that do not overlap and are not killed leave at most one        *)
(* detached download running, and the pid file names it.  One that says it  *)
(* has begun has begun, unless a library was there before.                  *)
OneDownload ==
  Clients = {1} /\ libKills = 0 =>
    /\ Cardinality({p \in DOMAIN loaders : loaders[p].alive /\ loaders[p].detached}) <= 1
    /\ \A p \in DOMAIN loaders : loaders[p].alive /\ loaders[p].detached => p = pidFile \/ libPc[1] = "writePid"
    /\ \A c \in Clients : replies[c].what = "background" =>
         loaders[replies[c].own].started \/ loaders[replies[c].own].had

(* A mount that fails leaves the volume as it was, or none; one that ends   *)
(* well leaves the device it reports, or, when that is the default, the NAS *)
(* volume that was there; and it saved the path that it mounted.  A NAS     *)
(* volume gives way only to the NAS or to a directory that is there.        *)
MountIsWhole ==
  Clients = {1} =>
    \A c \in Clients : libTask[c] > 0 /\ Command(c).op = "mount" /\ libPc[c] = "idle" =>
      /\ replies[c].what = "error" => volume \in {volumeWas[c], Nothing}
      /\ replies[c].what = "error" /\ library.inUse => volume = volumeWas[c]
      /\ replies[c].what = "mounted" =>
           /\ \/ volume = replies[c].device
              \/ replies[c].mode = "default" /\ volume = volumeWas[c] /\ volumeWas[c].kind = "cifs"
           /\ replies[c].mode = "local" => docPath = volume.device
           /\ volumeWas[c].kind = "cifs" /\ library.nas = "none" =>
                volume = volumeWas[c] \/ HasDoclib(volume.device) \/ volume.device \in library.dirs

(* The commands of the document library: the path that is saved is there,  *)
(* one download runs at a time, and a mount is whole or reported.           *)
LibraryIsFaithful == PathHasLibrary /\ OneDownload /\ MountIsWhole
=============================================================================
