-------------------------- MODULE ClientExtension --------------------------
(***************************************************************************)
(* ldev deploy client-extension: the project is built and deployed, and    *)
(* the log of the portal is read until the bundle has started and every    *)
(* batch file has an outcome; then the bundle and the items of the files   *)
(* are read back.  The portal works at its own pace, may try a file again  *)
(* or stop, and a portal that reads a bundle again writes the same lines.  *)
(* The log, the state of the bundle and the items may fail to be read.     *)
(***************************************************************************)
EXTENDS Integers, Sequences, SequencesExt, FiniteSets, TLC

CONSTANTS Extensions, PortalErrors, ExtensionPolls, ExtensionRuns     \* bounds

\* A line of the log: of the start of the bundle, file 0, or of a batch file.
LogLines == [kind : {"started"}, file : {0}, run : Nat]
            \cup [kind : {"batch-ok", "batch-failed"}, file : Nat \ {0}, run : Nat]
ASSUME ExtensionAssumption ==
  /\ {PortalErrors, ExtensionPolls, ExtensionRuns} \subseteq Nat
  /\ \A x \in Extensions : /\ x.running \in BOOLEAN /\ Len(x.files) \in Nat /\ DOMAIN x.files = 1 .. Len(x.files)
                            /\ x.unreadable \subseteq DOMAIN x.files
                            /\ x.before \in Seq({l \in LogLines : l.run = 0})

VARIABLES extension,    \* the case: files, running, unreadable, before (lines in the log already)
          portalLog,    \* lines [kind, file, run], oldest first
          deployRun, logFrom,   \* the run, and the first line it reads
          installing,   \* what the portal still does: [run, file], file 0 being the start of the bundle
          bundleState,  \* state of the bundle
          itemsStored,  \* file -> its items are in the portal
          events,       \* lines read
          deployPc, logPolls,
          outcome,      \* file -> "imported", "failed" or "pending"
          missing,      \* files whose items were not found
          portalErrors  \* what failed so far: imports, the portal, its shell, a read-back

extensionVars == <<extension, portalLog, deployRun, logFrom, installing, bundleState, itemsStored,
                   events, deployPc, logPolls, outcome, missing, portalErrors>>
BatchFiles == DOMAIN extension.files
PortalSide == <<portalLog, installing, bundleState, itemsStored, portalErrors>>
PortalFails == portalErrors < PortalErrors /\ portalErrors' = portalErrors + 1

-----------------------------------------------------------------------------
Happened(kind) == \E i \in DOMAIN events : events[i].kind = kind
\* The last line of a file, 0 when there is none.
BatchEvent(f) == SelectLastInSeq(events, LAMBDA e : e.kind \in {"batch-ok", "batch-failed"} /\ e.file = f)
Settled == \A f \in BatchFiles : BatchEvent(f) # 0
BatchStatus(f) ==
  IF BatchEvent(f) = 0 THEN "pending" ELSE IF events[BatchEvent(f)].kind = "batch-ok" THEN "imported" ELSE "failed"

\* The log is read from one second before the command, with what the portal wrote in that second.
Deploy ==
  /\ deployPc \in {"start", "ok", "error", "timeout", "offline"} /\ deployRun < ExtensionRuns
  /\ deployRun' = deployRun + 1 /\ logFrom' \in 1 .. Len(portalLog) + 1 /\ events' = <<>> /\ logPolls' = 0
  /\ missing' = {}
  /\ \/ /\ extension.running /\ deployPc' = "poll" /\ outcome' = <<>>
        /\ installing' = installing \o [i \in 1 .. Len(extension.files) + 1 |->
                                         [run |-> deployRun', file |-> i - 1]]
        /\ bundleState' = "Resolved"
     \/ /\ ~extension.running /\ deployPc' = "offline"
        /\ outcome' = [f \in BatchFiles |-> "pending"]
        /\ UNCHANGED <<installing, bundleState>>
  /\ UNCHANGED <<extension, portalLog, itemsStored, portalErrors>>
\* A log that cannot be read is an empty one.
ReadLogs ==
  /\ deployPc = "poll" /\ events' \in {SubSeq(portalLog, logFrom, Len(portalLog)), <<>>} /\ deployPc' = "look"
  /\ UNCHANGED <<extension, PortalSide, deployRun, logFrom, logPolls, outcome, missing>>
BugSettles ==
  /\ deployPc = "look" /\ (Happened("started") \/ Happened("batch-failed")) /\ deployPc' = "bundleState"
  /\ UNCHANGED <<extension, PortalSide, deployRun, logFrom, events, logPolls, outcome, missing>>
\* A file that failed ends the wait, whatever the others did.
Settles ==
  /\ deployPc = "look" /\ ((Happened("started") /\ Settled) \/ Happened("batch-failed")) /\ deployPc' = "bundleState"
  /\ UNCHANGED <<extension, PortalSide, deployRun, logFrom, events, logPolls, outcome, missing>>
PollAgain ==
  /\ deployPc = "look" /\ ~((Happened("started") /\ Settled) \/ Happened("batch-failed"))
  /\ IF logPolls < ExtensionPolls
       THEN deployPc' = "poll" /\ logPolls' = logPolls + 1
       ELSE deployPc' = "timeout" /\ UNCHANGED logPolls
  /\ UNCHANGED <<extension, PortalSide, deployRun, logFrom, events, outcome, missing>>
\* The state of the bundle: it is not there when the shell of the portal cannot be asked.
ReadBundle ==
  /\ deployPc = "bundleState"
  /\ \/ (deployPc' = IF bundleState = "Active" THEN "files" ELSE "inactive") /\ UNCHANGED portalErrors
     \/ PortalFails /\ deployPc' = "inactive"
  /\ outcome' = <<>>
  /\ UNCHANGED <<extension, portalLog, installing, bundleState, itemsStored, deployRun, logFrom, events, logPolls, missing>>
ReadBackItems ==
  /\ deployPc \in {"files", "inactive"}
  /\ \E f \in BatchFiles \ DOMAIN outcome :
       /\ \A g \in BatchFiles \ DOMAIN outcome : f <= g
       /\ outcome' = [g \in DOMAIN outcome \cup {f} |-> IF g = f THEN BatchStatus(f) ELSE outcome[g]]
       /\ missing' = IF f \in extension.unreadable \/ itemsStored[f] THEN missing ELSE missing \cup {f}
  /\ UNCHANGED <<extension, PortalSide, deployRun, logFrom, events, deployPc, logPolls>>
\* A read-back that the portal refuses ends the command.
ReadBackFails ==
  /\ deployPc \in {"files", "inactive"} /\ DOMAIN outcome # BatchFiles /\ PortalFails /\ deployPc' = "error"
  /\ UNCHANGED <<extension, portalLog, installing, bundleState, itemsStored, deployRun, logFrom, events, logPolls, outcome, missing>>
DeployEnds ==
  /\ deployPc \in {"files", "inactive"} /\ DOMAIN outcome = BatchFiles
  /\ deployPc' = IF /\ deployPc = "files" /\ missing = {}
                    /\ \A f \in BatchFiles : outcome[f] # "failed"
                 THEN "ok" ELSE "error"
  /\ UNCHANGED <<extension, PortalSide, deployRun, logFrom, events, logPolls, outcome, missing>>

-----------------------------------------------------------------------------
(* The portal takes the deployments in turn: it starts the bundle and then *)
(* imports its files, each of which may fail, be tried again or be given   *)
(* up; or the bundle does not start, or the portal stops.                  *)
CommandKept == UNCHANGED <<extension, deployRun, logFrom, events, deployPc, logPolls, outcome, missing>>
Work == Head(installing)
Writes(kind) == portalLog' = Append(portalLog, [kind |-> kind, file |-> Work.file, run |-> Work.run])
StartBundle ==
  /\ installing # <<>> /\ Work.file = 0 /\ Writes("started") /\ bundleState' = "Active"
  /\ installing' = Tail(installing)
  /\ CommandKept /\ UNCHANGED <<itemsStored, portalErrors>>
ImportFile ==
  /\ installing # <<>> /\ Work.file # 0
  /\ \/ /\ Writes("batch-ok") /\ installing' = Tail(installing)
        /\ itemsStored' = [itemsStored EXCEPT ![Work.file] = TRUE] /\ UNCHANGED portalErrors
     \/ /\ PortalFails /\ Writes("batch-ok")                          \* items it skipped
        /\ installing' = Tail(installing) /\ UNCHANGED itemsStored
     \/ /\ PortalFails /\ Writes("batch-failed")
        /\ installing' \in {installing, Tail(installing)} /\ UNCHANGED itemsStored
  /\ CommandKept /\ UNCHANGED bundleState
StopPortal ==
  /\ installing # <<>> /\ PortalFails /\ installing' = <<>> /\ bundleState' = "Installed"
  /\ CommandKept /\ UNCHANGED <<portalLog, itemsStored>>

ExtensionStart(pc, run) ==
  /\ extension \in Extensions
  /\ portalLog = extension.before /\ deployRun = run /\ logFrom = 1 /\ installing = <<>>
  /\ bundleState = "Installed"
  /\ itemsStored = [f \in BatchFiles |-> FALSE] /\ events = <<>> /\ deployPc = pc
  /\ logPolls = 0 /\ outcome = <<>> /\ missing = {}
  /\ portalErrors = 0
ExtensionInit == ExtensionStart("start", 0)
ExtensionNext == \/ Deploy \/ ReadLogs \/ Settles \/ PollAgain \/ ReadBundle \/ ReadBackItems \/ ReadBackFails \/ DeployEnds
                 \/ StartBundle \/ ImportFile \/ StopPortal
ExtensionSpec == ExtensionInit /\ [][ExtensionNext]_extensionVars

-----------------------------------------------------------------------------
(* A deployment that is said to be well started its bundle and imported    *)
(* every file, after it was made, and the items of every file that can be  *)
(* read are in the portal; one that is said to have failed met a failure:  *)
(* unless lines of an earlier deployment were read, written just before    *)
(* the command or by a portal still at that deployment, which are taken    *)
(* for those of this one, or a file that failed was imported after all,    *)
(* which leaves the others unawaited.                                      *)
LineOf(kind, f) ==
  \E i \in DOMAIN portalLog :
    i >= logFrom /\ portalLog[i] = [kind |-> kind, file |-> f, run |-> deployRun]
Overlap == \E i \in DOMAIN portalLog : i >= logFrom /\ portalLog[i].run < deployRun
DeploymentIsTrue ==
  /\ deployPc = "ok" =>
       /\ \A f \in BatchFiles : outcome[f] # "failed" /\ (f \in extension.unreadable \/ itemsStored[f])
       /\ ~Overlap /\ ~Happened("batch-failed") =>
            /\ LineOf("started", 0)
            /\ \A f \in BatchFiles : outcome[f] = "imported" /\ LineOf("batch-ok", f)
  /\ deployPc = "error" => portalErrors > 0 \/ Overlap
  /\ deployPc = "offline" => \A f \in BatchFiles : outcome[f] = "pending"
=============================================================================
