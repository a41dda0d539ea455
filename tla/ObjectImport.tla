---------------------------- MODULE ObjectImport ----------------------------
(***************************************************************************)
(* `ldev resource import-object` and `import-picklist`, given again after  *)
(* a failure, and the exports that write their files.  Both go through the *)
(* import engine: find by ERC, validate, save in one request, then bring   *)
(* one part after the other (the relationships of an object, the entries   *)
(* of a picklist) in line with a fresh read, and read back.                *)
(*                                                                         *)
(* An artifact is [exists, approved, props, fields, parts]: the fields of  *)
(* an object by name and its parts by name or key, each with its ERC       *)
(* (NoErc: the file declares none).  A bundle of properties is a function  *)
(* from the keys it declares to their values, without what normalization   *)
(* drops (ids, audit data, derived keys).                                  *)
(***************************************************************************)
EXTENDS Integers, FiniteSets, Sequences, SequencesExt, TLC

CONSTANTS ObjectCases, ObjectFaults,   \* bound: requests refused or answers lost
          ObjectRuns, ObjectEdits      \* bounds: runs; additions by another user

NoErc == ""

(* What the portal can hold: each field and each part has an ERC of its     *)
(* own, and what does not exist has no fields and no parts.                 *)
Bundle(props) == props \in [DOMAIN props -> STRING]
ItemOK(i) == i = [erc |-> i.erc, props |-> i.props] /\ i.erc \in STRING /\ Bundle(i.props)
ItemsOK(items) ==
  /\ items = [n \in DOMAIN items |-> items[n]]
  /\ \A n \in DOMAIN items : ItemOK(items[n]) /\ items[n].erc # NoErc
  /\ \A n, m \in DOMAIN items : items[n].erc = items[m].erc => n = m
ArtifactOK(a) ==
  /\ DOMAIN a = {"exists", "approved", "props", "fields", "parts"}
  /\ Bundle(a.props) /\ ItemsOK(a.fields) /\ ItemsOK(a.parts)
  /\ ~a.exists => DOMAIN a.fields = {} /\ DOMAIN a.parts = {}
ObjectCaseOK(c) ==
  /\ DOMAIN c = {"opt", "file", "portal", "manages", "stores", "others"}
  /\ DOMAIN c.opt = {"type", "check", "create", "breaking", "export", "key"}
  /\ c.opt.type \in {"object", "picklist"} /\ c.manages \in BOOLEAN
  /\ c.opt.type = "picklist" => c.file.fields = <<>> /\ c.portal.fields = <<>>
  /\ DOMAIN c.file = {"erc", "valid", "props", "fields", "parts"} /\ ArtifactOK(c.portal)
  /\ NoErc \notin DOMAIN c.file.parts

ASSUME ObjectAssumption ==
  /\ \A c \in ObjectCases : ObjectCaseOK(c)
  /\ {ObjectFaults, ObjectRuns, ObjectEdits} \subseteq Nat

VARIABLES obj,        \* the case
          remote,     \* the artifact in the portal
          file,       \* the local file
          objPc,
          first,      \* as the engine found it
          seen,       \* the parts, read after the artifact was saved
          todo, surplus,  \* parts to bring in line, and picklist entries to delete
          added,      \* names another user added since the run began
          spent,      \* the run met a fault, or another user
          objectRuns, objectFaults

objectVars == <<obj, remote, file, objPc, first, seen, todo, surplus, added, spent, objectRuns, objectFaults>>
ObjOpt == obj.opt
IsObject == ObjOpt.type = "object"

-----------------------------------------------------------------------------
(* Local is authoritative for every key it declares: isSubset.              *)
Declares(local, portal) == \A k \in DOMAIN local : k \in DOMAIN portal /\ portal[k] = local[k]
Over(part, whole) == [k \in DOMAIN part \cup DOMAIN whole |-> IF k \in DOMAIN part THEN part[k] ELSE whole[k]]
NamedOnly(part, whole) == DOMAIN part \ DOMAIN whole
Agrees(local, items, n) == n \in DOMAIN items /\ local.erc \in {NoErc, items[n].erc} /\ Declares(local.props, items[n].props)

(* The changes that are reported, or found pending by the read-back:        *)
(* removals are of fields and picklist entries, never of relationships.     *)
Removals(a) == NamedOnly(a.fields, file.fields)
               \cup IF IsObject THEN {} ELSE NamedOnly(a.parts, file.parts)
Pending(a) ==
  \/ ~Declares(file.props, a.props)
  \/ \E n \in DOMAIN file.fields : ~Agrees(file.fields[n], a.fields, n)
  \/ \E n \in DOMAIN file.parts : ~Agrees(file.parts[n], a.parts, n)
  \/ Removals(a) # {}

(* What is checked before anything is changed.  others are the ERCs of the  *)
(* other definitions and picklists; a relationship to itself has its target *)
(* once the definition exists.                                              *)
Targets == {file.parts[n].props["to"] : n \in DOMAIN file.parts} \ {file.erc}
Picklists == {file.fields[n].props["list"] : n \in {m \in DOMAIN file.fields :
                                                     "list" \in DOMAIN file.fields[m].props}}
BugMayRemove == TRUE
MayRemove == ObjOpt.breaking \/ ~first.exists \/ Removals(first) = {}
Valid == /\ MayRemove
         /\ IsObject => Picklists \cup Targets \subseteq obj.others

-----------------------------------------------------------------------------
(* The body of the PUT: what has no ERC in the file takes the remote one of *)
(* its name, and relationships that only the portal has are sent back.      *)
WithErc(n, local, known) ==
  [erc |-> IF local.erc = NoErc /\ n \in DOMAIN known THEN known[n].erc ELSE local.erc, props |-> local.props]
CompleteFields == [n \in DOMAIN file.fields |-> WithErc(n, file.fields[n], first.fields)]
BugCompleteParts == file.parts
CompleteParts ==
  IF IsObject /\ first.exists
    THEN Over([n \in DOMAIN file.parts |-> WithErc(n, file.parts[n], first.parts)], first.parts)
    ELSE file.parts

(* The portal matches the fields and relationships of a body by ERC and     *)
(* deletes those that are missing from it.  It refuses a new field with the *)
(* name of another, and an ERC given twice.  What stays of the parts is     *)
(* updated, and a new part made, only if "manages"; entries go by key.      *)
Stored(props) == [k \in DOMAIN props |-> obj.stores[props[k]]]
SameErc(item, items) == {m \in DOMAIN items : items[m].erc = item.erc}
Twice(body) == \E n, m \in DOMAIN body : n # m /\ body[n].erc = body[m].erc /\ body[n].erc # NoErc
PutRefused ==
  \/ \E n \in DOMAIN file.fields : SameErc(CompleteFields[n], remote.fields) = {} /\ n \in DOMAIN remote.fields
  \/ Twice(CompleteFields)
  \/ IsObject /\ Twice(CompleteParts)
SavedItem(n, item, olds) ==
  LET old == CHOOSE o \in olds : TRUE IN
  [erc |-> IF item.erc # NoErc THEN item.erc ELSE IF olds = {} THEN n ELSE old.erc,
   props |-> Over(Stored(item.props), IF olds = {} THEN <<>> ELSE old.props)]
ByErc(body, items) ==
  [n \in DOMAIN body |-> SavedItem(n, body[n], {items[m] : m \in SameErc(body[n], items)})]
OfKey(n, item, items) == SavedItem(n, item, {items[m] : m \in {n} \cap DOMAIN items})
KeptParts == {n \in DOMAIN remote.parts :
                \E m \in DOMAIN CompleteParts : CompleteParts[m].erc = remote.parts[n].erc}
PutParts ==
  IF IsObject
    THEN IF obj.manages THEN ByErc(CompleteParts, remote.parts) ELSE [n \in KeptParts |-> remote.parts[n]]
    ELSE IF obj.manages THEN [n \in DOMAIN file.parts |-> OfKey(n, file.parts[n], remote.parts)] ELSE remote.parts
Put == [remote EXCEPT !.props = Over(Stored(file.props), remote.props),
                      !.fields = ByErc(CompleteFields, remote.fields),
                      !.parts = PutParts]
Posted == [exists |-> TRUE, approved |-> FALSE, props |-> Stored(file.props),
           fields |-> ByErc(CompleteFields, remote.fields),
           parts |-> IF IsObject \/ ~obj.manages THEN <<>>
                     ELSE [n \in DOMAIN file.parts |-> OfKey(n, file.parts[n], remote.parts)]]

-----------------------------------------------------------------------------
ObjectStart(pc) ==
  /\ obj \in ObjectCases
  /\ remote = obj.portal /\ file = obj.file
  /\ objPc = pc /\ first = obj.portal /\ seen = <<>> /\ todo = {} /\ surplus = {}
  /\ added = {} /\ spent = FALSE /\ objectRuns = 0 /\ objectFaults = 0
ObjectInit == ObjectStart("start")

Fails == /\ objectFaults < ObjectFaults /\ objectFaults' = objectFaults + 1
         /\ spent' = TRUE /\ objPc' = "failed"

(* Export writes the portable shape: its own fields, forward relationships. *)
ExportObject ==
  /\ objPc = "start" /\ ObjOpt.export
  /\ IF remote.exists
       THEN objPc' = "ready" /\ file' = [file EXCEPT !.props = remote.props, !.fields = remote.fields,
                                                     !.parts = remote.parts, !.valid = TRUE]
       ELSE objPc' = "error" /\ UNCHANGED file
  /\ UNCHANGED <<obj, remote, first, seen, todo, surplus, added, spent, objectRuns, objectFaults>>

ResolveFile ==
  /\ \/ objPc = "ready"
     \/ objPc = "start" /\ ~ObjOpt.export
  /\ objPc' = IF file.valid /\ ObjOpt.key \in {"", file.erc} THEN "find" ELSE "error"
  /\ objectRuns' = objectRuns + 1 /\ added' = {} /\ spent' = FALSE
  /\ UNCHANGED <<obj, remote, file, first, seen, todo, surplus, objectFaults>>

FindArtifact ==
  /\ objPc = "find" /\ first' = remote
  /\ objPc' = IF remote.exists THEN "validate" ELSE IF ~ObjOpt.create THEN "error"
              ELSE IF ObjOpt.check /\ ~IsObject THEN "missing" ELSE "validate"
  /\ UNCHANGED <<obj, remote, file, seen, todo, surplus, added, spent, objectRuns, objectFaults>>

ValidateArtifact ==
  /\ objPc = "validate"
  /\ objPc' = IF ~Valid THEN "error" ELSE IF ~ObjOpt.check THEN "save"
              ELSE IF first.exists THEN "checked" ELSE "missing"
  /\ UNCHANGED <<obj, remote, file, first, seen, todo, surplus, added, spent, objectRuns, objectFaults>>

(* The answer of the save says whether the definition is published.         *)
SaveArtifact ==
  /\ objPc = "save"
  /\ IF first.exists
       THEN IF PutRefused THEN objPc' = "error" /\ UNCHANGED remote
            ELSE remote' = Put /\ objPc' = IF IsObject /\ ~remote.approved THEN "publish" ELSE "list"
       ELSE remote' = Posted /\ objPc' = IF IsObject THEN "publish" ELSE "list"
  /\ UNCHANGED <<obj, file, first, seen, todo, surplus, added, spent, objectRuns, objectFaults>>

PublishObject ==
  /\ objPc = "publish" /\ remote' = [remote EXCEPT !.approved = TRUE] /\ objPc' = "list"
  /\ UNCHANGED <<obj, file, first, seen, todo, surplus, added, spent, objectRuns, objectFaults>>

ListParts ==
  /\ objPc = "list" /\ seen' = remote.parts /\ objPc' = "parts"
  /\ todo' = DOMAIN file.parts
  /\ surplus' = IF IsObject THEN {} ELSE NamedOnly(remote.parts, file.parts)
  /\ UNCHANGED <<obj, remote, file, first, added, spent, objectRuns, objectFaults>>

(* A part that already matches needs no request.                            *)
UpToDate(n) == Agrees(file.parts[n], seen, n)
WithPart(n) ==
  [remote EXCEPT !.parts = Over([m \in {n} |-> OfKey(n, file.parts[n], seen)], remote.parts)]
ReconcilePart(n) ==
  /\ objPc = "parts" /\ n \in todo
  /\ todo' = todo \ {n}
  /\ remote' = IF UpToDate(n) THEN remote ELSE WithPart(n)
  /\ UNCHANGED <<obj, file, objPc, first, seen, surplus, added, spent, objectRuns, objectFaults>>

DeleteEntry(n) ==
  /\ objPc = "parts" /\ todo = {} /\ n \in surplus
  /\ surplus' = surplus \ {n}
  /\ remote' = [remote EXCEPT !.parts = [m \in DOMAIN remote.parts \ {n} |-> remote.parts[m]]]
  /\ UNCHANGED <<obj, file, objPc, first, seen, todo, added, spent, objectRuns, objectFaults>>

(* The read-back finds the artifact, which nobody deletes here.             *)
ReadBack ==
  /\ objPc = "parts" /\ todo = {} /\ surplus = {}
  /\ objPc' = IF Pending(remote) THEN "mismatch" ELSE "ok"
  /\ UNCHANGED <<obj, remote, file, first, seen, todo, surplus, added, spent, objectRuns, objectFaults>>

(* A request is refused, or done with its answer lost.                      *)
RequestFails ==
  /\ objPc \in {"find", "validate", "save", "publish", "list", "parts"} /\ Fails
  /\ remote' \in {remote} \cup
       CASE objPc = "save" -> IF ~first.exists THEN {Posted} ELSE IF PutRefused THEN {} ELSE {Put}
         [] objPc = "publish" -> {[remote EXCEPT !.approved = TRUE]}
         [] objPc = "parts" -> {WithPart(n) : n \in {m \in todo : ~UpToDate(m)}}
         [] OTHER -> {}
  /\ UNCHANGED <<obj, file, first, seen, todo, surplus, added, objectRuns>>

ObjectOver == objPc \in {"ok", "checked", "missing", "mismatch", "failed", "error", "off"}
ImportObjectAgain ==
  /\ objPc \in {"ok", "mismatch", "failed"} /\ 1 <= objectRuns /\ objectRuns < ObjectRuns
  /\ objPc' = "ready"
  /\ UNCHANGED <<obj, remote, file, first, seen, todo, surplus, added, spent, objectRuns, objectFaults>>

(* Another user adds a part while the command runs.                         *)
UserAdds(n) ==
  /\ ~ObjectOver /\ objPc \notin {"start", "ready"} /\ remote.exists
  /\ Cardinality(added) < ObjectEdits /\ n \notin DOMAIN remote.parts
  /\ remote' = [remote EXCEPT !.parts = Over([m \in {n} |-> [erc |-> n, props |-> [to |-> "self"]]], remote.parts)]
  /\ added' = added \cup {n} /\ spent' = TRUE
  /\ UNCHANGED <<obj, file, objPc, first, seen, todo, surplus, objectRuns, objectFaults>>

ObjectStep == \/ ExportObject \/ ResolveFile \/ FindArtifact \/ ValidateArtifact \/ SaveArtifact
              \/ PublishObject \/ ListParts \/ ReadBack
              \/ \E n \in todo : ReconcilePart(n)
              \/ \E n \in surplus : DeleteEntry(n)
ObjectNext == ObjectStep \/ RequestFails \/ ImportObjectAgain \/ UserAdds("mine")
ObjectSpec == ObjectInit /\ [][ObjectNext]_objectVars /\ WF_objectVars(ObjectStep)

-----------------------------------------------------------------------------
(* Whatever fails, and however often the command is given: no field and no  *)
(* picklist entry that the command had read is deleted unless it may break, *)
(* and of an object every relationship that it had read is still there, as  *)
(* the same one, unless the file gives its name another ERC.  Entries that  *)
(* are deleted although it may not break are those that another user added  *)
(* after they had been compared.                                            *)
Replaced == {n \in DOMAIN file.parts \cap DOMAIN first.parts :
               file.parts[n].erc \notin {NoErc, first.parts[n].erc}}
StillThere(n) == n \in DOMAIN remote.parts /\ remote.parts[n].erc = first.parts[n].erc
NothingLost ==
  objPc \notin {"start", "ready", "off"} =>
    /\ ~ObjOpt.breaking => DOMAIN first.fields \subseteq DOMAIN remote.fields
    /\ ~ObjOpt.breaking /\ ~IsObject => /\ DOMAIN first.parts \subseteq DOMAIN remote.parts
                                        /\ objPc = "parts" => surplus \subseteq added
    /\ IsObject => \A n \in DOMAIN first.parts \ Replaced : StillThere(n)

(* A run that meets neither a fault nor another user brings the portal in   *)
(* line with a file that it accepts, whatever earlier runs left half done.  *)
Storable(props) == \A k \in DOMAIN props : obj.stores[props[k]] = props[k]
AllStorable == /\ Storable(file.props)
               /\ \A n \in DOMAIN file.fields : Storable(file.fields[n].props)
               /\ \A n \in DOMAIN file.parts : Storable(file.parts[n].props)
Converges ==
  /\ objPc = "ok" => remote.exists /\ (IsObject => remote.approved) /\ ~Pending(remote)
  /\ objPc = "mismatch" => spent \/ ~AllStorable

(* The import of an export of the same portal finds nothing to change.      *)
ExportChangesNothing ==
  ObjOpt.export /\ objectRuns = 1 /\ objectFaults = 0 /\ added = {} /\ AllStorable
  => [remote EXCEPT !.approved = TRUE] = [obj.portal EXCEPT !.approved = TRUE]

(* Imports of objects and picklists lose nothing that they do not announce, *)
(* get to the file in the end, and undo no export.                          *)
ObjectsAreFaithful == NothingLost /\ Converges /\ ExportChangesNothing
=============================================================================
