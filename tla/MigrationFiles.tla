-------------------------- MODULE MigrationFiles ---------------------------
(***************************************************************************)
(* The files of a migration: the descriptor that `migration-init` derives  *)
(* from the structure of the portal and the local one, which the user then *)
(* fills in, and the definition without the cleaned-up fields that the     *)
(* pipeline derives from the local one.  The local structure changes       *)
(* meanwhile.                                                              *)
(***************************************************************************)
EXTENDS Integers, Sequences, SequencesExt, FiniteSets, TLC

CONSTANTS Migrations, DescriptorRuns      \* bound: commands run

\* A definition: field -> [ref, parent (0 at the top), type, key (of the structure a fieldset takes)], parents first.
ASSUME MigrationAssumption ==
  /\ DescriptorRuns \in Nat
  /\ \A m \in Migrations : \A d \in {m.portal} \cup m.locals : \A f \in DOMAIN d : d[f].parent \in 0 .. f - 1

VARIABLES migration,    \* the case: portal, locals, layout, own (the structure's key), file (a descriptor is there)
          local,        \* the local definition
          descriptor,   \* [by, from, removed, targets, dependents, mappings], or NoDescriptor
          derived,      \* [fields, layout] of the last cleanup
          migrationPc, migrationRuns

migrationVars == <<migration, local, descriptor, derived, migrationPc, migrationRuns>>
NoDescriptor == [by |-> "no one"]
Fields(d) == DOMAIN d
Referred(d) == {f \in Fields(d) : d[f].ref # ""}

-----------------------------------------------------------------------------
\* migration-init.
Nested(d, f) == {g \in Fields(d) : d[g].parent = f}
IsFieldset(d, f) == d[f].type = "fieldset" /\ Nested(d, f) # {}
CollectFieldReferences(d) == {d[f].ref : f \in Referred(d)}
CollectDependents(d) == {d[f].key : f \in {g \in Fields(d) : d[g].type = "fieldset"}} \ {"", migration.own}
\* The fieldset a field is in, through fields that are none; below a field without a reference nothing is visited.
FieldsetOf(d) ==
  LET in[f \in Fields(d)] ==
        LET p == d[f].parent
        IN  IF p = 0 THEN [visited |-> TRUE, base |-> ""]
            ELSE [visited |-> in[p].visited /\ d[p].ref # "", base |-> IF IsFieldset(d, p) THEN d[p].ref ELSE in[p].base]
  IN  in
CollectTargets(d) ==
  {[base |-> FieldsetOf(d)[f].base, field |-> d[f].ref] :
      f \in {g \in Referred(d) : FieldsetOf(d)[g].visited /\ (FieldsetOf(d)[g].base # "" \/ ~IsFieldset(d, g))}}
InitMigration(overwrite) ==
  /\ migrationPc = "idle" /\ migrationRuns < DescriptorRuns /\ migrationRuns' = migrationRuns + 1
  /\ IF descriptor # NoDescriptor /\ ~overwrite THEN UNCHANGED descriptor
     ELSE descriptor' = [by |-> "init", from |-> local, mappings |-> {}, dependents |-> CollectDependents(local),
                         removed |-> CollectFieldReferences(migration.portal) \ CollectFieldReferences(local),
                         targets |-> CollectTargets(local)]
  /\ UNCHANGED <<migration, local, derived, migrationPc>>

(* The user maps a field that was removed to one that is suggested, or      *)
(* changes the local structure.                                             *)
FillIn ==
  /\ migrationPc = "idle" /\ descriptor.by = "init"
  /\ \E s \in descriptor.removed, t \in descriptor.targets, c \in BOOLEAN :
       descriptor' = [descriptor EXCEPT !.by = "user", !.mappings = @ \cup {[source |-> s, target |-> t, cleanupSource |-> c]}]
  /\ UNCHANGED <<migration, local, derived, migrationPc, migrationRuns>>
EditLocalStructure ==
  /\ migrationPc = "idle" /\ local' \in migration.locals \ {local}
  /\ UNCHANGED <<migration, descriptor, derived, migrationPc, migrationRuns>>

-----------------------------------------------------------------------------
(* The pipeline refuses a descriptor without a mapping; its cleanup takes   *)
(* out of the local definition the fields that a mapping cleans up, with    *)
(* what is nested in them, and out of its layout the columns, rows and      *)
(* pages that are left with nothing.                                        *)
CleanupSourceFields == {m.source : m \in {n \in descriptor.mappings : n.cleanupSource}}
RemoveFields(d, sources) ==
  LET gone[f \in Fields(d)] == (d[f].ref # "" /\ d[f].ref \in sources) \/ (d[f].parent # 0 /\ gone[d[f].parent])
  IN  {f \in Fields(d) : ~gone[f]}
BugRemoveColumns(columns, sources) == SelectSeq(columns, LAMBDA c : ToSet(c) \cap sources = {})
RemoveColumns(columns, sources) ==
  SelectSeq([i \in DOMAIN columns |-> SelectSeq(columns[i], LAMBDA n : n \notin sources)], LAMBDA c : c # <<>>)
RemoveRows(rows, sources) == SelectSeq([i \in DOMAIN rows |-> RemoveColumns(rows[i], sources)], LAMBDA r : r # <<>>)
RemovePages(pages, sources) == SelectSeq([i \in DOMAIN pages |-> RemoveRows(pages[i], sources)], LAMBDA p : p # <<>>)
Parses == descriptor # NoDescriptor /\ descriptor.mappings # {}
DeriveCleanup ==
  /\ migrationPc = "idle" /\ migrationRuns < DescriptorRuns /\ migrationRuns' = migrationRuns + 1
  /\ Parses /\ migrationPc' = "done"
  /\ derived' = [fields |-> RemoveFields(local, CleanupSourceFields), layout |-> RemovePages(migration.layout, CleanupSourceFields)]
  /\ UNCHANGED <<migration, local, descriptor>>

MigrationFilesStart(pc, runs) ==
  /\ descriptor = (IF migration.file THEN [by |-> "user", from |-> migration.portal, mappings |-> {}, dependents |-> {},
                                            removed |-> {}, targets |-> {}] ELSE NoDescriptor)
  /\ derived = [fields |-> {}, layout |-> <<>>] /\ migrationPc = pc /\ migrationRuns = runs
MigrationFilesInit == migration \in Migrations /\ local \in migration.locals /\ MigrationFilesStart("idle", 0)
MigrationFilesNext == (\E o \in BOOLEAN : InitMigration(o)) \/ FillIn \/ EditLocalStructure \/ DeriveCleanup
MigrationFilesSpec == MigrationFilesInit /\ [][MigrationFilesNext]_migrationVars

-----------------------------------------------------------------------------
(* A value written to a suggested target goes into the field it names: the  *)
(* first of its name at the top, or in the fieldset at the top.  (Not so    *)
(* below a fieldset of a fieldset, or a field that nests others.)           *)
OneLevel(d) == \A f \in Fields(d) : d[f].parent # 0 => d[d[f].parent].parent = 0 /\ IsFieldset(d, d[f].parent)
WrittenTo(d, t) ==
  IF t.base = "" THEN {f \in Nested(d, 0) : d[f].ref = t.field}
  ELSE {f \in Fields(d) : d[f].ref = t.field /\ d[f].parent # 0 /\ d[d[f].parent].ref = t.base}
TargetsAreFields ==
  descriptor.by = "init" /\ OneLevel(descriptor.from) =>
    /\ \A t \in descriptor.targets : WrittenTo(descriptor.from, t) # {}
    /\ UNION {WrittenTo(descriptor.from, t) : t \in descriptor.targets}
         = {f \in Referred(descriptor.from) :
              /\ ~IsFieldset(descriptor.from, f)
              /\ \/ descriptor.from[f].parent = 0
                 \/ descriptor.from[descriptor.from[f].parent].ref # ""}

(* The definition without the cleaned-up fields keeps every other one, and  *)
(* its layout shows exactly those of them that it showed, in their order,   *)
(* with no empty page, row or column; unless a fieldset was cleaned up,     *)
(* whose fields the layout goes on naming.                                  *)
ShownNames(layout) == FlattenSeq(FlattenSeq(FlattenSeq(layout)))
DerivedIsWhole ==
  migrationPc = "done" =>
    LET cleaned == {f \in Fields(local) : local[f].ref \in CleanupSourceFields}
        within == {f \in Fields(local) : local[f].parent \in cleaned}
        shown == ShownNames(derived.layout)
    IN  /\ \A f \in Fields(local) :
             f \in derived.fields <=>
               f \notin cleaned /\ (local[f].parent = 0 \/ local[f].parent \in derived.fields)
        /\ within = {} =>
             /\ shown = SelectSeq(ShownNames(migration.layout), LAMBDA n : n \notin CleanupSourceFields)
             /\ \A n \in ToSet(shown) \cap CollectFieldReferences(local) :
                  \E f \in derived.fields : local[f].ref = n
        /\ \A i \in DOMAIN derived.layout :
             derived.layout[i] # <<>> /\ \A j \in DOMAIN derived.layout[i] : derived.layout[i][j] # <<>>

(* What migration-init suggests and what the cleanup derives fit the        *)
(* structure they are made from, whatever it has become.                    *)
MigrationFilesAreTrue == TargetsAreFields /\ DerivedIsWhole
=============================================================================
