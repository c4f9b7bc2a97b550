---------------------------- MODULE SchemaCache -----------------------------
(***************************************************************************)
(* The engine's copy of the registry and the schema files, kept fresh by a *)
(* comparison of stamps (mtime and size) at the entry of every operation   *)
(* under the write lock, and the index rows that depend on it: a sweep     *)
(* rebuilds the rows of a type whose indexed fields changed since the      *)
(* fingerprint stored in the backend.                                      *)
(*                                                                         *)
(* Operations are serial (WriteMutex). Everything between two awaits is    *)
(* one step; people and other processes edit the files between any two. A  *)
(* file's stamp changes with every edit. What a schema says is reduced to  *)
(* its fingerprint and the types its fields refer to.                      *)
(***************************************************************************)
EXTENDS Naturals, FiniteSets

CONSTANTS
  Types,      \* document types the registry can declare
  Docs,       \* documents, whose files always exist
  TypeOf,     \* the type of each document
  Schemas,    \* contents a schema file can have: [fp, targets]
  Invalid,    \* a file that does not parse, or breaks a rule of its own
  Missing,    \* a file that is not there
  Contents,   \* contents a document can have
  Garbled,    \* a document that does not index
  NoRow, NoFp,
  MaxEdits    \* bound on the edits of registry and schemas

ASSUME TypeOfAssumption == TypeOf \in [Docs -> Types]
ASSUME SchemasAssumption == \A s \in Schemas : s.targets \subseteq Types
ASSUME MissingAssumption == Missing \notin Schemas
ASSUME MaxEditsAssumption == MaxEdits \in Nat

Registries == SUBSET Types
Stamps     == 0..MaxEdits
Uncached   == MaxEdits + 1
Fps        == {s.fp : s \in Schemas}

VARIABLES
  regFile,     \* _registry/object_types.yaml: [text, stamp]
  schemaFile,  \* _schema/<type>.yaml of each type: [text, stamp]
  docFile,     \* the document files
  edits,       \* how often registry and schemas were edited
  registry,    \* MaadEngine.registry: [types, stamp it was read at]
  schemas,     \* MaadEngine.schemaStore: for each type [schema, stamp it was read at]
  cached,      \* schemaStore.cachedFiles: for the registry and the schemas
  ready,       \* MaadEngine.initialized
  load,        \* loadRegistry() and loadSchemas() in progress
  op,          \* the operation that has the write lock
  row,         \* documents and field_index: [hash, fp of the schema it was built under]
  stored,      \* the fingerprint of each type in the backend's meta table
  mixed        \* for the properties: types of which a row was built under
               \* another fingerprint than the stored one since that was stored

files  == <<regFile, schemaFile, edits>>
memory == <<registry, schemas, cached, ready>>
index  == <<row, stored, mixed>>
vars   == <<files, docFile, memory, load, op, index>>

NoSchema == [text |-> Missing, stamp |-> 0]
NoLoad == [pc |-> "idle", types |-> {}, regStamp |-> 0, regCached |-> Uncached, todo |-> {},
           got |-> [t \in Types |-> NoSchema], stamps |-> [t \in Types |-> Uncached]]
NoOp   == [pc |-> "idle", kind |-> "none", edited |-> FALSE, failed |-> FALSE,
           dirty |-> {}, todo |-> {}, errors |-> {}]

Kinds == {"write", "reindex", "force", "reload", "init"}

Cached == Stamps \union {Uncached}
Loads  == [pc : {"idle", "start", "statReg", "schemas", "statSchema"},
           types : Registries, regStamp : Stamps, regCached : Cached, todo : Registries,
           got : [Types -> [text : Schemas \union {Missing}, stamp : Stamps]],
           stamps : [Types -> Cached]]
Ops    == [pc : {"idle", "load", "body", "sweep"}, kind : Kinds \union {"none"},
           edited : BOOLEAN, failed : BOOLEAN,
           dirty : Registries, todo : SUBSET Docs, errors : SUBSET Docs]

TypeOK ==
  /\ regFile \in [text : Registries \union {Invalid, Missing}, stamp : Stamps]
  /\ schemaFile \in [Types -> [text : Schemas \union {Invalid, Missing}, stamp : Stamps]]
  /\ docFile \in [Docs -> Contents \union {Garbled}]
  /\ edits \in Stamps
  /\ registry \in [types : Registries, stamp : Stamps]
  /\ schemas \in [Types -> [text : Schemas \union {Missing}, stamp : Stamps]]
  /\ cached \in [reg : Cached, of : [Types -> Cached]]
  /\ ready \in BOOLEAN
  /\ load \in Loads
  /\ op \in Ops
  /\ row \in [Docs -> [hash : Contents, fp : Fps] \union {NoRow}]
  /\ stored \in [Types -> Fps \union {NoFp}]
  /\ mixed \in SUBSET Types

(* ---- isStale() ----------------------------------------------------------------- *)

\* Mutant of Stale: only the schema files are cached.
StaleSchemas == \E t \in Types : cached.of[t] # Uncached /\
  (schemaFile[t].text = Missing \/ schemaFile[t].stamp # cached.of[t])

\* A cached file that is gone, or has another stamp. Files that were not
\* cached are not looked at.
Changed(file, stamp) == stamp # Uncached /\ (file.text = Missing \/ file.stamp # stamp)

Stale ==
  \/ Changed(regFile, cached.reg)
  \/ \E t \in Types : Changed(schemaFile[t], cached.of[t])

(* ---- Operations under the write lock ---------------------------------------------- *)

\* runExclusive(): the files are compared, and read again when stale. reload()
\* closes the engine and reads them in any case.
Begin(kind) ==
  /\ op.pc = "idle"
  /\ ready
  /\ kind # "init"
  /\ \/ (Stale \/ kind = "reload") /\ load' = [NoLoad EXCEPT !.pc = "start"]
        /\ op' = [NoOp EXCEPT !.pc = "load", !.kind = kind]
     \/ ~Stale /\ kind # "reload" /\ load' = load
        /\ op' = [NoOp EXCEPT !.pc = "body", !.kind = kind]
  /\ ready' = (kind # "reload")
  /\ UNCHANGED <<files, docFile, registry, schemas, cached, index>>

\* The first init(), or the next one after it failed.
BeginInit ==
  /\ op.pc = "idle"
  /\ ~ready
  /\ load' = [NoLoad EXCEPT !.pc = "start"]
  /\ op' = [NoOp EXCEPT !.pc = "load", !.kind = "init"]
  /\ UNCHANGED <<files, docFile, memory, index>>

Initializes == op.kind \in {"init", "reload"}

\* loadRegistry(): reads and parses the file; every declared type must have a
\* schema file. init() creates an empty registry where there is none, and
\* keeps the registry before it has the schemas.
Parses ==
  /\ regFile.text \notin {Invalid, Missing}
  /\ \A t \in regFile.text : schemaFile[t].text # Missing

\* Mutant of ReadRegistry: a refresh keeps the registry before it has the
\* schemas, as init() does.
ReadRegistryAssigns ==
  /\ load.pc = "start"
  /\ Parses
  /\ load' = [load EXCEPT !.pc = "statReg", !.types = regFile.text, !.todo = regFile.text,
                          !.regStamp = regFile.stamp]
  /\ registry' = [types |-> regFile.text, stamp |-> regFile.stamp]
  /\ UNCHANGED <<files, docFile, schemas, cached, ready, op, index>>

ReadRegistry ==
  /\ load.pc = "start"
  /\ Parses
  /\ load' = [load EXCEPT !.pc = "statReg", !.types = regFile.text, !.todo = regFile.text,
                          !.regStamp = regFile.stamp]
  /\ registry' = IF Initializes THEN [types |-> regFile.text, stamp |-> regFile.stamp] ELSE registry
  /\ UNCHANGED <<files, docFile, schemas, cached, ready, op, index>>

CreateRegistry ==
  /\ load.pc = "start"
  /\ regFile.text = Missing
  /\ Initializes
  /\ edits < MaxEdits
  /\ regFile' = [text |-> {}, stamp |-> edits + 1]
  /\ edits' = edits + 1
  /\ UNCHANGED <<schemaFile, docFile, memory, load, op, index>>

\* A failed load leaves registry, schemas and stamps as they were: a refresh
\* goes on with them, an init leaves the engine closed.
LoadFailed ==
  /\ load' = NoLoad
  /\ op' = IF Initializes THEN NoOp ELSE [op EXCEPT !.pc = "body", !.failed = TRUE]
  /\ UNCHANGED <<files, docFile, memory, index>>

RegistryFails ==
  /\ load.pc = "start"
  /\ ~Parses
  /\ Initializes => regFile.text # Missing
  /\ LoadFailed

\* loadSchemas(): the stamp of the registry is taken after it was read.
StatRegistry ==
  /\ load.pc = "statReg"
  /\ load' = [load EXCEPT !.pc = "schemas",
                          !.regCached = IF regFile.text = Missing THEN Uncached ELSE regFile.stamp]
  /\ UNCHANGED <<files, docFile, memory, op, index>>

\* Each schema is read, and then its stamp is taken. A reference to a type the
\* registry does not declare is an error.
ReadSchema(t) ==
  /\ load.pc = "schemas"
  /\ t \in load.todo
  /\ schemaFile[t].text \in Schemas
  /\ schemaFile[t].text.targets \subseteq load.types
  /\ load' = [load EXCEPT !.pc = "statSchema", !.todo = @ \ {t}, !.got[t] = schemaFile[t]]
  /\ UNCHANGED <<files, docFile, memory, op, index>>

SchemaFails(t) ==
  /\ load.pc = "schemas"
  /\ t \in load.todo
  /\ schemaFile[t].text \in Schemas => ~(schemaFile[t].text.targets \subseteq load.types)
  /\ LoadFailed

Unstamped(t) == load.got[t].text # Missing /\ load.stamps[t] = Uncached

StatSchema(t) ==
  /\ load.pc = "statSchema"
  /\ Unstamped(t)
  /\ schemaFile[t].text # Missing
  /\ load' = [load EXCEPT !.pc = "schemas", !.stamps[t] = schemaFile[t].stamp]
  /\ UNCHANGED <<files, docFile, memory, op, index>>

StatFails(t) ==
  /\ load.pc = "statSchema"
  /\ Unstamped(t)
  /\ schemaFile[t].text = Missing
  /\ LoadFailed

\* Everything was read: registry, schemas and stamps are swapped together.
Swap ==
  /\ load.pc = "schemas"
  /\ load.todo = {}
  /\ registry' = [types |-> load.types, stamp |-> load.regStamp]
  /\ schemas' = load.got
  /\ cached' = [reg |-> load.regCached, of |-> load.stamps]
  /\ ready' = TRUE
  /\ load' = NoLoad
  /\ op' = IF Initializes THEN NoOp ELSE [op EXCEPT !.pc = "body"]
  /\ UNCHANGED <<files, docFile, index>>

(* ---- What operations do with schemas and index ------------------------------------- *)

FpOf(t) == schemas[t].text.fp

\* processDocument(): the row is built under the schema in memory.
Indexed(d) ==
  /\ row' = [row EXCEPT ![d] = [hash |-> docFile'[d], fp |-> FpOf(TypeOf[d])]]
  /\ mixed' = IF FpOf(TypeOf[d]) = stored[TypeOf[d]] THEN mixed ELSE mixed \union {TypeOf[d]}

\* A create or update: the file is written and indexed.
Write(d, c) ==
  /\ op.pc = "body" /\ op.kind = "write"
  /\ TypeOf[d] \in registry.types
  /\ docFile' = [docFile EXCEPT ![d] = c]
  /\ Indexed(d)
  /\ op' = NoOp
  /\ UNCHANGED <<files, memory, load, stored>>

\* Also a write that is refused, or is of a type the registry does not declare.
Refuse ==
  /\ op.pc = "body" /\ op.kind = "write"
  /\ op' = NoOp
  /\ UNCHANGED <<files, docFile, memory, load, index>>

Dirty(t) == op.kind = "force" \/ stored[t] # FpOf(t)
DocsOf(types) == {d \in Docs : TypeOf[d] \in types}

\* Mutant of PlanSweep: the fingerprints are stored before the sweep.
PlanSweepStores ==
  /\ op.pc = "body" /\ op.kind \in {"reindex", "force"}
  /\ op' = [op EXCEPT !.pc = "sweep", !.dirty = {t \in registry.types : Dirty(t)},
                      !.todo = DocsOf(registry.types)]
  /\ stored' = [t \in Types |-> IF t \in registry.types THEN FpOf(t) ELSE stored[t]]
  /\ UNCHANGED <<files, docFile, memory, load, row, mixed>>

\* indexAll() finds the types whose fingerprint changed or was never stored.
PlanSweep ==
  /\ op.pc = "body" /\ op.kind \in {"reindex", "force"}
  /\ op' = [op EXCEPT !.pc = "sweep", !.dirty = {t \in registry.types : Dirty(t)},
                      !.todo = DocsOf(registry.types)]
  /\ UNCHANGED <<files, docFile, memory, load, index>>

UnchangedFile(d) ==
  /\ TypeOf[d] \notin op.dirty
  /\ row[d] # NoRow
  /\ row[d].hash = docFile[d]

ScanSkip(d) ==
  /\ op.pc = "sweep" /\ d \in op.todo
  /\ UnchangedFile(d)
  /\ op' = [op EXCEPT !.todo = @ \ {d}]
  /\ UNCHANGED <<files, docFile, memory, load, index>>

ScanIndex(d) ==
  /\ op.pc = "sweep" /\ d \in op.todo
  /\ ~UnchangedFile(d)
  /\ docFile[d] # Garbled
  /\ docFile' = docFile
  /\ Indexed(d)
  /\ op' = [op EXCEPT !.todo = @ \ {d}]
  /\ UNCHANGED <<files, memory, load, stored>>

\* An error is collected; the row stays as it was.
ScanFails(d) ==
  /\ op.pc = "sweep" /\ d \in op.todo
  /\ docFile[d] = Garbled
  /\ op' = [op EXCEPT !.todo = @ \ {d}, !.errors = @ \union {d}]
  /\ UNCHANGED <<files, docFile, memory, load, index>>

\* Rows of files no declared type has are dropped, and then the fingerprints
\* are stored, whether or not every file indexed. (mixed: the rows of a type
\* that was rebuilt are all of one schema, but for files that did not index.)
FinishSweep ==
  /\ op.pc = "sweep" /\ op.todo = {}
  /\ row' = [d \in Docs |-> IF TypeOf[d] \in registry.types THEN row[d] ELSE NoRow]
  /\ stored' = [t \in Types |-> IF t \in registry.types THEN FpOf(t) ELSE stored[t]]
  /\ mixed' = (mixed \ (op.dirty \union (Types \ registry.types)))
                \union {TypeOf[d] : d \in {e \in op.errors : row[e] # NoRow}}
  /\ op' = NoOp
  /\ UNCHANGED <<files, docFile, memory, load>>

(* ---- The world outside --------------------------------------------------------------- *)

Noticed == op' = IF op.pc = "idle" THEN op ELSE [op EXCEPT !.edited = TRUE]

EditRegistry(text) ==
  /\ edits < MaxEdits
  /\ text # regFile.text
  /\ regFile' = [text |-> text, stamp |-> edits + 1]
  /\ edits' = edits + 1
  /\ Noticed
  /\ UNCHANGED <<schemaFile, docFile, memory, load, index>>

EditSchema(t, text) ==
  /\ edits < MaxEdits
  /\ text # schemaFile[t].text
  /\ schemaFile' = [schemaFile EXCEPT ![t] = [text |-> text, stamp |-> edits + 1]]
  /\ edits' = edits + 1
  /\ Noticed
  /\ UNCHANGED <<regFile, docFile, memory, load, index>>

\* No step of a load looks at documents: an edit during one is an edit after it.
EditDoc(d, c) ==
  /\ load.pc = "idle"
  /\ c # docFile[d]
  /\ docFile' = [docFile EXCEPT ![d] = c]
  /\ UNCHANGED <<files, memory, load, op, index>>

Empty == [types |-> {}, stamp |-> 0]
Nothing == [reg |-> Uncached, of |-> [t \in Types |-> Uncached]]

Crash ==
  /\ ready \/ op.pc # "idle"
  /\ registry' = Empty
  /\ schemas' = [t \in Types |-> NoSchema]
  /\ cached' = Nothing
  /\ ready' = FALSE
  /\ load' = NoLoad
  /\ op' = NoOp
  /\ UNCHANGED <<files, docFile, index>>

\* Every type is declared and has a schema; nothing is indexed.
Init ==
  /\ regFile = [text |-> Types, stamp |-> 0]
  /\ \E s \in Schemas : schemaFile = [t \in Types |-> [text |-> s, stamp |-> 0]]
  /\ docFile \in [Docs -> Contents]
  /\ edits = 0
  /\ registry = Empty
  /\ schemas = [t \in Types |-> NoSchema]
  /\ cached = Nothing
  /\ ready = FALSE
  /\ load = NoLoad
  /\ op = NoOp
  /\ row = [d \in Docs |-> NoRow]
  /\ stored = [t \in Types |-> NoFp]
  /\ mixed = {}

Next ==
  \/ \E kind \in Kinds : Begin(kind)
  \/ BeginInit \/ ReadRegistry \/ CreateRegistry \/ RegistryFails \/ StatRegistry \/ Swap
  \/ \E t \in Types : ReadSchema(t) \/ SchemaFails(t) \/ StatSchema(t) \/ StatFails(t)
  \/ \E d \in Docs, c \in Contents : Write(d, c)
  \/ Refuse \/ PlanSweep \/ FinishSweep
  \/ \E d \in Docs : ScanSkip(d) \/ ScanIndex(d) \/ ScanFails(d)
  \/ \E text \in Registries \union {Invalid, Missing} : EditRegistry(text)
  \/ \E t \in Types, text \in Schemas \union {Invalid, Missing} : EditSchema(t, text)
  \/ \E d \in Docs, c \in Contents \union {Garbled} : EditDoc(d, c)
  \/ Crash

Spec == Init /\ [][Next]_vars

(* ---- Properties ------------------------------------------------------------------------- *)

\* Registry and schemas in memory come from one load, so that every declared
\* type has its schema, at every await of an open engine at which a read can
\* look: also while the files are read again, and after that failed.
TypesHaveSchemas ==
  ready => \A t \in Types : t \in registry.types <=> schemas[t].text # Missing

\* A file was edited between being read and being stat-ed by the load that is
\* in memory: its old content is taken for the new one.
Torn ==
  \/ cached.reg # registry.stamp
  \/ \E t \in registry.types : cached.of[t] # schemas[t].stamp

\* An operation that has the lock works on what the registry and the schema
\* files say, unless they were edited since it came, or did not load, or an
\* earlier load was torn by an edit.
SchemasFollowFiles ==
  op.pc \in {"body", "sweep"} /\ ~op.edited /\ ~op.failed /\ ~Torn =>
    /\ regFile.text = registry.types
    /\ \A t \in registry.types : schemaFile[t].text = schemas[t].text

\* Every row of a type was built under the indexed fields whose fingerprint
\* is stored, so that a sweep that finds that fingerprint unchanged may skip
\* the files whose hash is: also when a sweep was cut short by a crash, and
\* over registry edits that take a type away and bring it back. The exception
\* (mixed): rows built under another schema that no finished sweep replaced.
FingerprintCoversRows ==
  \A d \in Docs : row[d] # NoRow /\ TypeOf[d] \notin mixed => row[d].fp = stored[TypeOf[d]]
=============================================================================
