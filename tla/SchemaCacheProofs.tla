-------------------------- MODULE SchemaCacheProofs --------------------------
(***************************************************************************)
(* Theorems about SchemaCache, for any sets of types, documents, schemas   *)
(* and contents, and any number of edits. The inductive invariant says of  *)
(* every copy of a file (in memory, or of a load in progress) that it is   *)
(* the file's content as long as the stamps agree, and of a sweep what it  *)
(* has rebuilt so far.                                                     *)
(***************************************************************************)
EXTENDS SchemaCache, TLAPS

USE TypeOfAssumption, SchemasAssumption, MissingAssumption, MaxEditsAssumption

\* A load has read the registry, and the schemas of these types.
Reading == load.pc \in {"statReg", "schemas", "statSchema"}
Read    == load.types \ load.todo

\* The text read at a stamp is the file's as long as that is its stamp.
IsOf(text, stamp, file) == stamp <= edits /\ (stamp = file.stamp => text = file.text)

Stamped ==
  /\ regFile.stamp <= edits
  /\ \A t \in Types : schemaFile[t].stamp <= edits
  /\ ready => /\ IsOf(registry.types, registry.stamp, regFile)
              /\ \A t \in registry.types :
                   IsOf(schemas[t].text, schemas[t].stamp, schemaFile[t])
  /\ Reading => /\ IsOf(load.types, load.regStamp, regFile)
                /\ \A t \in Read : IsOf(load.got[t].text, load.got[t].stamp, schemaFile[t])

\* A load belongs to an operation; while it initializes the engine is closed.
Turn ==
  /\ load.pc = "idle" <=> op.pc # "load"
  /\ op.pc = "load" => (ready <=> ~Initializes)
  /\ op.pc \in {"body", "sweep"} => ready
  /\ load.pc = "start" => load.got = NoLoad.got

\* A load has the schemas of exactly the types it has been through,
LoadShape ==
  Reading => /\ load.todo \subseteq load.types
             /\ \A t \in Types : t \in Read <=> load.got[t].text # Missing

\* which are what the files say unless they were edited meanwhile.
LoadFollows ==
  Reading /\ ~op.edited =>
    /\ regFile.text = load.types
    /\ \A t \in Read : schemaFile[t].text = load.got[t].text

\* The types a sweep does not rebuild are stored as they are; of the others it
\* has rebuilt the rows of the documents it has been through.
SweepShape ==
  op.pc = "sweep" =>
    /\ op.todo \subseteq DocsOf(registry.types)
    /\ \A t \in registry.types \ op.dirty : stored[t] = FpOf(t)
    /\ \A d \in Docs \ (op.todo \union op.errors) :
         TypeOf[d] \in op.dirty => row[d].fp = FpOf(TypeOf[d])

Inv ==
  /\ TypeOK /\ Turn /\ Stamped /\ LoadShape /\ LoadFollows
  /\ TypesHaveSchemas /\ SchemasFollowFiles
  /\ SweepShape /\ FingerprintCoversRows

(* ---- One conjunct at a time ---------------------------------------------- *)

\* Reading the registry starts a load that has no schema yet,
LEMMA RegistryIsRead ==
  ASSUME TypeOK, Turn, ReadRegistry
  PROVE  /\ load'.pc = "statReg" /\ load'.types = regFile.text /\ load'.todo = regFile.text
         /\ load'.regStamp = regFile.stamp /\ load'.got = NoLoad.got
         /\ regFile.text \in Registries /\ Read' = {}
<1>1. load \in Loads /\ load.got = NoLoad.got
  BY DEF TypeOK, Turn, ReadRegistry
<1>2. load' = [load EXCEPT !.pc = "statReg", !.types = regFile.text, !.todo = regFile.text,
                           !.regStamp = regFile.stamp]
  BY DEF ReadRegistry
<1>3. regFile.text \in Registries
  BY DEF TypeOK, ReadRegistry, Parses
<1> QED
  BY <1>1, <1>2, <1>3 DEF Loads, Read

\* and reading a schema adds that one.
LEMMA SchemaIsRead ==
  ASSUME TypeOK, LoadShape, NEW t \in Types, ReadSchema(t)
  PROVE  /\ load'.pc = "statSchema" /\ load'.types = load.types /\ load'.todo = load.todo \ {t}
         /\ load'.regStamp = load.regStamp
         /\ \A u \in Types : load'.got[u] = IF u = t THEN schemaFile[t] ELSE load.got[u]
         /\ Read' = Read \union {t} /\ t \in load.types
<1>1. load \in Loads /\ load.todo \subseteq load.types
  BY DEF TypeOK, LoadShape, Reading, ReadSchema
<1>2. load' = [load EXCEPT !.pc = "statSchema", !.todo = @ \ {t}, !.got[t] = schemaFile[t]]
  BY DEF ReadSchema
<1>3. t \in load.todo
  BY DEF ReadSchema
<1>4. /\ load'.pc = "statSchema" /\ load'.types = load.types /\ load'.todo = load.todo \ {t}
      /\ load'.regStamp = load.regStamp /\ load'.got = [load.got EXCEPT ![t] = schemaFile[t]]
  BY <1>1, <1>2 DEF Loads
<1> QED
  BY <1>1, <1>3, <1>4 DEF Loads, Read

\* Nothing going on is a load, and an operation.
LEMMA IdleTyped == NoLoad \in Loads /\ NoOp \in Ops
BY DEF NoLoad, NoSchema, NoOp, Loads, Ops, Registries, Stamps, Cached

\* A declared type of an open engine has a schema in memory, and so a
\* fingerprint (schemaFingerprint).
LEMMA Fingerprinted ==
  ASSUME TypeOK, TypesHaveSchemas, ready, NEW t \in registry.types
  PROVE  t \in Types /\ schemas[t].text \in Schemas /\ FpOf(t) \in Fps
<1>1. t \in Types
  BY DEF TypeOK, Registries
<1>2. schemas[t].text \in Schemas
  BY <1>1 DEF TypeOK, TypesHaveSchemas
<1> QED
  BY <1>1, <1>2 DEF FpOf, Fps

\* Indexing a document of such a type gives it a row.
LEMMA IndexedTyped ==
  ASSUME TypeOK, TypesHaveSchemas, ready, NEW d \in Docs, TypeOf[d] \in registry.types,
         docFile'[d] \in Contents, Indexed(d)
  PROVE  /\ row' \in [Docs -> [hash : Contents, fp : Fps] \union {NoRow}]
         /\ mixed' \in SUBSET Types
<1>1. FpOf(TypeOf[d]) \in Fps
  BY Fingerprinted
<1>2. [hash |-> docFile'[d], fp |-> FpOf(TypeOf[d])] \in [hash : Contents, fp : Fps]
  BY <1>1
<1>3. row \in [Docs -> [hash : Contents, fp : Fps] \union {NoRow}] /\ mixed \in SUBSET Types
  BY DEF TypeOK
<1> QED
  BY <1>2, <1>3 DEF Indexed

\* Every step leaves a record of a load behind,
LEMMA LoadTyped ==
  ASSUME Inv, [Next]_vars
  PROVE  load' \in Loads
<1>a. TypeOK /\ Turn /\ load \in Loads /\ NoLoad \in Loads
  BY IdleTyped DEF Inv, TypeOK
<1>b. /\ regFile.stamp \in Stamps
      /\ \A t \in Types :
           schemaFile[t] \in [text : Schemas \union {Invalid, Missing}, stamp : Stamps]
  BY <1>a DEF TypeOK
<1> USE <1>a, <1>b
<1> USE DEF files, memory, index, Loads, Registries, LoadFailed, Stamps, Cached
<1>1. ASSUME NEW kind \in Kinds, Begin(kind)
      PROVE  load' \in Loads
  BY <1>1 DEF Begin
<1>2. CASE BeginInit
  BY <1>2 DEF BeginInit
<1>3. CASE ReadRegistry
  BY <1>3, RegistryIsRead DEF ReadRegistry
<1>4. CASE CreateRegistry
  BY <1>4 DEF CreateRegistry
<1>5. CASE RegistryFails
  BY <1>5 DEF RegistryFails
<1>6. CASE StatRegistry
  BY <1>6 DEF StatRegistry
<1>7. CASE Swap
  BY <1>7 DEF Swap
<1>8. ASSUME NEW t \in Types, ReadSchema(t)
      PROVE  load' \in Loads
  BY <1>8 DEF ReadSchema
<1>9. ASSUME NEW t \in Types, SchemaFails(t)
      PROVE  load' \in Loads
  BY <1>9 DEF SchemaFails
<1>10. ASSUME NEW t \in Types, StatSchema(t)
       PROVE  load' \in Loads
  BY <1>10 DEF StatSchema
<1>11. ASSUME NEW t \in Types, StatFails(t)
       PROVE  load' \in Loads
  BY <1>11 DEF StatFails
<1>12. ASSUME NEW d \in Docs, NEW c \in Contents, Write(d, c)
       PROVE  load' \in Loads
  BY <1>12 DEF Write
<1>13. CASE Refuse
  BY <1>13 DEF Refuse
<1>14. CASE PlanSweep
  BY <1>14 DEF PlanSweep
<1>15. CASE FinishSweep
  BY <1>15 DEF FinishSweep
<1>16. ASSUME NEW d \in Docs, ScanSkip(d)
       PROVE  load' \in Loads
  BY <1>16 DEF ScanSkip
<1>17. ASSUME NEW d \in Docs, ScanIndex(d)
       PROVE  load' \in Loads
  BY <1>17 DEF ScanIndex
<1>18. ASSUME NEW d \in Docs, ScanFails(d)
       PROVE  load' \in Loads
  BY <1>18 DEF ScanFails
<1>19. ASSUME NEW text \in Registries \union {Invalid, Missing}, EditRegistry(text)
       PROVE  load' \in Loads
  BY <1>19 DEF EditRegistry
<1>20. ASSUME NEW t \in Types, NEW text \in Schemas \union {Invalid, Missing},
              EditSchema(t, text)
       PROVE  load' \in Loads
  BY <1>20 DEF EditSchema
<1>21. ASSUME NEW d \in Docs, NEW c \in Contents \union {Garbled}, EditDoc(d, c)
       PROVE  load' \in Loads
  BY <1>21 DEF EditDoc
<1>22. CASE Crash
  BY <1>22 DEF Crash
<1>23. CASE UNCHANGED vars
  BY <1>23 DEF vars
<1> QED
  BY <1>1, <1>2, <1>3, <1>4, <1>5, <1>6, <1>7, <1>8, <1>9, <1>10, <1>11, <1>12, <1>13,
     <1>14, <1>15, <1>16, <1>17, <1>18, <1>19, <1>20, <1>21, <1>22, <1>23 DEF Next

\* and of an operation.
LEMMA OpTyped ==
  ASSUME Inv, [Next]_vars
  PROVE  op' \in Ops
<1>a. op \in Ops /\ NoOp \in Ops /\ registry.types \in Registries
  BY IdleTyped DEF Inv, TypeOK
<1> USE <1>a
<1> USE DEF files, memory, index, Ops, NoOp, LoadFailed, Noticed, Initializes, Kinds,
     Registries
<1>1. ASSUME NEW kind \in Kinds, Begin(kind)
      PROVE  op' \in Ops
  BY <1>1 DEF Begin, DocsOf
<1>2. CASE BeginInit
  BY <1>2 DEF BeginInit, DocsOf
<1>3. CASE ReadRegistry
  BY <1>3 DEF ReadRegistry, DocsOf
<1>4. CASE CreateRegistry
  BY <1>4 DEF CreateRegistry, DocsOf
<1>5. CASE RegistryFails
  BY <1>5 DEF RegistryFails, DocsOf
<1>6. CASE StatRegistry
  BY <1>6 DEF StatRegistry, DocsOf
<1>7. CASE Swap
  BY <1>7 DEF Swap, DocsOf
<1>8. ASSUME NEW t \in Types, ReadSchema(t)
      PROVE  op' \in Ops
  BY <1>8 DEF ReadSchema, DocsOf
<1>9. ASSUME NEW t \in Types, SchemaFails(t)
      PROVE  op' \in Ops
  BY <1>9 DEF SchemaFails, DocsOf
<1>10. ASSUME NEW t \in Types, StatSchema(t)
       PROVE  op' \in Ops
  BY <1>10 DEF StatSchema, DocsOf
<1>11. ASSUME NEW t \in Types, StatFails(t)
       PROVE  op' \in Ops
  BY <1>11 DEF StatFails, DocsOf
<1>12. ASSUME NEW d \in Docs, NEW c \in Contents, Write(d, c)
       PROVE  op' \in Ops
  BY <1>12 DEF Write, DocsOf
<1>13. CASE Refuse
  BY <1>13 DEF Refuse, DocsOf
<1>14. CASE PlanSweep
  BY <1>14 DEF PlanSweep, DocsOf
<1>15. CASE FinishSweep
  BY <1>15 DEF FinishSweep, DocsOf
<1>16. ASSUME NEW d \in Docs, ScanSkip(d)
       PROVE  op' \in Ops
  BY <1>16 DEF ScanSkip, DocsOf
<1>17. ASSUME NEW d \in Docs, ScanIndex(d)
       PROVE  op' \in Ops
  BY <1>17 DEF ScanIndex, DocsOf
<1>18. ASSUME NEW d \in Docs, ScanFails(d)
       PROVE  op' \in Ops
  BY <1>18 DEF ScanFails, DocsOf
<1>19. ASSUME NEW text \in Registries \union {Invalid, Missing}, EditRegistry(text)
       PROVE  op' \in Ops
  BY <1>19 DEF EditRegistry, DocsOf
<1>20. ASSUME NEW t \in Types, NEW text \in Schemas \union {Invalid, Missing},
              EditSchema(t, text)
       PROVE  op' \in Ops
  BY <1>20 DEF EditSchema, DocsOf
<1>21. ASSUME NEW d \in Docs, NEW c \in Contents \union {Garbled}, EditDoc(d, c)
       PROVE  op' \in Ops
  BY <1>21 DEF EditDoc, DocsOf
<1>22. CASE Crash
  BY <1>22 DEF Crash, DocsOf
<1>23. CASE UNCHANGED vars
  BY <1>23 DEF vars
<1> QED
  BY <1>1, <1>2, <1>3, <1>4, <1>5, <1>6, <1>7, <1>8, <1>9, <1>10, <1>11, <1>12, <1>13,
     <1>14, <1>15, <1>16, <1>17, <1>18, <1>19, <1>20, <1>21, <1>22, <1>23 DEF Next

\* The types hold after every step.
LEMMA Typed ==
  ASSUME Inv, [Next]_vars
  PROVE  TypeOK'
<1>a. TypeOK /\ Turn /\ TypesHaveSchemas /\ SweepShape /\ load' \in Loads /\ op' \in Ops
  BY LoadTyped, OpTyped DEF Inv
<1> USE <1>a
<1> USE DEF TypeOK, files, memory, index
<1>1. ASSUME NEW kind \in Kinds, Begin(kind)
      PROVE  TypeOK'
  BY <1>1 DEF Begin, Registries, Stamps, LoadFailed, Nothing, Empty
<1>2. CASE BeginInit
  BY <1>2 DEF BeginInit, Registries, Stamps, LoadFailed, Nothing, Empty
<1>3. CASE ReadRegistry
  <2>1. regFile.text \in Registries /\ regFile.stamp \in Stamps
    BY <1>3, RegistryIsRead
  <2>2. registry' \in [types : Registries, stamp : Stamps]
    BY <1>3, <2>1 DEF ReadRegistry
  <2> QED
    BY <1>3, <2>2 DEF ReadRegistry
<1>4. CASE CreateRegistry
  BY <1>4 DEF CreateRegistry, Registries, Stamps, LoadFailed, Nothing, Empty
<1>5. CASE RegistryFails
  BY <1>5 DEF RegistryFails, Registries, Stamps, LoadFailed, Nothing, Empty
<1>6. CASE StatRegistry
  BY <1>6 DEF StatRegistry, Registries, Stamps, LoadFailed, Nothing, Empty
<1>7. CASE Swap
  <2>1. load \in Loads
    OBVIOUS
  <2>2. /\ registry' \in [types : Registries, stamp : Stamps]
        /\ schemas' \in [Types -> [text : Schemas \union {Missing}, stamp : Stamps]]
        /\ cached' \in [reg : Cached, of : [Types -> Cached]] /\ ready' \in BOOLEAN
    BY <1>7, <2>1 DEF Swap, Loads
  <2> QED
    BY <1>7, <2>2 DEF Swap
<1>8. ASSUME NEW t \in Types, ReadSchema(t)
      PROVE  TypeOK'
  BY <1>8 DEF ReadSchema, Registries, Stamps, LoadFailed, Nothing, Empty
<1>9. ASSUME NEW t \in Types, SchemaFails(t)
      PROVE  TypeOK'
  BY <1>9 DEF SchemaFails, Registries, Stamps, LoadFailed, Nothing, Empty
<1>10. ASSUME NEW t \in Types, StatSchema(t)
       PROVE  TypeOK'
  BY <1>10 DEF StatSchema, Registries, Stamps, LoadFailed, Nothing, Empty
<1>11. ASSUME NEW t \in Types, StatFails(t)
       PROVE  TypeOK'
  BY <1>11 DEF StatFails, Registries, Stamps, LoadFailed, Nothing, Empty
<1>12. ASSUME NEW d \in Docs, NEW c \in Contents, Write(d, c)
       PROVE  TypeOK'
  <2>1. docFile'[d] \in Contents /\ docFile' \in [Docs -> Contents \union {Garbled}]
    BY <1>12 DEF Write
  <2>2. /\ row' \in [Docs -> [hash : Contents, fp : Fps] \union {NoRow}]
        /\ mixed' \in SUBSET Types
    BY <1>12, <2>1, IndexedTyped DEF Write, Turn
  <2> QED
    BY <1>12, <2>1, <2>2 DEF Write
<1>13. CASE Refuse
  BY <1>13 DEF Refuse, Registries, Stamps, LoadFailed, Nothing, Empty
<1>14. CASE PlanSweep
  BY <1>14 DEF PlanSweep, Registries, Stamps, LoadFailed, Nothing, Empty
<1>15. CASE FinishSweep
  <2>1. ASSUME NEW t \in registry.types
        PROVE  FpOf(t) \in Fps
    BY <1>15, Fingerprinted DEF FinishSweep, Turn
  <2>2. stored' \in [Types -> Fps \union {NoFp}]
    BY <1>15, <2>1 DEF FinishSweep
  <2>3. row' \in [Docs -> [hash : Contents, fp : Fps] \union {NoRow}]
    BY <1>15 DEF FinishSweep
  <2>4. mixed' \in SUBSET Types
    BY <1>15 DEF FinishSweep, Ops
  <2> QED
    BY <1>15, <2>2, <2>3, <2>4 DEF FinishSweep
<1>16. ASSUME NEW d \in Docs, ScanSkip(d)
       PROVE  TypeOK'
  BY <1>16 DEF ScanSkip, Registries, Stamps, LoadFailed, Nothing, Empty
<1>17. ASSUME NEW d \in Docs, ScanIndex(d)
       PROVE  TypeOK'
  <2>1. docFile'[d] \in Contents /\ TypeOf[d] \in registry.types
    BY <1>17 DEF ScanIndex, SweepShape, DocsOf
  <2>2. /\ row' \in [Docs -> [hash : Contents, fp : Fps] \union {NoRow}]
        /\ mixed' \in SUBSET Types
    BY <1>17, <2>1, IndexedTyped DEF ScanIndex, Turn
  <2> QED
    BY <1>17, <2>1, <2>2 DEF ScanIndex
<1>18. ASSUME NEW d \in Docs, ScanFails(d)
       PROVE  TypeOK'
  BY <1>18 DEF ScanFails, Registries, Stamps, LoadFailed, Nothing, Empty
<1>19. ASSUME NEW text \in Registries \union {Invalid, Missing}, EditRegistry(text)
       PROVE  TypeOK'
  BY <1>19 DEF EditRegistry, Registries, Stamps, LoadFailed, Nothing, Empty
<1>20. ASSUME NEW t \in Types, NEW text \in Schemas \union {Invalid, Missing},
              EditSchema(t, text)
       PROVE  TypeOK'
  BY <1>20 DEF EditSchema, Registries, Stamps, LoadFailed, Nothing, Empty
<1>21. ASSUME NEW d \in Docs, NEW c \in Contents \union {Garbled}, EditDoc(d, c)
       PROVE  TypeOK'
  BY <1>21 DEF EditDoc, Registries, Stamps, LoadFailed, Nothing, Empty
<1>22. CASE Crash
  <2>1. registry' \in [types : Registries, stamp : Stamps]
    BY <1>22 DEF Crash, Empty, Registries, Stamps
  <2>2. schemas' \in [Types -> [text : Schemas \union {Missing}, stamp : Stamps]]
    BY <1>22 DEF Crash, NoSchema, Stamps
  <2>3. cached' \in [reg : Cached, of : [Types -> Cached]]
    BY <1>22 DEF Crash, Nothing, Cached
  <2> QED
    BY <1>22, <2>1, <2>2, <2>3 DEF Crash
<1>23. CASE UNCHANGED vars
  BY <1>23 DEF vars
<1> QED
  BY <1>1, <1>2, <1>3, <1>4, <1>5, <1>6, <1>7, <1>8, <1>9, <1>10, <1>11, <1>12, <1>13,
     <1>14, <1>15, <1>16, <1>17, <1>18, <1>19, <1>20, <1>21, <1>22, <1>23 DEF Next

\* Loads keep to their operations.
LEMMA TurnKept ==
  ASSUME Inv, TypeOK', [Next]_vars
  PROVE  Turn'
<1>a. TypeOK /\ Turn
  BY DEF Inv
<1> USE <1>a
<1> USE DEF files, memory, index, Turn, NoLoad, NoOp, NoSchema, Empty, Nothing,
     LoadFailed, Initializes, Noticed, Kinds
<1>1. ASSUME NEW kind \in Kinds, Begin(kind)
      PROVE  Turn'
  BY <1>1 DEF Begin
<1>2. CASE BeginInit
  BY <1>2 DEF BeginInit
<1>3. CASE ReadRegistry
  BY <1>3 DEF ReadRegistry
<1>4. CASE CreateRegistry
  BY <1>4 DEF CreateRegistry
<1>5. CASE RegistryFails
  BY <1>5 DEF RegistryFails
<1>6. CASE StatRegistry
  BY <1>6 DEF StatRegistry
<1>7. CASE Swap
  BY <1>7 DEF Swap
<1>8. ASSUME NEW t \in Types, ReadSchema(t)
      PROVE  Turn'
  BY <1>8 DEF ReadSchema
<1>9. ASSUME NEW t \in Types, SchemaFails(t)
      PROVE  Turn'
  BY <1>9 DEF SchemaFails
<1>10. ASSUME NEW t \in Types, StatSchema(t)
       PROVE  Turn'
  BY <1>10 DEF StatSchema
<1>11. ASSUME NEW t \in Types, StatFails(t)
       PROVE  Turn'
  BY <1>11 DEF StatFails
<1>12. ASSUME NEW d \in Docs, NEW c \in Contents, Write(d, c)
       PROVE  Turn'
  BY <1>12 DEF Write
<1>13. CASE Refuse
  BY <1>13 DEF Refuse
<1>14. CASE PlanSweep
  BY <1>14 DEF PlanSweep
<1>15. CASE FinishSweep
  BY <1>15 DEF FinishSweep
<1>16. ASSUME NEW d \in Docs, ScanSkip(d)
       PROVE  Turn'
  BY <1>16 DEF ScanSkip
<1>17. ASSUME NEW d \in Docs, ScanIndex(d)
       PROVE  Turn'
  BY <1>17 DEF ScanIndex
<1>18. ASSUME NEW d \in Docs, ScanFails(d)
       PROVE  Turn'
  BY <1>18 DEF ScanFails
<1>19. ASSUME NEW text \in Registries \union {Invalid, Missing}, EditRegistry(text)
       PROVE  Turn'
  BY <1>19 DEF EditRegistry
<1>20. ASSUME NEW t \in Types, NEW text \in Schemas \union {Invalid, Missing},
              EditSchema(t, text)
       PROVE  Turn'
  BY <1>20 DEF EditSchema
<1>21. ASSUME NEW d \in Docs, NEW c \in Contents \union {Garbled}, EditDoc(d, c)
       PROVE  Turn'
  BY <1>21 DEF EditDoc
<1>22. CASE Crash
  BY <1>22 DEF Crash
<1>23. CASE UNCHANGED vars
  BY <1>23 DEF vars
<1> QED
  BY <1>1, <1>2, <1>3, <1>4, <1>5, <1>6, <1>7, <1>8, <1>9, <1>10, <1>11, <1>12, <1>13,
     <1>14, <1>15, <1>16, <1>17, <1>18, <1>19, <1>20, <1>21, <1>22, <1>23 DEF Next

\* A load takes the schemas one by one.
LEMMA LoadShaped ==
  ASSUME Inv, TypeOK', Turn', [Next]_vars
  PROVE  LoadShape'
<1>a. TypeOK /\ Turn /\ LoadShape
  BY DEF Inv
<1> USE <1>a
<1> USE DEF files, memory, index, LoadShape, Reading, NoLoad, NoOp, NoSchema, Empty,
     Nothing, LoadFailed, Initializes, Noticed, Kinds
<1>1. ASSUME NEW kind \in Kinds, Begin(kind)
      PROVE  LoadShape'
  BY <1>1 DEF Begin, Read
<1>2. CASE BeginInit
  BY <1>2 DEF BeginInit, Read
<1>3. CASE ReadRegistry
  <2>1. /\ load'.pc = "statReg" /\ load'.types = regFile.text /\ load'.todo = regFile.text
        /\ load'.regStamp = regFile.stamp /\ load'.got = NoLoad.got
        /\ regFile.text \in Registries /\ Read' = {}
    BY <1>3, RegistryIsRead
  <2> QED
    BY <2>1 DEF NoLoad, NoSchema
<1>4. CASE CreateRegistry
  BY <1>4 DEF CreateRegistry, Read
<1>5. CASE RegistryFails
  BY <1>5 DEF RegistryFails, Read
<1>6. CASE StatRegistry
  BY <1>6 DEF StatRegistry, Read
<1>7. CASE Swap
  BY <1>7 DEF Swap, Read
<1>8. ASSUME NEW t \in Types, ReadSchema(t)
      PROVE  LoadShape'
  <2>1. /\ load'.pc = "statSchema" /\ load'.types = load.types /\ load'.todo = load.todo \ {t}
        /\ load'.regStamp = load.regStamp
        /\ \A u \in Types : load'.got[u] = IF u = t THEN schemaFile[t] ELSE load.got[u]
        /\ Read' = Read \union {t} /\ t \in load.types /\ Reading /\ Reading'
    BY <1>8, SchemaIsRead DEF ReadSchema, Reading
  <2>2. schemaFile[t].text # Missing
    BY <1>8 DEF ReadSchema
  <2> QED
    BY <2>1, <2>2
<1>9. ASSUME NEW t \in Types, SchemaFails(t)
      PROVE  LoadShape'
  BY <1>9 DEF SchemaFails, Read
<1>10. ASSUME NEW t \in Types, StatSchema(t)
       PROVE  LoadShape'
  BY <1>10 DEF StatSchema, Read
<1>11. ASSUME NEW t \in Types, StatFails(t)
       PROVE  LoadShape'
  BY <1>11 DEF StatFails, Read
<1>12. ASSUME NEW d \in Docs, NEW c \in Contents, Write(d, c)
       PROVE  LoadShape'
  BY <1>12 DEF Write, Read
<1>13. CASE Refuse
  BY <1>13 DEF Refuse, Read
<1>14. CASE PlanSweep
  BY <1>14 DEF PlanSweep, Read
<1>15. CASE FinishSweep
  BY <1>15 DEF FinishSweep, Read
<1>16. ASSUME NEW d \in Docs, ScanSkip(d)
       PROVE  LoadShape'
  BY <1>16 DEF ScanSkip, Read
<1>17. ASSUME NEW d \in Docs, ScanIndex(d)
       PROVE  LoadShape'
  BY <1>17 DEF ScanIndex, Read
<1>18. ASSUME NEW d \in Docs, ScanFails(d)
       PROVE  LoadShape'
  BY <1>18 DEF ScanFails, Read
<1>19. ASSUME NEW text \in Registries \union {Invalid, Missing}, EditRegistry(text)
       PROVE  LoadShape'
  BY <1>19 DEF EditRegistry, Read
<1>20. ASSUME NEW t \in Types, NEW text \in Schemas \union {Invalid, Missing},
              EditSchema(t, text)
       PROVE  LoadShape'
  BY <1>20 DEF EditSchema, Read
<1>21. ASSUME NEW d \in Docs, NEW c \in Contents \union {Garbled}, EditDoc(d, c)
       PROVE  LoadShape'
  BY <1>21 DEF EditDoc, Read
<1>22. CASE Crash
  BY <1>22 DEF Crash, Read
<1>23. CASE UNCHANGED vars
  BY <1>23 DEF vars, Read, IsOf
<1> QED
  BY <1>1, <1>2, <1>3, <1>4, <1>5, <1>6, <1>7, <1>8, <1>9, <1>10, <1>11, <1>12, <1>13,
     <1>14, <1>15, <1>16, <1>17, <1>18, <1>19, <1>20, <1>21, <1>22, <1>23 DEF Next

\* It reads what is there.
LEMMA LoadFollowed ==
  ASSUME Inv, TypeOK', Turn', [Next]_vars
  PROVE  LoadFollows'
<1>a. TypeOK /\ Turn /\ LoadShape /\ LoadFollows
  BY DEF Inv
<1> USE <1>a
<1> USE DEF files, memory, index, LoadFollows, Reading, NoOp, NoLoad
<1>1. ASSUME NEW kind \in Kinds, Begin(kind)
      PROVE  LoadFollows'
  BY <1>1 DEF Begin, Read, LoadFailed, Turn
<1>2. CASE BeginInit
  BY <1>2 DEF BeginInit, Read, LoadFailed, Turn
<1>3. CASE ReadRegistry
  <2>1. /\ load'.pc = "statReg" /\ load'.types = regFile.text /\ load'.todo = regFile.text
        /\ load'.regStamp = regFile.stamp /\ load'.got = NoLoad.got
        /\ regFile.text \in Registries /\ Read' = {}
    BY <1>3, RegistryIsRead
  <2> QED
    BY <1>3, <2>1 DEF ReadRegistry
<1>4. CASE CreateRegistry
  BY <1>4 DEF CreateRegistry, Read, LoadFailed, Turn
<1>5. CASE RegistryFails
  BY <1>5 DEF RegistryFails, Read, LoadFailed, Turn
<1>6. CASE StatRegistry
  BY <1>6 DEF StatRegistry, Read, LoadFailed, Turn
<1>7. CASE Swap
  BY <1>7 DEF Swap, Read, LoadFailed, Turn
<1>8. ASSUME NEW t \in Types, ReadSchema(t)
      PROVE  LoadFollows'
  <2>1. /\ load'.pc = "statSchema" /\ load'.types = load.types /\ load'.todo = load.todo \ {t}
        /\ load'.regStamp = load.regStamp
        /\ \A u \in Types : load'.got[u] = IF u = t THEN schemaFile[t] ELSE load.got[u]
        /\ Read' = Read \union {t} /\ t \in load.types /\ Reading /\ Reading'
    BY <1>8, SchemaIsRead DEF ReadSchema, Reading
  <2>2. regFile' = regFile /\ schemaFile' = schemaFile /\ op' = op
    BY <1>8 DEF ReadSchema
  <2>3. Read \subseteq Types
    BY DEF Read, TypeOK, Loads, Registries
  <2> QED
    BY <2>1, <2>2, <2>3
<1>9. ASSUME NEW t \in Types, SchemaFails(t)
      PROVE  LoadFollows'
  BY <1>9 DEF SchemaFails, Read, LoadFailed, Turn
<1>10. ASSUME NEW t \in Types, StatSchema(t)
       PROVE  LoadFollows'
  BY <1>10 DEF StatSchema, Read, LoadFailed, Turn
<1>11. ASSUME NEW t \in Types, StatFails(t)
       PROVE  LoadFollows'
  BY <1>11 DEF StatFails, Read, LoadFailed, Turn
<1>12. ASSUME NEW d \in Docs, NEW c \in Contents, Write(d, c)
       PROVE  LoadFollows'
  BY <1>12 DEF Write, Read, LoadFailed, Turn
<1>13. CASE Refuse
  BY <1>13 DEF Refuse, Read, LoadFailed, Turn
<1>14. CASE PlanSweep
  BY <1>14 DEF PlanSweep, Read, LoadFailed, Turn
<1>15. CASE FinishSweep
  BY <1>15 DEF FinishSweep, Read, LoadFailed, Turn
<1>16. ASSUME NEW d \in Docs, ScanSkip(d)
       PROVE  LoadFollows'
  BY <1>16 DEF ScanSkip, Read, LoadFailed, Turn
<1>17. ASSUME NEW d \in Docs, ScanIndex(d)
       PROVE  LoadFollows'
  BY <1>17 DEF ScanIndex, Read, LoadFailed, Turn
<1>18. ASSUME NEW d \in Docs, ScanFails(d)
       PROVE  LoadFollows'
  BY <1>18 DEF ScanFails, Read, LoadFailed, Turn
<1>19. ASSUME NEW text \in Registries \union {Invalid, Missing}, EditRegistry(text)
       PROVE  LoadFollows'
  <2>1. op'.edited \/ op.pc = "idle"
    BY <1>19 DEF EditRegistry, Noticed, TypeOK, Ops
  <2> QED
    BY <1>19, <2>1 DEF EditRegistry, Turn, Read
<1>20. ASSUME NEW t \in Types, NEW text \in Schemas \union {Invalid, Missing},
              EditSchema(t, text)
       PROVE  LoadFollows'
  <2>1. op'.edited \/ op.pc = "idle"
    BY <1>20 DEF EditSchema, Noticed, TypeOK, Ops
  <2> QED
    BY <1>20, <2>1 DEF EditSchema, Turn, Read
<1>21. ASSUME NEW d \in Docs, NEW c \in Contents \union {Garbled}, EditDoc(d, c)
       PROVE  LoadFollows'
  BY <1>21 DEF EditDoc, Read, LoadFailed, Turn
<1>22. CASE Crash
  BY <1>22 DEF Crash, Read, LoadFailed, Turn
<1>23. CASE UNCHANGED vars
  BY <1>23 DEF vars, Read, IsOf
<1> QED
  BY <1>1, <1>2, <1>3, <1>4, <1>5, <1>6, <1>7, <1>8, <1>9, <1>10, <1>11, <1>12, <1>13,
     <1>14, <1>15, <1>16, <1>17, <1>18, <1>19, <1>20, <1>21, <1>22, <1>23 DEF Next

\* Registry and schemas are swapped together.
LEMMA SchemasKept ==
  ASSUME Inv, TypeOK', Turn', [Next]_vars
  PROVE  TypesHaveSchemas'
<1>a. TypeOK /\ Turn /\ LoadShape /\ TypesHaveSchemas
  BY DEF Inv
<1> USE <1>a
<1> USE DEF files, memory, index, TypesHaveSchemas, NoLoad, NoOp, NoSchema, Empty,
     Nothing, LoadFailed, Initializes, Noticed, Kinds
<1>1. ASSUME NEW kind \in Kinds, Begin(kind)
      PROVE  TypesHaveSchemas'
  BY <1>1 DEF Begin
<1>2. CASE BeginInit
  BY <1>2 DEF BeginInit
<1>3. CASE ReadRegistry
  <2>1. CASE Initializes
    <3>1. ~ready'
      BY <1>3, <2>1 DEF ReadRegistry, Turn
    <3> QED
      BY <3>1
  <2>2. CASE ~Initializes
    BY <1>3, <2>2 DEF ReadRegistry
  <2> QED
    BY <2>1, <2>2
<1>4. CASE CreateRegistry
  BY <1>4 DEF CreateRegistry
<1>5. CASE RegistryFails
  BY <1>5 DEF RegistryFails
<1>6. CASE StatRegistry
  BY <1>6 DEF StatRegistry
<1>7. CASE Swap
  <2>1. \A t \in Types : t \in load.types <=> load.got[t].text # Missing
    BY <1>7 DEF Swap, Reading, Read, LoadShape
  <2> QED
    BY <1>7, <2>1 DEF Swap
<1>8. ASSUME NEW t \in Types, ReadSchema(t)
      PROVE  TypesHaveSchemas'
  BY <1>8 DEF ReadSchema
<1>9. ASSUME NEW t \in Types, SchemaFails(t)
      PROVE  TypesHaveSchemas'
  BY <1>9 DEF SchemaFails
<1>10. ASSUME NEW t \in Types, StatSchema(t)
       PROVE  TypesHaveSchemas'
  BY <1>10 DEF StatSchema
<1>11. ASSUME NEW t \in Types, StatFails(t)
       PROVE  TypesHaveSchemas'
  BY <1>11 DEF StatFails
<1>12. ASSUME NEW d \in Docs, NEW c \in Contents, Write(d, c)
       PROVE  TypesHaveSchemas'
  BY <1>12 DEF Write
<1>13. CASE Refuse
  BY <1>13 DEF Refuse
<1>14. CASE PlanSweep
  BY <1>14 DEF PlanSweep
<1>15. CASE FinishSweep
  BY <1>15 DEF FinishSweep
<1>16. ASSUME NEW d \in Docs, ScanSkip(d)
       PROVE  TypesHaveSchemas'
  BY <1>16 DEF ScanSkip
<1>17. ASSUME NEW d \in Docs, ScanIndex(d)
       PROVE  TypesHaveSchemas'
  BY <1>17 DEF ScanIndex
<1>18. ASSUME NEW d \in Docs, ScanFails(d)
       PROVE  TypesHaveSchemas'
  BY <1>18 DEF ScanFails
<1>19. ASSUME NEW text \in Registries \union {Invalid, Missing}, EditRegistry(text)
       PROVE  TypesHaveSchemas'
  BY <1>19 DEF EditRegistry
<1>20. ASSUME NEW t \in Types, NEW text \in Schemas \union {Invalid, Missing},
              EditSchema(t, text)
       PROVE  TypesHaveSchemas'
  BY <1>20 DEF EditSchema
<1>21. ASSUME NEW d \in Docs, NEW c \in Contents \union {Garbled}, EditDoc(d, c)
       PROVE  TypesHaveSchemas'
  BY <1>21 DEF EditDoc
<1>22. CASE Crash
  BY <1>22 DEF Crash
<1>23. CASE UNCHANGED vars
  BY <1>23 DEF vars, Read, IsOf
<1> QED
  BY <1>1, <1>2, <1>3, <1>4, <1>5, <1>6, <1>7, <1>8, <1>9, <1>10, <1>11, <1>12, <1>13,
     <1>14, <1>15, <1>16, <1>17, <1>18, <1>19, <1>20, <1>21, <1>22, <1>23 DEF Next

(* ---- Stamps -------------------------------------------------------------- *)


\* A file that is edited gets a stamp nobody has.
LEMMA StampedKept ==
  ASSUME Inv, TypeOK', Turn', [Next]_vars
  PROVE  Stamped'
<1>a. TypeOK /\ Turn /\ Stamped /\ LoadShape /\ LoadFollows
  BY DEF Inv
<1> USE <1>a
<1> USE DEF files, memory, index, Stamped, Reading, NoLoad, NoOp, NoSchema, Empty,
     Nothing, LoadFailed, Initializes, Noticed, Kinds
<1>1. ASSUME NEW kind \in Kinds, Begin(kind)
      PROVE  Stamped'
  BY <1>1 DEF Begin, Read, IsOf
<1>2. CASE BeginInit
  BY <1>2 DEF BeginInit, Read, IsOf
<1>3. CASE ReadRegistry
  <2>1. /\ load'.pc = "statReg" /\ load'.types = regFile.text /\ load'.todo = regFile.text
        /\ load'.regStamp = regFile.stamp /\ load'.got = NoLoad.got
        /\ regFile.text \in Registries /\ Read' = {}
    BY <1>3, RegistryIsRead
  <2>2. IsOf(load.types, load.regStamp, regFile)'
    BY <1>3, <2>1 DEF ReadRegistry, IsOf
  <2>3. ready' => ~Initializes
    BY <1>3 DEF ReadRegistry, Turn
  <2>4. ready' => ready /\ registry' = registry
    BY <1>3, <2>3 DEF ReadRegistry
  <2> QED
    BY <1>3, <2>1, <2>2, <2>4 DEF ReadRegistry, IsOf
<1>4. CASE CreateRegistry
  <2>1. edits' = edits + 1 /\ edits \in Nat
    BY <1>4 DEF CreateRegistry, TypeOK, Stamps
  <2>2. ~ready /\ ~Reading /\ load' = load /\ ready' = ready
    BY <1>4 DEF CreateRegistry, Turn
  <2> QED
    BY <1>4, <2>1, <2>2 DEF CreateRegistry, TypeOK, Stamps
<1>5. CASE RegistryFails
  BY <1>5 DEF RegistryFails, Read, IsOf
<1>6. CASE StatRegistry
  BY <1>6 DEF StatRegistry, Read, IsOf
<1>7. CASE Swap
  BY <1>7 DEF Swap, Read, IsOf
<1>8. ASSUME NEW t \in Types, ReadSchema(t)
      PROVE  Stamped'
  <2>1. /\ load'.pc = "statSchema" /\ load'.types = load.types /\ load'.todo = load.todo \ {t}
        /\ load'.regStamp = load.regStamp
        /\ \A u \in Types : load'.got[u] = IF u = t THEN schemaFile[t] ELSE load.got[u]
        /\ Read' = Read \union {t} /\ t \in load.types /\ Reading /\ Reading'
    BY <1>8, SchemaIsRead DEF ReadSchema, Reading
  <2>2. IsOf(schemaFile[t].text, schemaFile[t].stamp, schemaFile[t])
    BY DEF IsOf
  <2>3. Read \subseteq Types
    BY DEF Read, TypeOK, Loads, Registries
  <2>4. \A u \in Read' : IsOf(load'.got[u].text, load'.got[u].stamp, schemaFile[u])
    BY <2>1, <2>2, <2>3
  <2> QED
    BY <1>8, <2>1, <2>4 DEF ReadSchema, IsOf
<1>9. ASSUME NEW t \in Types, SchemaFails(t)
      PROVE  Stamped'
  BY <1>9 DEF SchemaFails, Read, IsOf
<1>10. ASSUME NEW t \in Types, StatSchema(t)
       PROVE  Stamped'
  BY <1>10 DEF StatSchema, Read, IsOf
<1>11. ASSUME NEW t \in Types, StatFails(t)
       PROVE  Stamped'
  BY <1>11 DEF StatFails, Read, IsOf
<1>12. ASSUME NEW d \in Docs, NEW c \in Contents, Write(d, c)
       PROVE  Stamped'
  BY <1>12 DEF Write, Read, IsOf
<1>13. CASE Refuse
  BY <1>13 DEF Refuse, Read, IsOf
<1>14. CASE PlanSweep
  BY <1>14 DEF PlanSweep, Read, IsOf
<1>15. CASE FinishSweep
  BY <1>15 DEF FinishSweep, Read, IsOf
<1>16. ASSUME NEW d \in Docs, ScanSkip(d)
       PROVE  Stamped'
  BY <1>16 DEF ScanSkip, Read, IsOf
<1>17. ASSUME NEW d \in Docs, ScanIndex(d)
       PROVE  Stamped'
  BY <1>17 DEF ScanIndex, Read, IsOf
<1>18. ASSUME NEW d \in Docs, ScanFails(d)
       PROVE  Stamped'
  BY <1>18 DEF ScanFails, Read, IsOf
<1>19. ASSUME NEW text \in Registries \union {Invalid, Missing}, EditRegistry(text)
       PROVE  Stamped'
  <2>1. edits' = edits + 1 /\ edits \in Nat
    BY <1>19 DEF EditRegistry, TypeOK, Stamps
  <2>2. /\ regFile'.stamp = edits + 1 /\ schemaFile' = schemaFile /\ load' = load
        /\ ready' = ready /\ registry' = registry /\ schemas' = schemas
    BY <1>19 DEF EditRegistry
  <2>3. registry.stamp \in Nat /\ load.regStamp \in Nat
    BY DEF TypeOK, Loads, Stamps
  <2>4. \A t \in Types : /\ schemaFile[t].stamp \in Nat /\ schemas[t].stamp \in Nat
                         /\ load.got[t].stamp \in Nat
    BY DEF TypeOK, Loads, Stamps
  <2>5. registry.types \subseteq Types /\ Read \subseteq Types /\ Read' = Read
    BY <2>2 DEF Read, TypeOK, Loads, Registries
  <2> HIDE DEF Stamped
  <2>6. \A t \in Types : schemaFile[t].stamp <= edits + 1
    BY <2>1, <2>4 DEF Stamped
  <2>7. ready => IsOf(registry.types, registry.stamp, regFile)'
    BY <2>1, <2>2, <2>3 DEF Stamped, IsOf
  <2>8. ready =>
          \A t \in registry.types : IsOf(schemas[t].text, schemas[t].stamp, schemaFile[t])'
    BY <2>1, <2>2, <2>4, <2>5 DEF Stamped, IsOf
  <2>9. Reading => IsOf(load.types, load.regStamp, regFile)'
    BY <2>1, <2>2, <2>3 DEF Stamped, IsOf
  <2>10. Reading => \A t \in Read : IsOf(load.got[t].text, load.got[t].stamp, schemaFile[t])'
    BY <2>1, <2>2, <2>4, <2>5 DEF Stamped, IsOf
  <2> QED
    BY <2>1, <2>2, <2>5, <2>6, <2>7, <2>8, <2>9, <2>10 DEF Stamped
<1>20. ASSUME NEW t \in Types, NEW text \in Schemas \union {Invalid, Missing},
              EditSchema(t, text)
       PROVE  Stamped'
  <2>1. edits' = edits + 1 /\ edits \in Nat
    BY <1>20 DEF EditSchema, TypeOK, Stamps
  <2>2. /\ regFile' = regFile /\ load' = load
        /\ ready' = ready /\ registry' = registry /\ schemas' = schemas
        /\ \A u \in Types : 
             schemaFile'[u] = IF u = t THEN [text |-> text, stamp |-> edits + 1] ELSE schemaFile[u]
    BY <1>20 DEF EditSchema, TypeOK
  <2>3. registry.stamp \in Nat /\ load.regStamp \in Nat /\ regFile.stamp \in Nat
    BY DEF TypeOK, Loads, Stamps
  <2>4. \A u \in Types : /\ schemaFile[u].stamp \in Nat /\ schemas[u].stamp \in Nat
                         /\ load.got[u].stamp \in Nat
    BY DEF TypeOK, Loads, Stamps
  <2>5. registry.types \subseteq Types /\ Read \subseteq Types /\ Read' = Read
    BY <2>2 DEF Read, TypeOK, Loads, Registries
  <2> HIDE DEF Stamped
  <2>6. \A u \in Types : schemaFile'[u].stamp <= edits + 1
    BY <2>1, <2>2, <2>4 DEF Stamped
  <2>7. ready => IsOf(registry.types, registry.stamp, regFile)'
    BY <2>1, <2>2, <2>3 DEF Stamped, IsOf
  <2>8. ready =>
          \A u \in registry.types : IsOf(schemas[u].text, schemas[u].stamp, schemaFile[u])'
    BY <2>1, <2>2, <2>4, <2>5 DEF Stamped, IsOf
  <2>9. Reading => IsOf(load.types, load.regStamp, regFile)'
    BY <2>1, <2>2, <2>3 DEF Stamped, IsOf
  <2>10. Reading => \A u \in Read : IsOf(load.got[u].text, load.got[u].stamp, schemaFile[u])'
    BY <2>1, <2>2, <2>4, <2>5 DEF Stamped, IsOf
  <2> QED
    BY <2>1, <2>2, <2>3, <2>5, <2>6, <2>7, <2>8, <2>9, <2>10 DEF Stamped
<1>21. ASSUME NEW d \in Docs, NEW c \in Contents \union {Garbled}, EditDoc(d, c)
       PROVE  Stamped'
  BY <1>21 DEF EditDoc, Read, IsOf
<1>22. CASE Crash
  BY <1>22 DEF Crash, Read, IsOf
<1>23. CASE UNCHANGED vars
  BY <1>23 DEF vars, Read, IsOf
<1> QED
  BY <1>1, <1>2, <1>3, <1>4, <1>5, <1>6, <1>7, <1>8, <1>9, <1>10, <1>11, <1>12, <1>13,
     <1>14, <1>15, <1>16, <1>17, <1>18, <1>19, <1>20, <1>21, <1>22, <1>23 DEF Next

(* ---- What operations see ------------------------------------------------- *)

\* An operation that finds no stale stamp works on what the files say.
LEMMA FreshFollows ==
  ASSUME Inv, ready, ~Stale, ~Torn
  PROVE  /\ regFile.text = registry.types
         /\ \A t \in registry.types : schemaFile[t].text = schemas[t].text
<1>1. TypeOK /\ Stamped /\ TypesHaveSchemas
  BY DEF Inv
<1>2. Uncached \notin Stamps
  BY DEF Uncached, Stamps
<1>3. regFile.text = registry.types
  <2>1. cached.reg = registry.stamp /\ registry.stamp \in Stamps
    BY <1>1 DEF Torn, TypeOK
  <2>2. regFile.stamp = registry.stamp
    BY <1>2, <2>1 DEF Stale, Changed
  <2> QED
    BY <1>1, <2>2 DEF Stamped, IsOf
<1>4. ASSUME NEW t \in registry.types
      PROVE  schemaFile[t].text = schemas[t].text
  <2>1. t \in Types
    BY <1>1 DEF TypeOK, Registries
  <2>2. cached.of[t] = schemas[t].stamp /\ schemas[t].stamp \in Stamps
    BY <1>1, <2>1 DEF Torn, TypeOK
  <2>3. schemaFile[t].stamp = schemas[t].stamp
    BY <1>2, <2>1, <2>2 DEF Stale, Changed
  <2> QED
    BY <1>1, <2>3 DEF Stamped, IsOf
<1> QED
  BY <1>3, <1>4

\* No step lets an operation work on other schemas than it found.
LEMMA FollowKept ==
  ASSUME Inv, TypeOK', Turn', [Next]_vars
  PROVE  SchemasFollowFiles'
<1>a. TypeOK /\ Turn /\ LoadShape /\ LoadFollows /\ SchemasFollowFiles
  BY DEF Inv
<1> USE <1>a
<1> USE DEF files, memory, index, SchemasFollowFiles, Torn, NoOp
<1>1. ASSUME NEW kind \in Kinds, Begin(kind)
      PROVE  SchemasFollowFiles'
  <2>1. CASE Stale \/ kind = "reload"
    BY <1>1, <2>1 DEF Begin
  <2>2. CASE ~Stale /\ kind # "reload"
    BY <1>1, <2>2, FreshFollows DEF Begin
  <2> QED
    BY <2>1, <2>2
<1>2. CASE BeginInit
  BY <1>2 DEF BeginInit, LoadFailed, Turn, TypeOK, Ops
<1>3. CASE ReadRegistry
  <2>1. op'.pc \notin {"body", "sweep"}
    BY <1>3 DEF ReadRegistry, Turn
  <2> QED
    BY <2>1
<1>4. CASE CreateRegistry
  <2>1. op'.pc \notin {"body", "sweep"}
    BY <1>4 DEF CreateRegistry, Turn
  <2> QED
    BY <2>1
<1>5. CASE RegistryFails
  BY <1>5 DEF RegistryFails, LoadFailed, Turn, TypeOK, Ops
<1>6. CASE StatRegistry
  BY <1>6 DEF StatRegistry, LoadFailed, Turn, TypeOK, Ops
<1>7. CASE Swap
  <2>1. Reading /\ Read = load.types /\ op.pc = "load"
    BY <1>7 DEF Swap, Reading, Read, Turn
  <2>2. ~op.edited => /\ regFile.text = load.types
                      /\ \A t \in load.types : schemaFile[t].text = load.got[t].text
    BY <2>1 DEF LoadFollows
  <2>3. op'.edited = op.edited \/ op'.pc = "idle"
    BY <1>7 DEF Swap, TypeOK, Ops
  <2> QED
    BY <1>7, <2>2, <2>3 DEF Swap
<1>8. ASSUME NEW t \in Types, ReadSchema(t)
      PROVE  SchemasFollowFiles'
  BY <1>8 DEF ReadSchema, LoadFailed, Turn, TypeOK, Ops
<1>9. ASSUME NEW t \in Types, SchemaFails(t)
      PROVE  SchemasFollowFiles'
  BY <1>9 DEF SchemaFails, LoadFailed, Turn, TypeOK, Ops
<1>10. ASSUME NEW t \in Types, StatSchema(t)
       PROVE  SchemasFollowFiles'
  BY <1>10 DEF StatSchema, LoadFailed, Turn, TypeOK, Ops
<1>11. ASSUME NEW t \in Types, StatFails(t)
       PROVE  SchemasFollowFiles'
  BY <1>11 DEF StatFails, LoadFailed, Turn, TypeOK, Ops
<1>12. ASSUME NEW d \in Docs, NEW c \in Contents, Write(d, c)
       PROVE  SchemasFollowFiles'
  BY <1>12 DEF Write, LoadFailed, Turn, TypeOK, Ops
<1>13. CASE Refuse
  BY <1>13 DEF Refuse, LoadFailed, Turn, TypeOK, Ops
<1>14. CASE PlanSweep
  BY <1>14 DEF PlanSweep, LoadFailed, Turn, TypeOK, Ops
<1>15. CASE FinishSweep
  BY <1>15 DEF FinishSweep, LoadFailed, Turn, TypeOK, Ops
<1>16. ASSUME NEW d \in Docs, ScanSkip(d)
       PROVE  SchemasFollowFiles'
  BY <1>16 DEF ScanSkip, LoadFailed, Turn, TypeOK, Ops
<1>17. ASSUME NEW d \in Docs, ScanIndex(d)
       PROVE  SchemasFollowFiles'
  BY <1>17 DEF ScanIndex, LoadFailed, Turn, TypeOK, Ops
<1>18. ASSUME NEW d \in Docs, ScanFails(d)
       PROVE  SchemasFollowFiles'
  BY <1>18 DEF ScanFails, LoadFailed, Turn, TypeOK, Ops
<1>19. ASSUME NEW text \in Registries \union {Invalid, Missing}, EditRegistry(text)
       PROVE  SchemasFollowFiles'
  <2>1. op'.edited \/ op'.pc = "idle"
    BY <1>19 DEF EditRegistry, Noticed, TypeOK, Ops
  <2> QED
    BY <2>1
<1>20. ASSUME NEW t \in Types, NEW text \in Schemas \union {Invalid, Missing},
              EditSchema(t, text)
       PROVE  SchemasFollowFiles'
  <2>1. op'.edited \/ op'.pc = "idle"
    BY <1>20 DEF EditSchema, Noticed, TypeOK, Ops
  <2> QED
    BY <2>1
<1>21. ASSUME NEW d \in Docs, NEW c \in Contents \union {Garbled}, EditDoc(d, c)
       PROVE  SchemasFollowFiles'
  BY <1>21 DEF EditDoc, LoadFailed, Turn, TypeOK, Ops
<1>22. CASE Crash
  BY <1>22 DEF Crash, LoadFailed, Turn, TypeOK, Ops
<1>23. CASE UNCHANGED vars
  BY <1>23 DEF vars
<1> QED
  BY <1>1, <1>2, <1>3, <1>4, <1>5, <1>6, <1>7, <1>8, <1>9, <1>10, <1>11, <1>12, <1>13,
     <1>14, <1>15, <1>16, <1>17, <1>18, <1>19, <1>20, <1>21, <1>22, <1>23 DEF Next

\* A sweep goes through the documents.
LEMMA SweepShaped ==
  ASSUME Inv, TypeOK', Turn', [Next]_vars
  PROVE  SweepShape'
<1>a. TypeOK /\ Turn /\ SweepShape
  BY DEF Inv
<1> USE <1>a
<1> USE DEF files, memory, index, SweepShape, DocsOf, FpOf, NoOp
<1>1. ASSUME NEW kind \in Kinds, Begin(kind)
      PROVE  SweepShape'
  <2>1. op'.pc # "sweep"
    BY <1>1 DEF Begin
  <2> QED
    BY <2>1
<1>2. CASE BeginInit
  BY <1>2 DEF BeginInit, Indexed, Dirty, LoadFailed, Noticed, TypeOK, Ops
<1>3. CASE ReadRegistry
  <2>1. op'.pc # "sweep"
    BY <1>3 DEF ReadRegistry, Turn
  <2> QED
    BY <2>1
<1>4. CASE CreateRegistry
  BY <1>4 DEF CreateRegistry, Indexed, Dirty, LoadFailed, Noticed, TypeOK, Ops
<1>5. CASE RegistryFails
  BY <1>5 DEF RegistryFails, Indexed, Dirty, LoadFailed, Noticed, TypeOK, Ops
<1>6. CASE StatRegistry
  BY <1>6 DEF StatRegistry, Indexed, Dirty, LoadFailed, Noticed, TypeOK, Ops
<1>7. CASE Swap
  <2>1. op'.pc # "sweep"
    BY <1>7 DEF Swap, TypeOK, Ops
  <2> QED
    BY <2>1
<1>8. ASSUME NEW t \in Types, ReadSchema(t)
      PROVE  SweepShape'
  BY <1>8 DEF ReadSchema, Indexed, Dirty, LoadFailed, Noticed, TypeOK, Ops
<1>9. ASSUME NEW t \in Types, SchemaFails(t)
      PROVE  SweepShape'
  BY <1>9 DEF SchemaFails, Indexed, Dirty, LoadFailed, Noticed, TypeOK, Ops
<1>10. ASSUME NEW t \in Types, StatSchema(t)
       PROVE  SweepShape'
  BY <1>10 DEF StatSchema, Indexed, Dirty, LoadFailed, Noticed, TypeOK, Ops
<1>11. ASSUME NEW t \in Types, StatFails(t)
       PROVE  SweepShape'
  BY <1>11 DEF StatFails, Indexed, Dirty, LoadFailed, Noticed, TypeOK, Ops
<1>12. ASSUME NEW d \in Docs, NEW c \in Contents, Write(d, c)
       PROVE  SweepShape'
  BY <1>12 DEF Write, Indexed, Dirty, LoadFailed, Noticed, TypeOK, Ops
<1>13. CASE Refuse
  BY <1>13 DEF Refuse, Indexed, Dirty, LoadFailed, Noticed, TypeOK, Ops
<1>14. CASE PlanSweep
  BY <1>14 DEF PlanSweep, Indexed, Dirty, LoadFailed, Noticed, TypeOK, Ops
<1>15. CASE FinishSweep
  BY <1>15 DEF FinishSweep, Indexed, Dirty, LoadFailed, Noticed, TypeOK, Ops
<1>16. ASSUME NEW d \in Docs, ScanSkip(d)
       PROVE  SweepShape'
  <2>1. /\ op'.todo = op.todo \ {d} /\ op'.dirty = op.dirty /\ op'.errors = op.errors
        /\ TypeOf[d] \notin op.dirty
    BY <1>16 DEF ScanSkip, UnchangedFile, TypeOK, Ops
  <2> QED
    BY <1>16, <2>1 DEF ScanSkip
<1>17. ASSUME NEW d \in Docs, ScanIndex(d)
       PROVE  SweepShape'
  <2>1. op'.todo = op.todo \ {d} /\ op'.dirty = op.dirty /\ op'.errors = op.errors
    BY <1>17 DEF ScanIndex, TypeOK, Ops
  <2>2. /\ row'[d].fp = FpOf(TypeOf[d])
        /\ \A e \in Docs : e # d => row'[e] = row[e]
    BY <1>17 DEF ScanIndex, Indexed, TypeOK
  <2> QED
    BY <1>17, <2>1, <2>2 DEF ScanIndex
<1>18. ASSUME NEW d \in Docs, ScanFails(d)
       PROVE  SweepShape'
  BY <1>18 DEF ScanFails, Indexed, Dirty, LoadFailed, Noticed, TypeOK, Ops
<1>19. ASSUME NEW text \in Registries \union {Invalid, Missing}, EditRegistry(text)
       PROVE  SweepShape'
  BY <1>19 DEF EditRegistry, Indexed, Dirty, LoadFailed, Noticed, TypeOK, Ops
<1>20. ASSUME NEW t \in Types, NEW text \in Schemas \union {Invalid, Missing},
              EditSchema(t, text)
       PROVE  SweepShape'
  BY <1>20 DEF EditSchema, Indexed, Dirty, LoadFailed, Noticed, TypeOK, Ops
<1>21. ASSUME NEW d \in Docs, NEW c \in Contents \union {Garbled}, EditDoc(d, c)
       PROVE  SweepShape'
  BY <1>21 DEF EditDoc, Indexed, Dirty, LoadFailed, Noticed, TypeOK, Ops
<1>22. CASE Crash
  BY <1>22 DEF Crash, Indexed, Dirty, LoadFailed, Noticed, TypeOK, Ops
<1>23. CASE UNCHANGED vars
  BY <1>23 DEF vars
<1> QED
  BY <1>1, <1>2, <1>3, <1>4, <1>5, <1>6, <1>7, <1>8, <1>9, <1>10, <1>11, <1>12, <1>13,
     <1>14, <1>15, <1>16, <1>17, <1>18, <1>19, <1>20, <1>21, <1>22, <1>23 DEF Next

\* The fingerprints cover the rows.
LEMMA RowsKept ==
  ASSUME Inv, TypeOK', Turn', [Next]_vars
  PROVE  FingerprintCoversRows'
<1>a. TypeOK /\ Turn /\ SweepShape /\ FingerprintCoversRows
  BY DEF Inv
<1> USE <1>a
<1> USE DEF files, memory, index, FingerprintCoversRows, FpOf
<1>1. ASSUME NEW kind \in Kinds, Begin(kind)
      PROVE  FingerprintCoversRows'
  BY <1>1 DEF Begin, Indexed, LoadFailed
<1>2. CASE BeginInit
  BY <1>2 DEF BeginInit, Indexed, LoadFailed
<1>3. CASE ReadRegistry
  BY <1>3 DEF ReadRegistry, Indexed, LoadFailed
<1>4. CASE CreateRegistry
  BY <1>4 DEF CreateRegistry, Indexed, LoadFailed
<1>5. CASE RegistryFails
  BY <1>5 DEF RegistryFails, Indexed, LoadFailed
<1>6. CASE StatRegistry
  BY <1>6 DEF StatRegistry, Indexed, LoadFailed
<1>7. CASE Swap
  BY <1>7 DEF Swap, Indexed, LoadFailed
<1>8. ASSUME NEW t \in Types, ReadSchema(t)
      PROVE  FingerprintCoversRows'
  BY <1>8 DEF ReadSchema, Indexed, LoadFailed
<1>9. ASSUME NEW t \in Types, SchemaFails(t)
      PROVE  FingerprintCoversRows'
  BY <1>9 DEF SchemaFails, Indexed, LoadFailed
<1>10. ASSUME NEW t \in Types, StatSchema(t)
       PROVE  FingerprintCoversRows'
  BY <1>10 DEF StatSchema, Indexed, LoadFailed
<1>11. ASSUME NEW t \in Types, StatFails(t)
       PROVE  FingerprintCoversRows'
  BY <1>11 DEF StatFails, Indexed, LoadFailed
<1>12. ASSUME NEW d \in Docs, NEW c \in Contents, Write(d, c)
       PROVE  FingerprintCoversRows'
  BY <1>12 DEF Write, Indexed, LoadFailed
<1>13. CASE Refuse
  BY <1>13 DEF Refuse, Indexed, LoadFailed
<1>14. CASE PlanSweep
  BY <1>14 DEF PlanSweep, Indexed, LoadFailed
<1>15. CASE FinishSweep
  <2>1. ASSUME NEW d \in Docs, row'[d] # NoRow, TypeOf[d] \notin mixed'
        PROVE  row'[d].fp = stored'[TypeOf[d]]
    <3>1. /\ TypeOf[d] \in registry.types /\ TypeOf[d] \in Types /\ row'[d] = row[d]
          /\ row[d] # NoRow
      BY <1>15, <2>1 DEF FinishSweep
    <3>2. stored'[TypeOf[d]] = FpOf(TypeOf[d])
      BY <1>15, <3>1 DEF FinishSweep
    <3>3. /\ d \notin op.errors /\ d \notin op.todo
          /\ (TypeOf[d] \notin op.dirty => TypeOf[d] \notin mixed)
      BY <1>15, <2>1, <3>1 DEF FinishSweep
    <3>4. CASE TypeOf[d] \in op.dirty
      BY <1>15, <3>1, <3>2, <3>3, <3>4 DEF FinishSweep, SweepShape
    <3>5. CASE TypeOf[d] \notin op.dirty
      <4>1. stored[TypeOf[d]] = FpOf(TypeOf[d])
        BY <1>15, <3>1, <3>5 DEF FinishSweep, SweepShape
      <4>2. row[d].fp = stored[TypeOf[d]]
        BY <3>1, <3>3, <3>5
      <4> QED
        BY <3>1, <3>2, <4>1, <4>2
    <3> QED
      BY <3>4, <3>5
  <2> QED
    BY <2>1
<1>16. ASSUME NEW d \in Docs, ScanSkip(d)
       PROVE  FingerprintCoversRows'
  BY <1>16 DEF ScanSkip, Indexed, LoadFailed
<1>17. ASSUME NEW d \in Docs, ScanIndex(d)
       PROVE  FingerprintCoversRows'
  BY <1>17 DEF ScanIndex, Indexed, LoadFailed
<1>18. ASSUME NEW d \in Docs, ScanFails(d)
       PROVE  FingerprintCoversRows'
  BY <1>18 DEF ScanFails, Indexed, LoadFailed
<1>19. ASSUME NEW text \in Registries \union {Invalid, Missing}, EditRegistry(text)
       PROVE  FingerprintCoversRows'
  BY <1>19 DEF EditRegistry, Indexed, LoadFailed
<1>20. ASSUME NEW t \in Types, NEW text \in Schemas \union {Invalid, Missing},
              EditSchema(t, text)
       PROVE  FingerprintCoversRows'
  BY <1>20 DEF EditSchema, Indexed, LoadFailed
<1>21. ASSUME NEW d \in Docs, NEW c \in Contents \union {Garbled}, EditDoc(d, c)
       PROVE  FingerprintCoversRows'
  BY <1>21 DEF EditDoc, Indexed, LoadFailed
<1>22. CASE Crash
  BY <1>22 DEF Crash, Indexed, LoadFailed
<1>23. CASE UNCHANGED vars
  BY <1>23 DEF vars
<1> QED
  BY <1>1, <1>2, <1>3, <1>4, <1>5, <1>6, <1>7, <1>8, <1>9, <1>10, <1>11, <1>12, <1>13,
     <1>14, <1>15, <1>16, <1>17, <1>18, <1>19, <1>20, <1>21, <1>22, <1>23 DEF Next

(* ---- The invariant ------------------------------------------------------- *)

LEMMA InitInv ==
  ASSUME Init
  PROVE  Inv
<1>1. /\ regFile \in [text : Registries \union {Invalid, Missing}, stamp : Stamps]
      /\ schemaFile \in [Types -> [text : Schemas \union {Invalid, Missing}, stamp : Stamps]]
      /\ edits \in Stamps
  BY DEF Init, Registries, Stamps
<1>2. /\ registry \in [types : Registries, stamp : Stamps]
      /\ schemas \in [Types -> [text : Schemas \union {Missing}, stamp : Stamps]]
  BY DEF Init, Empty, NoSchema, Registries, Stamps
<1>3. cached \in [reg : Cached, of : [Types -> Cached]]
  BY DEF Init, Nothing, Cached
<1>4. TypeOK
  BY <1>1, <1>2, <1>3, IdleTyped DEF Init, TypeOK
<1>5. load.pc = "idle" /\ op.pc = "idle" /\ ~ready
  BY DEF Init, NoLoad, NoOp
<1>6. Turn /\ LoadShape /\ LoadFollows /\ TypesHaveSchemas /\ SchemasFollowFiles /\ SweepShape
  BY <1>5 DEF Turn, LoadShape, LoadFollows, Reading, TypesHaveSchemas,
     SchemasFollowFiles,
     SweepShape
<1>7. Stamped /\ FingerprintCoversRows
  BY <1>5 DEF Init, Stamped, Reading, FingerprintCoversRows
<1> QED
  BY <1>4, <1>6, <1>7 DEF Inv

LEMMA NextInv ==
  ASSUME Inv, [Next]_vars
  PROVE  Inv'
<1>1. TypeOK' /\ Turn'
  BY Typed, TurnKept
<1> QED
  BY <1>1, LoadShaped, LoadFollowed, SchemasKept, StampedKept, FollowKept, SweepShaped,
     RowsKept DEF Inv

\* The invariant holds of every behaviour.
THEOREM InvHolds == Spec => []Inv
BY InitInv, NextInv, PTL DEF Spec

(* ---- What it says -------------------------------------------------------- *)

\* Files, memory, loads, operations and rows always have their types: in
\* particular no row is built, and no fingerprint stored, for a type without a
\* schema in memory.
THEOREM TypeCorrect == Spec => []TypeOK
<1>1. Inv => TypeOK
  BY DEF Inv
<1> QED
  BY <1>1, InvHolds, PTL

\* At every await of an open engine each declared type has its schema in
\* memory: loadSchemas swaps registry and schemas together.
THEOREM TypesHaveSchemasHolds == Spec => []TypesHaveSchemas
<1>1. Inv => TypesHaveSchemas
  BY DEF Inv
<1> QED
  BY <1>1, InvHolds, PTL

\* An operation under the lock works on what the files said when it came,
\* unless a load failed or was torn: the comparison of stamps in isStale is
\* enough.
THEOREM SchemasFollowFilesHolds == Spec => []SchemasFollowFiles
<1>1. Inv => SchemasFollowFiles
  BY DEF Inv
<1> QED
  BY <1>1, InvHolds, PTL

\* The stored fingerprint of a type is the one its rows were built under, or
\* the type is known to be mixed: indexAll may skip what it skips.
THEOREM FingerprintCoversRowsHolds == Spec => []FingerprintCoversRows
<1>1. Inv => FingerprintCoversRows
  BY DEF Inv
<1> QED
  BY <1>1, InvHolds, PTL
=============================================================================
