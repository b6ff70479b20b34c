------------------------- MODULE GeometryRoundTrip -------------------------
(***************************************************************************)
(* Two sessions of the program.  The first reads its input, runs the       *)
(* processors that may suppress items and measure them, and writes the     *)
(* geometry and its metadata.  The second reads what was written: a solid  *)
(* of a brep file finds its metadata again by its unique identifier.       *)
(*                                                                         *)
(* The items of one processor are processed in any order, by workers in    *)
(* parallel; processors follow each other.                                 *)
(***************************************************************************)
EXTENDS GeometryReader

CONSTANTS Processors, \* the classes of the first session's processors, in order
          Configs,    \* parameters of checker and writer, and what session two is given
          UNIT_SHIFT, \* difference of the patterns of a value in mm and in each unit
          Drifts      \* how far writing and reading, or an imprint, may move a pattern

ASSUME RoundTripAssumption ==
  /\ Processors \in Seq({"GeometryShapeChecker", "GeometryPropertyBuilder", "CollisionDetector"})
  /\ \A c \in Configs : /\ c.format \in {"brep", "step"} /\ c.outputUnit \in DOMAIN UNIT_SHIFT
                         /\ c.given \in {"none", "named", "newest"}
  /\ UNIT_SHIFT \in [DOMAIN UNIT_SHIFT -> Nat]
  /\ {"MM", "M"} \subseteq DOMAIN UNIT_SHIFT /\ UNIT_SHIFT["MM"] = 0
  /\ Drifts \subseteq Nat

VARIABLES session,   \* 1 or 2
          config,
          stage,     \* number of the processor in progress
          todo,      \* items it has still to process
          myGeometryUniqueIds,
          metadata,  \* the json files of the property builders, in the order they were written
          original   \* history: the items of session one, as written

vars == <<readerVars, session, config, stage, todo, myGeometryUniqueIds, metadata, original>>
sessionVars == <<session, config, original>>
inputVars == <<input, at, reading, hDoc, tempDir, collision, mySolidIDs, unreadable>>

NoFile == [exists |-> FALSE, parses |-> TRUE, rows |-> <<>>]

-----------------------------------------------------------------------------
(* GeometryProcessor: items by their index *)

itemCount == Len(mySolidIDs)
item(i) == loaded.solids[mySolidIDs[i]]

itemSuppressed(i) ==
  /\ mySolidIDs[i] \in DOMAIN myShapeErrors
  /\ myShapeErrors[mySolidIDs[i]] # "NoError"

suppressItem(i, error) == myShapeErrors' = assignOne(myShapeErrors, mySolidIDs[i], error)

itemName(i) ==
  IF mySolidIDs[i] \in DOMAIN loaded.names THEN loaded.names[mySolidIDs[i]] ELSE <<"item", i>>

itemMaterial(i) ==
  IF mySolidIDs[i] \in DOMAIN loaded.materials THEN loaded.materials[mySolidIDs[i]] ELSE "unknown"

\* What is too large becomes infinite.
Drifted(geometry, d) ==
  [c \in DOMAIN geometry |->
     LET room == INFINITY - Magnitude(geometry[c]) IN geometry[c] + (IF d < room THEN d ELSE room)]

-----------------------------------------------------------------------------
(* The processors *)

\* The items that the workers share in a stage; the rounds of the collision detector
\* are one step here.
Tasks(n, count) ==
  IF n <= Len(Processors) /\ Processors[n] # "CollisionDetector" THEN 1 .. count ELSE {}

\* A worker has item i of the processor in progress.
Processing(class, i) ==
  /\ session = 1 /\ reading = "published"
  /\ stage <= Len(Processors) /\ Processors[stage] = class
  /\ i \in todo
  /\ todo' = todo \ {i}
  /\ UNCHANGED <<inputVars, sessionVars, loaded, stage, metadata>>

\* The message of the basic check: empty when no status but NoError is found.
checkShape(statuses) == statuses \ {"NoError"} # {}

\* The check for boolean operations tells of a fault only when the faulty subshapes
\* are saved as well.
BOPSingleCheck(faulty) == faulty /\ config.savingSubshape

\* An exception counts as a fault, but without a message nothing comes of it.
ShapeFault(statuses, faulty, throws, named) ==
  /\ config.checkingBooleanOperation
  /\ throws \/ BOPSingleCheck(faulty)
  /\ checkShape(statuses) \/ (BOPSingleCheck(faulty) /\ named)

CheckItem(i) ==
  \E statuses \in SUBSET {"NotClosed"}, faulty, throws, named \in BOOLEAN :
    IF /\ ~itemSuppressed(i)
       /\ ShapeFault(statuses, faulty, throws, named) /\ config.suppressBOPCheckFailed
      THEN suppressItem(i, "UnknownError")
      ELSE UNCHANGED myShapeErrors

CheckShape(i) ==
  /\ Processing("GeometryShapeChecker", i)
  /\ CheckItem(i)
  /\ UNCHANGED myGeometryUniqueIds

\* What is measured of a shape, as far as it is used: the volume and the centre of mass.
geometryProperty(i) == item(i).geometry

\* Mutant: an item that is suppressed already is given the second reason.
itemPropertyCheckAgain(i) ==
  IF VolumeTooSmall(geometryProperty(i))
    THEN suppressItem(i, "VolumeTooSmall") ELSE UNCHANGED myShapeErrors

\* This can be run a second time.
itemPropertyCheck(i) ==
  IF VolumeTooSmall(geometryProperty(i)) /\ ~itemSuppressed(i)
    THEN suppressItem(i, "VolumeTooSmall") ELSE UNCHANGED myShapeErrors

BuildProperty(i) ==
  /\ Processing("GeometryPropertyBuilder", i)
  /\ itemPropertyCheck(i)
  /\ myGeometryUniqueIds' = assignOne(myGeometryUniqueIds, i, geometryUniqueId(geometryProperty(i)))

\* The items that are not suppressed, in the order of their indices.
keptItems == {i \in 1 .. itemCount : ~itemSuppressed(i)}

\* Mutant: the material of the row before is written for an item without one.
RowMaterialCarried(i) ==
  LET before == {j \in keptItems : j <= i /\ mySolidIDs[j] \in DOMAIN loaded.materials}
  IN  IF before = {} THEN "unknown" ELSE itemMaterial(Max(before))

RowMaterial(i) == itemMaterial(i)

\* The rows of the items that are not suppressed.  An item without a colour gets
\* that of a row before it, and a comma follows a row unless it is that of the last
\* item: the file cannot be parsed when the last item has no row.  (measured is history:
\* what the identifiers were made from.)
writeMetaData ==
  LET coloured(i) == {j \in keptItems : j <= i /\ mySolidIDs[j] \in DOMAIN loaded.colours}
      colour(i)   == loaded.colours[mySolidIDs[Max(coloured(i))]]
      row(i) == [uniqueId |-> myGeometryUniqueIds[i], sequenceId |-> i, name |-> itemName(i),
                 material |-> RowMaterial(i), suppressed |-> FALSE]
  IN  [exists   |-> TRUE,
       parses   |-> keptItems = {} \/ itemCount \in keptItems,
       measured |-> [i \in keptItems |-> item(i).geometry],
       rows     |-> [i \in keptItems |-> IF coloured(i) = {} THEN row(i)
                                         ELSE assignOne(row(i), "color", colour(i))]]

\* The end of a processor; the vectors of the next one are made anew.
prepareOutput ==
  /\ session = 1 /\ reading = "published" /\ stage <= Len(Processors)
  /\ Processors[stage] # "CollisionDetector" /\ todo = {}
  /\ metadata' = IF Processors[stage] = "GeometryPropertyBuilder"
                 THEN Append(metadata, writeMetaData) ELSE metadata
  /\ stage' = stage + 1
  /\ todo' = Tasks(stage + 1, itemCount)
  /\ myGeometryUniqueIds' = <<>>
  /\ UNCHANGED <<inputVars, sessionVars, loaded, myShapeErrors>>

\* The geometry of each solid moves a little.
Moved(solids, d) ==
  [k \in DOMAIN solids |-> [file |-> solids[k].file, part |-> solids[k].part,
                            geometry |-> Drifted(solids[k].geometry, d[k])]]

\* Detection and imprinting, whose rounds are the subject of CollisionDetection and
\* CollisionResolution: some items that are not suppressed become so, and an imprint
\* may move what is measured of a shape a little.
ResolveCollisions ==
  /\ session = 1 /\ reading = "published" /\ stage <= Len(Processors)
  /\ Processors[stage] = "CollisionDetector"
  /\ \E collided \in SUBSET keptItems, d \in [DOMAIN loaded.solids -> Drifts] :
        /\ myShapeErrors' = [k \in DOMAIN myShapeErrors |->
                               IF k \in {mySolidIDs[i] : i \in collided} THEN "Collision"
                               ELSE myShapeErrors[k]]
        /\ loaded' = [loaded EXCEPT !.solids = Moved(loaded.solids, d)]
  /\ stage' = stage + 1
  /\ todo' = Tasks(stage + 1, itemCount)
  /\ UNCHANGED <<inputVars, sessionVars, myGeometryUniqueIds, metadata>>

-----------------------------------------------------------------------------
(* The writer *)

\* Only mm to m is supported; any other unit is logged and written as mm.
calcOutputScale(unit) == IF unit = "M" THEN UNIT_SHIFT["M"] ELSE 0

scaleShape(geometry, shift) ==
  [c \in DOMAIN geometry |->
     LET m == Magnitude(geometry[c]) IN geometry[c] - (IF m < shift THEN m ELSE shift)]

\* Mutant: suppressed solids are written as well.
createCompoundAll == 1 .. itemCount

createCompound == keptItems

exportCompound(shift, d) ==
  [i \in createCompound |->
     [part |-> i, geometry |-> Drifted(scaleShape(item(i).geometry, shift), d[i])]]

\* A document tells its unit, even one that calcOutputScale has not scaled to, and is
\* scaled back to mm when it is read: zero stays zero.
ReadBack(geometry, unit) ==
  LET shift == UNIT_SHIFT[unit] - calcOutputScale(unit)
  IN  [c \in DOMAIN geometry |-> IF Magnitude(geometry[c]) = 0 THEN geometry[c]
                                ELSE Drifted(geometry, shift)[c]]

\* All items, suppressed or not, without their materials; an item without a colour
\* gets the default one, an item without a name an empty one.
createDocument(unit) ==
  LET id(i)    == mySolidIDs[i]
      named(i) == id(i) \in DOMAIN loaded.names /\ loaded.names[id(i)] # <<>>
      meta(i)  == [color |-> IF id(i) \in DOMAIN loaded.colours THEN loaded.colours[id(i)]
                             ELSE "yellow"]
  IN  [i \in 1 .. itemCount |->
         [file |-> "result", part |-> i, components |-> <<>>, children |-> <<>>,
          solids |-> <<[part |-> i, geometry |-> ReadBack(item(i).geometry, unit)]>>,
          meta |-> IF named(i) THEN assignOne(meta(i), "name", loaded.names[id(i)]) ELSE meta(i)]]

Written(format, content) ==
  [file |-> "result", format |-> format, content |-> content, default |-> Null, corrupt |-> FALSE]

\* The items of session one as they were when the geometry was written.
Remembered ==
  [i \in 1 .. itemCount |->
     [suppressed |-> itemSuppressed(i), name |-> itemName(i), material |-> itemMaterial(i),
      geometry |-> item(i).geometry]]

\* The first property builder has written to the name that belongs to the geometry, where
\* the front end looks for it; a later one to this name with a time.
MetadataFile(given) ==
  CASE given = "none" \/ metadata = <<>> -> NoFile
    [] given = "named" /\ metadata # <<>>  -> metadata[1]
    [] given = "newest" /\ metadata # <<>> -> metadata[Len(metadata)]

\* The geometry is written, the program ends, and is started again on its results.
exportGeometry ==
  /\ session = 1 /\ reading = "published" /\ stage > Len(Processors)
  /\ \E d \in [createCompound -> Drifts] :
       input' = [entries  |-> <<IF config.format = "brep"
                                  THEN Written("brep",
                                         exportCompound(calcOutputScale(config.outputUnit), d))
                                  ELSE Written("step", createDocument(config.outputUnit))>>,
                 metadata |-> MetadataFile(config.given)]
  /\ original' = Remembered
  /\ session' = 2
  /\ at' = 1 /\ reading' = "files"
  /\ hDoc' = <<>> /\ loaded' = Empty /\ mySolidIDs' = <<>> /\ myShapeErrors' = <<>>
  /\ unreadable' = {} /\ todo' = {} /\ myGeometryUniqueIds' = <<>>
  /\ collision' \in Collisions
  /\ UNCHANGED <<tempDir, config, stage, metadata>>

\* Gluing the faces of the result raises an error that nobody catches.
glueFacesThrows ==
  /\ session = 1 /\ reading = "published" /\ stage > Len(Processors)
  /\ config.format = "brep" /\ config.mergeResultShapes
  /\ reading' = "failed"
  /\ UNCHANGED <<input, at, hDoc, tempDir, collision, loaded, mySolidIDs, myShapeErrors, unreadable,
                 sessionVars, stage, todo, myGeometryUniqueIds, metadata>>

-----------------------------------------------------------------------------
SessionInit ==
  /\ Init
  /\ session = 1
  /\ config \in Configs
  /\ stage = 1
  /\ todo = {}
  /\ myGeometryUniqueIds = <<>>
  /\ metadata = <<>>
  /\ original = <<>>

\* The reader of either session; in the first one the processors follow.
ReadInput ==
  /\ Read
  /\ todo' = IF session = 1 THEN Tasks(1, Len(mySolidIDs')) ELSE {}
  /\ UNCHANGED <<sessionVars, stage, myGeometryUniqueIds, metadata>>

\* After an exception, or when the results have been read.
Finished ==
  /\ reading = "failed" \/ (session = 2 /\ reading = "published")
  /\ UNCHANGED vars

Next ==
  \/ ReadInput
  \/ \E i \in todo : CheckShape(i) \/ BuildProperty(i)
  \/ prepareOutput
  \/ ResolveCollisions
  \/ exportGeometry
  \/ glueFacesThrows
  \/ Finished

Spec == SessionInit /\ [][Next]_vars

-----------------------------------------------------------------------------
(* Properties *)

\* The first reason for which an item is suppressed stays, whatever later processors
\* find: the checks of GeometryShapeChecker and of the property builder that runs twice.
FirstErrorKept ==
  [][session' = session =>
       \A k \in DOMAIN myShapeErrors :
         myShapeErrors[k] # "NoError" => myShapeErrors'[k] = myShapeErrors[k]]_vars

\* While workers are busy nobody inserts into the unordered map of the errors, which
\* suppressItem (GeometryProcessor.h) writes without a lock: it only replaces values.
NoErrorInserted ==
  [][todo # {} => DOMAIN myShapeErrors' = DOMAIN myShapeErrors]_vars

BrepBack == session = 2 /\ reading = "published" /\ config.format = "brep"
KeptItems == {i \in DOMAIN original : ~original[i].suppressed}

\* What comes back from a brep file is exactly what was not suppressed, with and without
\* metadata; two solids with one hash code count as one.
KeptComeBack ==
  BrepBack =>
    /\ \A k \in DOMAIN loaded.solids \ collision : k[2] \in KeptItems
    /\ \A i \in KeptItems : <<1, i>> \in DOMAIN loaded.solids \cup collision

\* The item that came back has the name and the material of item j.
HasMetadataOf(k, j) ==
  /\ k \in DOMAIN loaded.names /\ loaded.names[k] = original[j].name
  /\ k \in DOMAIN loaded.materials /\ loaded.materials[k] = original[j].material

MetadataUsed == BrepBack /\ input.metadata.exists

\* Whichever of the metadata files session two is given, the one of the property builder
\* before imprinting or the one after: it has a row for every solid that comes back, and
\* a solid whose identifier is that of its own row and of no other has its own name and
\* material again.
RecognisedByIdentifier ==
  MetadataUsed =>
    \A k \in DOMAIN loaded.solids \ collision :
      LET rows == input.metadata.rows
      IN  /\ k[2] \in DOMAIN rows
          /\ /\ rows[k[2]].uniqueId = geometryUniqueId(loaded.solids[k].geometry)
             /\ \A j \in DOMAIN rows \ {k[2]} : rows[j].uniqueId # rows[k[2]].uniqueId
             => HasMetadataOf(k, k[2])

\* Rounded to the same multiple, value by value; what is close to zero counts as zero.
Near(g, h) ==
  LET value(pattern) == IF Magnitude(pattern) < ZERO_THRESHOLD THEN 0 ELSE pattern
  IN  \A c \in DOMAIN g : /\ value(g[c]) - value(h[c]) <= ROUND_PRECISION_MASK
                          /\ value(h[c]) - value(g[c]) <= ROUND_PRECISION_MASK

\* Whichever metadata file session two is given, a solid has metadata of one that had nearly
\* its size and centre, as numbers of the file's unit, when that was measured; a solid
\* that drifted away from its identifier has a name made from its hash code and no material.
ForeignOnlyIfNear ==
  MetadataUsed =>
    \A k \in DOMAIN loaded.solids \ collision :
      \/ \E j \in DOMAIN input.metadata.rows :
            /\ Near(input.metadata.measured[j], loaded.solids[k].geometry)
            /\ HasMetadataOf(k, j)
      \/ loaded.names[k] = <<"shape", k>> /\ k \notin DOMAIN loaded.materials

\* The metadata file that goes by the name of the geometry is about this geometry: "The latter
\* file contains meta data such as material information for the geometry brep file"
\* (GetStarted.md:48), so that a solid with an identifier of its own, the same after it
\* was written and read, has its own name and material again.  Violated: the file is that
\* of the property builder before imprinting.
MetadataRoundTrip ==
  MetadataUsed /\ config.given = "named" /\ config.outputUnit = "MM" =>
    \A k \in DOMAIN loaded.solids \ collision :
      LET id(i) == geometryUniqueId(original[i].geometry)
      IN  /\ geometryUniqueId(loaded.solids[k].geometry) = id(k[2])
          /\ \A j \in KeptItems \ {k[2]} : id(j) # id(k[2])
          => HasMetadataOf(k, k[2])

=============================================================================
