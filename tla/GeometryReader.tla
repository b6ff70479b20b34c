--------------------------- MODULE GeometryReader ---------------------------
(***************************************************************************)
(* GeometryReader: the files of an input, one after the other, are loaded  *)
(* into four maps under the hash codes of their shapes: the solids and     *)
(* their names, materials and colours.  The maps are filled in two ways:   *)
(* registerShape() keeps what is there, extractXCAFMetadata() replaces it. *)
(*                                                                         *)
(* The input is a single file or a manifest, a list of files each with     *)
(* default metadata.  A file has a format and a content:                   *)
(*   "step"     the top-level labels of its document                       *)
(*   "freecad"  the objects that the FreeCAD parser writes                 *)
(*   "brep"     the solids of its shape                                    *)
(*   "missing"  there is no such file, or its suffix is another one        *)
(*   "unnamed"  the entry of the manifest has no file name                 *)
(* Metadata is a function from the fields that are present; null has none. *)
(***************************************************************************)
EXTENDS UniqueId, FiniteSets

CONSTANTS Inputs,      \* what process() may be asked to read
          Collisions,  \* sets of shapes that have one hash code
          TempDirs     \* what earlier runs may have left in the parser's folder

VARIABLES input,      \* entries: the files; metadata: the json of the configuration
          at,         \* the next entry to read
          reading,    \* "files", "published", or "failed" by an exception
          hDoc,       \* labels of the XCAF document, which the reader keeps
          tempDir,    \* the fixed output folder of the FreeCAD parser
          collision,  \* the shapes that share a hash code in this run
          loaded,     \* mySolids, myNameMap, myMaterialMap, myColorMap
          mySolidIDs, \* order of the items, as the unordered map gives it
          myShapeErrors,
          unreadable  \* history: the entries whose file the library or the parser could not read

readerVars == <<input, at, reading, hDoc, tempDir, collision, loaded, mySolidIDs, myShapeErrors,
                unreadable>>

Null == [field \in {} |-> field]
IsNull(p) == DOMAIN p = {}
Has(p, field) == field \in DOMAIN p

NoMap == [key \in {} |-> key]
Empty == [solids |-> NoMap, names |-> NoMap, materials |-> NoMap, colours |-> NoMap]

\* A loop gives values to keys, in an order that is told by pairs of numbers.
Value(order, key, value) == [order |-> order, key |-> key, value |-> value]
Before(p, q) == p[1] < q[1] \/ (p[1] = q[1] /\ p[2] <= q[2])
Keys(values) == {v.key : v \in values}
Of(values, key) == {v \in values : v.key = key}
Earliest(values) == CHOOSE v \in values : \A w \in values : Before(v.order, w.order)
Latest(values)   == CHOOSE v \in values : \A w \in values : Before(w.order, v.order)

\* std::map::insert keeps what a key has, so its first value stays; assignment through
\* operator[] replaces it, so the last one does.
insert(map, values) ==
  [k \in DOMAIN map \cup Keys(values) |->
     IF k \in DOMAIN map THEN map[k] ELSE Earliest(Of(values, k)).value]
assign(map, values) ==
  [k \in DOMAIN map \cup Keys(values) |->
     IF k \in Keys(values) THEN Latest(Of(values, k)).value ELSE map[k]]
assignOne(map, key, value) ==
  [k \in DOMAIN map \cup {key} |-> IF k = key THEN value ELSE map[k]]

\* HashCode(ItemHashMax) is made from the address of the loaded shape: shapes of different
\* files are different, and two shapes may have one code.
HashCode(part) ==
  IF <<at, part>> \in collision THEN CHOOSE s \in collision : TRUE ELSE <<at, part>>

entry == input.entries[at]

\* The solids in the map: which part of which file, and its geometry.
SolidOf(file, solid) == [file |-> file, part |-> solid.part, geometry |-> solid.geometry]

\* What the library, the parser and json give, and users write: lists of solids with a
\* geometry each; objects that are one solid or have several, and have a name; rows of
\* metadata; a material for a document of a manifest.
Listed(s) == s \in Seq(ToSet(s))
Measured(solids) == Listed(solids) /\ \A s \in ToSet(solids) : s.geometry \in Geometries

WellFormedObjects(objects) ==
  /\ Listed(objects)
  /\ \A o \in ToSet(objects) :
       /\ o.type \in {"SOLID", "COMPOUND", "COMPSOLID"}
       /\ Measured(o.solids)
       /\ o.type = "SOLID" => Len(o.solids) = 1
       /\ Has(o.meta, "name")
       /\ \A p \in ToSet(objects) : p.file = o.file

WellFormed(f) ==
  /\ f.format \in {"step", "freecad", "brep", "missing", "unnamed"}
  /\ f.format = "step" =>
       /\ Listed(f.content)
       /\ \A l \in ToSet(f.content) : /\ Measured(l.solids) /\ l.file = f.file
                                     /\ Listed(l.components) /\ Listed(l.children)
       /\ ~IsNull(f.default) => Has(f.default, "material")
  /\ f.format = "freecad" =>
       WellFormedObjects(f.content) /\ \A o \in ToSet(f.content) : o.file = f.file
  /\ f.format = "brep" => Measured(f.content)

ASSUME ReaderAssumption ==
  /\ \A i \in Inputs : /\ Listed(i.entries) /\ \A f \in ToSet(i.entries) : WellFormed(f)
                       /\ Listed(i.metadata.rows)
                       /\ \A p \in ToSet(i.metadata.rows) : Has(p, "uniqueId")
  /\ \A dir \in TempDirs : WellFormedObjects(dir.objects)

-----------------------------------------------------------------------------
(* FreeCAD and brep: metadata with the shape *)

\* Groups of FreeCAD mean materials, the first one counts.
HasMaterial(p) == Has(p, "material") \/ (Has(p, "groups") /\ p["groups"] # <<>>)
MaterialOf(p)  == IF Has(p, "material") THEN p["material"] ELSE p["groups"][1]
NameOf(p, hid) == IF Has(p, "name") THEN p["name"] ELSE <<"shape", hid>>

\* All calls that a file leads to, each with a solid and its metadata p.
registerShape(maps, calls) ==
  LET hid(c)    == HashCode(c.solid.part)
      coloured  == {c \in calls : Has(c.p, "color")}
      materials == {c \in calls : HasMaterial(c.p)}
  IN  [solids    |-> insert(maps.solids,
                       {Value(c.order, hid(c), SolidOf(c.file, c.solid)) : c \in calls}),
       names     |-> insert(maps.names,
                       {Value(c.order, hid(c), NameOf(c.p, hid(c))) : c \in calls}),
       colours   |-> insert(maps.colours,
                       {Value(c.order, hid(c), c.p["color"]) : c \in coloured}),
       materials |-> insert(maps.materials,
                       {Value(c.order, hid(c), MaterialOf(c.p)) : c \in materials})]

Call(order, file, solid, p) == [order |-> order, file |-> file, solid |-> solid, p |-> p]

\* Every solid of a compound is a component; other kinds of shape hold nothing
\* that is loaded, a CompSolid as well.
registerCompoundShape(i, shape) ==
  IF shape.type # "COMPOUND" THEN {}
  ELSE {Call(<<i, j>>, shape.file, shape.solids[j],
             assignOne(shape.meta, "name", shape.meta["name"] \o <<"component", j - 1>>))
          : j \in DOMAIN shape.solids}

\* Objects that are not visible are skipped.
loadFreeCADShapes(maps, metadata) ==
  LET visible  == {i \in DOMAIN metadata :
                     Has(metadata[i].meta, "visible") => metadata[i].meta["visible"]}
      calls(i) == IF metadata[i].type = "SOLID"
                    THEN {Call(<<i, 1>>, metadata[i].file, metadata[i].solids[1], metadata[i].meta)}
                    ELSE registerCompoundShape(i, metadata[i])
  IN  registerShape(maps, UNION {calls(i) : i \in visible})

\* A later record with the same identifier replaces an earlier one; one that is
\* not there is made, as null, by the look-up.
gpMapOf(rows) ==
  assign(NoMap, {Value(<<i, 0>>, rows[i]["uniqueId"], rows[i]) : i \in DOMAIN rows})

\* The metadata of a solid of a brep file.  Without any record it is "geometry" of an
\* "unknown" material, whatever a manifest says.
RecordOf(solid, gpMap) ==
  LET gid == geometryUniqueId(solid.geometry)
  IN  IF DOMAIN gpMap = {} THEN [name |-> <<"geometry">>, material |-> "unknown"]
      ELSE IF gid \in DOMAIN gpMap THEN gpMap[gid] ELSE Null

loadBrepShapes(maps, file, content, gpMap) ==
  LET p(i)       == RecordOf(content[i], gpMap)
      suppressed == {i \in DOMAIN content : Has(p(i), "suppressed") /\ p(i)["suppressed"]}
  IN  registerShape(maps, {Call(<<i, 0>>, file, content[i], p(i))
                             : i \in DOMAIN content \ suppressed})

-----------------------------------------------------------------------------
(* STEP and IGES: the labels of a document *)

\* Metadata of a manifest gives the material to labels without one, and the name to all.
MaterialOfLabel(label, metadata) ==
  IF Has(label.meta, "material") THEN label.meta["material"] ELSE metadata["material"]

NameOfLabel(label, metadata) ==
  IF IsNull(metadata) THEN label.meta["name"]
  ELSE IF Has(metadata, "filename") THEN metadata["filename"]
  ELSE IF Has(metadata, "name") THEN metadata["name"] ELSE <<>>

\* What a label says is stored under the code of its own shape: of a solid when it
\* is one, of nothing that is an item otherwise.
extractXCAFMetadata(maps, visits, metadata) ==
  LET key(v)     == HashCode(v.label.part)
      told(field) == {v \in visits : Has(v.label.meta, field)}
      given      == IF IsNull(metadata) THEN {} ELSE visits
  IN  [maps EXCEPT
        !.materials = assign(@, {Value(v.order, key(v), MaterialOfLabel(v.label, metadata))
                                   : v \in told("material") \cup given}),
        !.colours   = assign(@, {Value(v.order, key(v), v.label.meta["color"])
                                   : v \in told("color")}),
        !.names     = assign(@, {Value(v.order, key(v), NameOfLabel(v.label, metadata))
                                   : v \in told("name") \cup given})]

\* The labels in the order of the visits: a top-level label, then those below it, the
\* components of an assembly and all children.  A component that refers to another
\* assembly has no labels below it.
Below(label) == label.components \o label.children
Visits(doc) ==
  {[order |-> <<i, 0>>, label |-> doc[i]] : i \in DOMAIN doc} \cup
  UNION {{[order |-> <<i, j>>, label |-> Below(doc[i])[j]] : j \in DOMAIN Below(doc[i])}
           : i \in DOMAIN doc}

\* The solids of the top-level labels, and the metadata of all.
loadShapes(maps, doc, metadata) ==
  LET solids == UNION {{Value(<<i, j>>, HashCode(doc[i].solids[j].part),
                              SolidOf(doc[i].file, doc[i].solids[j]))
                          : j \in DOMAIN doc[i].solids} : i \in DOMAIN doc}
  IN  extractXCAFMetadata([maps EXCEPT !.solids = insert(@, solids)], Visits(doc), metadata)

\* Mutant: the metadata of the first file of a manifest is kept for all.
loadXCAFDocFirst(maps, doc, metadata) == loadShapes(maps, doc, input.entries[1].default)

\* All free shapes of the document, which are its top-level labels.
loadXCAFDoc(maps, doc, metadata) == loadShapes(maps, doc, metadata)

\* The old document is closed and a new one filled; it stays empty when the file
\* cannot be read or transferred, and is loaded even then.
readXCAFDoc(ok, content) == IF ok THEN content ELSE <<>>

-----------------------------------------------------------------------------
(* Reading *)

Init ==
  /\ input \in Inputs
  /\ collision \in Collisions
  /\ tempDir \in TempDirs
  /\ at = 1
  /\ reading = "files"
  /\ hDoc = <<>>
  /\ loaded = Empty
  /\ mySolidIDs = <<>>
  /\ myShapeErrors = <<>>
  /\ unreadable = {}

NextFile(format) ==
  /\ reading = "files"
  /\ at <= Len(input.entries)
  /\ entry.format = format
  /\ UNCHANGED <<input, collision, mySolidIDs, myShapeErrors>>

Loaded(maps) == loaded' = maps /\ at' = at + 1 /\ reading' = reading
Throw        == reading' = "failed" /\ UNCHANGED <<at, loaded, unreadable>>

\* Mutant: the loop over the manifest ends with a file that does not exist.
SkipFileBreak ==
  /\ reading = "files" /\ at <= Len(input.entries) /\ entry.format = "missing"
  /\ at' = Len(input.entries) + 1
  /\ UNCHANGED <<input, reading, hDoc, tempDir, collision, loaded, mySolidIDs, myShapeErrors,
                 unreadable>>

\* A file that does not exist, or has another suffix, is logged and left out.
SkipFile ==
  /\ NextFile("missing")
  /\ Loaded(loaded)
  /\ UNCHANGED <<hDoc, tempDir, unreadable>>

\* The file name of an entry that has none is taken with operator[] of a constant json,
\* which is undefined: here it ends the run.
NoFileName ==
  /\ NextFile("unnamed")
  /\ Throw
  /\ UNCHANGED <<hDoc, tempDir>>

ReadXCAF ==
  /\ NextFile("step")
  /\ \E ok \in BOOLEAN :
        /\ hDoc' = readXCAFDoc(ok, entry.content)
        /\ unreadable' = IF ok THEN unreadable ELSE unreadable \cup {at}
  /\ Loaded(loadXCAFDoc(loaded, hDoc', entry.default))
  /\ UNCHANGED tempDir

\* The exit code of the parser is not looked at: when it fails, the metadata.json
\* that an earlier call left in the folder is loaded once more.
readFreeCADFile ==
  /\ NextFile("freecad")
  /\ \E parsed \in BOOLEAN :
        /\ tempDir' = IF parsed THEN [exists |-> TRUE, objects |-> entry.content] ELSE tempDir
        /\ IF tempDir'.exists
             THEN /\ unreadable' = IF parsed THEN unreadable ELSE unreadable \cup {at}
                  /\ Loaded(loadFreeCADShapes(loaded, tempDir'.objects))
             ELSE Throw
  /\ UNCHANGED hDoc

\* The parser script is not found.
readFreeCADThrows ==
  /\ NextFile("freecad")
  /\ Throw
  /\ UNCHANGED <<hDoc, tempDir>>

\* A shape that metadata.json names is not found, or cannot be read.
loadShapeThrows ==
  /\ NextFile("freecad")
  /\ tempDir' \in {tempDir, [exists |-> TRUE, objects |-> entry.content]}
  /\ tempDir'.exists /\ tempDir'.objects # <<>>
  /\ Throw
  /\ UNCHANGED hDoc

readBrep ==
  /\ NextFile("brep")
  /\ input.metadata.exists => input.metadata.parses
  /\ LET gpMap == gpMapOf(IF input.metadata.exists THEN input.metadata.rows ELSE <<>>)
     IN  Loaded(loadBrepShapes(loaded, entry.file, entry.content, gpMap))
  /\ UNCHANGED <<hDoc, tempDir, unreadable>>

\* The json cannot be parsed, or the shape that was read is null.
readBrepThrows ==
  /\ NextFile("brep")
  /\ (input.metadata.exists /\ ~input.metadata.parses) \/ entry.corrupt
  /\ Throw
  /\ UNCHANGED <<hDoc, tempDir>>

\* Mutant: only the solids that have a name are given a state.
RegisteredErrorsNamed == [k \in DOMAIN loaded.solids \cap DOMAIN loaded.names |-> "NoError"]

RegisteredErrors == [k \in DOMAIN loaded.solids |-> "NoError"]

\* prepareOutput(): the solids become items, in the order of the unordered map.
moveShapeIntoPropertyContainer ==
  /\ reading = "files" /\ at > Len(input.entries)
  /\ reading' = "published"
  /\ mySolidIDs' \in SetToSeqs(DOMAIN loaded.solids)
  /\ myShapeErrors' = RegisteredErrors
  /\ UNCHANGED <<input, at, hDoc, tempDir, collision, loaded, unreadable>>

Read ==
  \/ SkipFile \/ NoFileName \/ ReadXCAF \/ readFreeCADFile \/ readFreeCADThrows \/ loadShapeThrows
  \/ readBrep \/ readBrepThrows \/ moveShapeIntoPropertyContainer

-----------------------------------------------------------------------------
(* Properties of what was read *)

AllLabels(doc) == {v.label : v \in Visits(doc)}

\* The solids that the file of an entry gives, but for FreeCAD's CompSolids, which the reader
\* drops; the last record of an identifier counts.
Wanted(e) ==
  LET file == input.entries[e]
      rows == IF input.metadata.exists THEN input.metadata.rows ELSE <<>>
      recordsOf(s)  == {i \in DOMAIN rows : rows[i]["uniqueId"] = geometryUniqueId(s.geometry)}
      suppressed(s) == \E i \in recordsOf(s) : /\ \A j \in recordsOf(s) : j <= i
                                               /\ Has(rows[i], "suppressed")
                                               /\ rows[i]["suppressed"]
  IN  CASE file.format = "step"    -> UNION {ToSet(l.solids) : l \in ToSet(file.content)}
        [] file.format = "freecad" ->
             UNION {ToSet(o.solids) : o \in {p \in ToSet(file.content) :
                      /\ p.type \in {"SOLID", "COMPOUND"}
                      /\ Has(p.meta, "visible") => p.meta["visible"]}}
        [] file.format = "brep"    -> {s \in ToSet(file.content) : ~suppressed(s)}

\* The entries whose files are there and were read.
readable == {e \in DOMAIN input.entries : input.entries[e].format # "missing"} \ unreadable

\* These solids of an entry are items, unless another shape has taken their hash code.
Arrived(e, solids) ==
  \A s \in solids :
    IF <<e, s.part>> \in collision
      THEN (CHOOSE c \in collision : TRUE) \in DOMAIN loaded.solids
      ELSE /\ <<e, s.part>> \in DOMAIN loaded.solids
           /\ loaded.solids[<<e, s.part>>].file = input.entries[e].file

Expected(k) ==
  \/ k[1] \in readable /\ k[2] \in {s.part : s \in Wanted(k[1])}
  \/ k \in collision
  \/ k[1] \in unreadable /\ input.entries[k[1]].format = "freecad"

\* A reader that ends without an exception has made an item of each solid, and of each
\* component of a compound, of every file that was read, although files before and
\* after it in the manifest are missing or could not be read; solids with one hash code
\* count as one.  An item that is of no such file is of an earlier FreeCAD file, loaded
\* once more in place of one that could not be parsed.  CompSolids are not among the solids
\* of Wanted: the reader hands them to registerCompoundShape, which drops them.
ReadableLoaded ==
  reading = "published" =>
    /\ \A e \in readable : Arrived(e, Wanted(e))
    /\ \A k \in DOMAIN loaded.solids : Expected(k)

\* Every object that metadata.json may list.
AllObjects ==
  UNION ({ToSet(dir.objects) : dir \in TempDirs} \cup
         {ToSet(f.content) : f \in {e \in ToSet(input.entries) : e.format = "freecad"}})

\* What an entry of a manifest says of a STEP file.
EntryMeta(deflt) ==
  IF IsNull(deflt) THEN Null
  ELSE [material |-> deflt["material"],
        name |-> IF Has(deflt, "filename") THEN deflt["filename"]
                 ELSE IF Has(deflt, "name") THEN deflt["name"] ELSE <<>>]

\* What the source of a solid says of it: its labels and the entry in the manifest, its
\* object, or its record.  Where there are no records at all a solid of a brep file is
\* called "geometry" and its material "unknown".
OwnMetas(e, part, from) ==
  LET file == input.entries[e]
  IN  CASE file.format = "step" ->
             {EntryMeta(file.default)} \cup
             {l.meta : l \in {m \in AllLabels(file.content) : m.part = part}}
        [] file.format = "freecad" ->
             {o.meta : o \in {p \in AllObjects : /\ p.file = from
                                                /\ part \in {s.part : s \in ToSet(p.solids)}}}
        [] file.format = "brep" ->
             IF ~input.metadata.exists \/ DOMAIN input.metadata.rows = {}
               THEN {[name |-> <<"geometry">>, material |-> "unknown"]}
               ELSE {p \in ToSet(input.metadata.rows) :
                       \E s \in ToSet(file.content) :
                          s.part = part /\ p["uniqueId"] = geometryUniqueId(s.geometry)}

Said(metas, field) == {m[field] : m \in {n \in metas : Has(n, field)}}

\* Of several groups the first one is the material.
OwnMaterial(metas, material) ==
  \/ material \in Said(metas, "material")
  \/ \E groups \in Said(metas, "groups") : groups # <<>> /\ material = groups[1]

\* Without a name, one is made from the hash code; a solid of a compound is a component.
OwnName(k, metas, name) ==
  \/ name \in Said(metas, "name")
  \/ \E o \in {p \in AllObjects : p.meta \in metas} : \E j \in DOMAIN o.solids :
       name = o.meta["name"] \o <<"component", j - 1>>
  \/ name = <<"shape", k>>

Own(k) ==
  LET metas == OwnMetas(k[1], k[2], loaded.solids[k].file)
  IN  /\ k \in DOMAIN loaded.materials => OwnMaterial(metas, loaded.materials[k])
      /\ k \in DOMAIN loaded.names => OwnName(k, metas, loaded.names[k])

\* The name and the material of an item are what its own source says: a label of its file
\* or the entry of a STEP file in the manifest, its FreeCAD object, the record with its
\* identifier.  Nothing comes from another file or entry.  What a manifest says of a brep
\* file is not used: its solids without records have an unknown material.  For items that
\* share no hash code.
OwnMetadata ==
  reading = "published" => \A k \in DOMAIN loaded.solids \ collision : Own(k)

=============================================================================
