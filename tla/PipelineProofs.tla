--------------------------- MODULE PipelineProofs ---------------------------
(***************************************************************************)
(* Machine-checked proofs about the pipeline, for every number of items,   *)
(* of readers and of threads, with every interrupt and every suppression.  *)
(***************************************************************************)
EXTENDS Pipeline, SequenceTheorems, FiniteSetTheorems, TLAPS

USE PipelineAssumption, StorageAssumption

\* The main thread is past the first n processors of this data set.
Past(n) ==
  \/ phase \in {"assign", "input", "process"} /\ i > n
  \/ phase \in {"write", "written"}

\* Results go to the folder of the data set in progress, or to that of the one before
\* until its own is made.  Only the last step of a run leaves a dump.
StorageInv ==
  /\ IF phase = "read" THEN iData > 1 => myStoragePath = readers[iData - 1]
                       ELSE myStoragePath = readers[iData]
  /\ outcome = "running" => \A p \in DOMAIN files : p.name # "dump"

\* The processors that were begun have the data set in progress as their input.
InputInv ==
  /\ phase \in {"write", "written"} => i = size
  /\ phase \in {"input", "process", "write", "written"} => myCurrentProcessor = i
  /\ Past(0) => \A k \in 1 .. i - 1 : myInputData[k] = iData
  /\ phase \in {"process", "write", "written"} => myInputData[i] = iData

\* What the first processors put into the data set is there for the later ones.
PropertiesInv ==
  /\ Past(2) => "myGeometryProperties" \in data.properties
  /\ Past(3) => "myShapeBoundBoxes" \in data.properties

\* Only the imprinter changes shapes, and only with threads.
ImprintedInv ==
  phase # "read" =>
    (data.imprinted <=> config.action = "imprint" /\ config.threadsOnNode # 1 /\ Past(4))

\* No version of the metadata file is later than the clock, and the first one has the
\* name without a timestamp.
StampInv ==
  \A p \in DOMAIN files : p.name = Metadata =>
    p.folder = "absolute" /\ p.stamp <= now /\ NamedPath(Metadata) \in DOMAIN files

\* The last metadata file tells the items and the shapes that the data set has now.
Described == \E p \in DOMAIN files : Latest(Metadata, p) /\ files[p] = Content({iData})

\* After the property builder that counts nothing changes what it described.
MetadataInv ==
  /\ config.action = "imprint" /\ Past(6) => Described
  /\ config.action \in {"merge", "fix"} /\ Past(2) =>
       Described /\ config.tooSmall[FALSE] \subseteq data.suppressed

GeometryInv ==
  phase = "written" /\ HasWriter(config.action) =>
    NamedPath(Geometry) \in DOMAIN files /\ files[NamedPath(Geometry)] = Content({iData})

\* The inductive invariant.
IInv ==
  /\ TypeOK /\ StorageInv /\ StampInv /\ InputInv /\ PropertiesInv
  /\ ImprintedInv /\ MetadataInv /\ GeometryInv
  /\ PropertiesFound /\ WorkIsDumped
-----------------------------------------------------------------------------
(* The processors of an action *)

\* The list of an action begins with the three basic processors.
LEMMA Lists ==
  ASSUME config.action \in Actions
  PROVE  /\ DOMAIN processors = 1 .. 3 + Len(Appended[config.action])
         /\ processors[1] = GeometryShapeChecker
         /\ processors[2] = GeometryPropertyBuilder
         /\ processors[3] = Plain("BoundBoxBuilder")
         /\ \A j \in 1 .. Len(Appended[config.action]) :
               processors[3 + j] = Appended[config.action][j]
         /\ Len(Appended[config.action]) \in 0 .. 3
  <1> DEFINE a == Appended[config.action]
             P == {GeometryShapeChecker, GeometryPropertyBuilder,
                   post_GeometryShapeChecker, post_GeometryPropertyBuilder}
                  \cup {Plain(c) : c \in {"BoundBoxBuilder", "CollisionDetector", "GeometryImprinter",
                                         "GeometryFixer", "GeometrySearchBuilder",
                                         "GeometryDecomposer", "GeometryFaceter"}}
  <1>1. a \in Seq(P) /\ Len(a) \in 0 .. 3
    <2> DEFINE g == <<Plain("GeometryImprinter")>>
    <2>1. g \in Seq(P) /\ Len(g) = 1
      OBVIOUS
    <2>2. post_processors \in Seq(P) /\ Len(post_processors) = 2
      BY DEF post_processors
    <2>3. g \o post_processors \in Seq(P) /\ Len(g \o post_processors) = 3
      <3> HIDE DEF g, P
      <3>1. Len(g) + Len(post_processors) = 3
        BY <2>1, <2>2
      <3> QED
        BY <2>1, <2>2, <3>1, ConcatProperties, Zenon
    <2>4. CASE config.action = "imprint"
      BY <2>3, <2>4 DEF Appended
    <2>5. CASE config.action = "fix"
      <3>1. a = <<Plain("GeometryFixer"), GeometryShapeChecker, post_GeometryPropertyBuilder>>
        BY <2>5 DEF Appended
      <3> QED
        BY <3>1
    <2>6. CASE config.action \in {"check", "merge"}
      <3>1. a = <<>>
        BY <2>6 DEF Appended
      <3> QED
        BY <3>1
    <2>7. CASE config.action \in {"detect", "search", "decompose", "tessellate"}
      <3>1. \E p \in P : a = <<p>>
        BY <2>7 DEF Appended
      <3> QED
        BY <3>1
    <2> QED
      BY <2>4, <2>5, <2>6, <2>7 DEF Actions, Appended
  <1>2. basic_processors \in Seq(P) /\ Len(basic_processors) = 3
    BY DEF basic_processors
  <1>3. processors = basic_processors \o a
    BY DEF processors, processorsOf
  <1> HIDE DEF a, P
  <1>4. /\ processors \in Seq(P) /\ Len(processors) = 3 + Len(a)
        /\ \A j \in 1 .. 3 + Len(a) :
              processors[j] = IF j <= 3 THEN basic_processors[j] ELSE a[j - 3]
    <2>1. /\ processors \in Seq(P)
          /\ Len(processors) = Len(basic_processors) + Len(a)
          /\ \A j \in 1 .. Len(basic_processors) + Len(a) :
                processors[j] = IF j <= Len(basic_processors) THEN basic_processors[j]
                                ELSE a[j - Len(basic_processors)]
      BY <1>1, <1>2, <1>3, ConcatProperties, Zenon
    <2> QED
      BY <1>1, <1>2, <2>1
  <1>5. DOMAIN processors = 1 .. 3 + Len(a)
    BY <1>4
  <1>6. \A j \in 1 .. Len(a) : processors[3 + j] = a[j]
    BY <1>1, <1>4
  <1>7. processors[1] = basic_processors[1] /\ processors[2] = basic_processors[2]
        /\ processors[3] = basic_processors[3]
    BY <1>1, <1>4
  <1> QED
    BY <1>1, <1>5, <1>6, <1>7 DEF a, basic_processors

\* Where all but the last ones of the list were created, the k-th of them is at k.
LEMMA InPlace ==
  ASSUME NEW n \in Nat, created = 1 .. n
  PROVE  size = n /\ \A k \in 1 .. n : Position(k) = k
  <1>1. \A j \in 0 .. n : Cardinality(1 .. j) = j
    BY FS_Interval
  <1>2. \A j \in 1 .. n : {l \in created : l <= j} = 1 .. j
    OBVIOUS
  <1>3. \A j \in created : Cardinality({l \in created : l <= j}) = j
    <2> TAKE j \in created
    <2>1. {l \in created : l <= j} = 1 .. j /\ j \in 0 .. n
      BY <1>2
    <2> QED
      BY <1>1, <2>1
  <1>4. \A k \in 1 .. n : Position(k) = k
    BY <1>3 DEF Position
  <1> QED
    BY <1>1, <1>4 DEF size

\* Where the fourth one was not created, those after it are one place ahead.
LEMMA OneSkipped ==
  ASSUME created = {1, 2, 3, 5, 6}
  PROVE  /\ size = 5
         /\ Position(1) = 1 /\ Position(2) = 2 /\ Position(3) = 3
         /\ Position(4) = 5 /\ Position(5) = 6
  <1> DEFINE rank(j) == Cardinality({l \in created : l <= j})
  <1>1. \A j \in Nat : IsFiniteSet(1 .. j) /\ Cardinality(1 .. j) = j
    BY FS_Interval
  <1>2. IsFiniteSet(1 .. 3 \cup {5}) /\ Cardinality(1 .. 3 \cup {5}) = 4
    <2>1. 3 \in Nat
      OBVIOUS
    <2>2. IsFiniteSet(1 .. 3) /\ Cardinality(1 .. 3) = 3
      BY <1>1, <2>1, Zenon
    <2>3. 5 \notin 1 .. 3
      OBVIOUS
    <2> QED
      BY <2>2, <2>3, FS_AddElement
  <1>3. Cardinality((1 .. 3 \cup {5}) \cup {6}) = 5
    BY <1>2, FS_AddElement
  <1>4. /\ {l \in created : l <= 1} = 1 .. 1
        /\ {l \in created : l <= 2} = 1 .. 2
        /\ {l \in created : l <= 3} = 1 .. 3
        /\ {l \in created : l <= 5} = 1 .. 3 \cup {5}
        /\ {l \in created : l <= 6} = (1 .. 3 \cup {5}) \cup {6}
    OBVIOUS
  <1>5. rank(1) = 1 /\ rank(2) = 2 /\ rank(3) = 3 /\ rank(5) = 4 /\ rank(6) = 5
    BY <1>1, <1>2, <1>3, <1>4
  <1>6. created = (1 .. 3 \cup {5}) \cup {6}
    OBVIOUS
  <1>7. size = 5
    BY <1>3, <1>6 DEF size
  <1>8. \A k : Position(k) = CHOOSE j \in created : rank(j) = k
    BY DEF Position
  <1> HIDE DEF rank
  <1> QED
    BY <1>5, <1>7, <1>8

\* Where a processor of an action is, and what it was configured to do.
LEMMA Processors ==
  ASSUME config.action \in Actions
  PROVE  /\ size \in 3 .. 6
         /\ \A k \in 1 .. size : k \in DOMAIN processors /\ ConfigOf(k).checking = FALSE
         /\ ClassOf(1) = "GeometryShapeChecker"
         /\ ClassOf(2) = "GeometryPropertyBuilder" /\ ConfigOf(2).output = Metadata
         /\ ClassOf(3) = "BoundBoxBuilder"
         /\ config.action = "merge" => size = 3
         /\ config.action = "imprint" =>
              /\ size = 6
              /\ ClassOf(4) = "GeometryImprinter" /\ ClassOf(5) = "GeometryShapeChecker"
              /\ ClassOf(6) = "GeometryPropertyBuilder" /\ ConfigOf(6).output = Metadata
         /\ config.action = "fix" =>
              /\ size = 5
              /\ ClassOf(4) = "GeometryShapeChecker"
              /\ ClassOf(5) = "GeometryPropertyBuilder" /\ ConfigOf(5).output # Metadata
         /\ config.action \notin {"imprint", "fix"} =>
              \A k \in 4 .. size : ClassOf(k) \in {"CollisionDetector", "GeometrySearchBuilder"}
  <1> DEFINE a == config.action
             n == Len(Appended[a])
  <1>1. a \in {"check", "merge", "detect", "imprint", "fix", "search", "decompose", "tessellate"}
    BY DEF Actions, Appended
  <1>2. /\ a \in {"check", "merge"} => n = 0
        /\ a = "detect" => n = 1 /\ Appended[a][1] = Plain("CollisionDetector")
        /\ a = "search" => n = 1 /\ Appended[a][1] = Plain("GeometrySearchBuilder")
        /\ a = "decompose" => n = 1 /\ Appended[a][1] = Plain("GeometryDecomposer")
        /\ a = "tessellate" => n = 1 /\ Appended[a][1] = Plain("GeometryFaceter")
        /\ a = "fix" => n = 3 /\ Appended[a][1] = Plain("GeometryFixer")
             /\ Appended[a][2] = GeometryShapeChecker /\ Appended[a][3] = post_GeometryPropertyBuilder
    BY <1>1 DEF Appended
  <1>3. a = "imprint" => n = 3 /\ Appended[a][1] = Plain("GeometryImprinter")
             /\ Appended[a][2] = post_GeometryShapeChecker /\ Appended[a][3] = post_GeometryPropertyBuilder
    <2>1. ASSUME a = "imprint" PROVE Appended[a] = <<Plain("GeometryImprinter")>> \o post_processors
      BY <2>1 DEF Appended
    <2> QED
      BY <2>1 DEF post_processors
  <1>4. /\ DOMAIN processors = 1 .. 3 + n
        /\ processors[1] = GeometryShapeChecker
        /\ processors[2] = GeometryPropertyBuilder
        /\ processors[3] = Plain("BoundBoxBuilder")
        /\ \A j \in 1 .. n : processors[3 + j] = Appended[a][j]
        /\ n \in 0 .. 3
    BY Lists
  <1> HIDE DEF a, n
  <1>5. /\ n >= 1 => processors[4] = Appended[a][1]
        /\ n = 3 => processors[5] = Appended[a][2] /\ processors[6] = Appended[a][3]
    <2>1. /\ n >= 1 => processors[3 + 1] = Appended[a][1]
          /\ n = 3 => processors[3 + 2] = Appended[a][2] /\ processors[3 + 3] = Appended[a][3]
      BY <1>4
    <2> QED
      BY <2>1
  <1>6. /\ GeometryShapeChecker.className = "GeometryShapeChecker"
        /\ GeometryShapeChecker.checking = FALSE /\ GeometryShapeChecker.output # Metadata
        /\ GeometryPropertyBuilder.className = "GeometryPropertyBuilder"
        /\ GeometryPropertyBuilder.checking = FALSE /\ GeometryPropertyBuilder.output = Metadata
        /\ post_GeometryShapeChecker.className = "GeometryShapeChecker"
        /\ post_GeometryShapeChecker.checking = FALSE
        /\ post_GeometryPropertyBuilder.className = "GeometryPropertyBuilder"
        /\ post_GeometryPropertyBuilder.checking = FALSE /\ post_GeometryPropertyBuilder.output = Metadata
        /\ \A c : Plain(c).className = c /\ Plain(c).checking = FALSE
    BY DEF GeometryShapeChecker, GeometryPropertyBuilder, post_GeometryShapeChecker,
           post_GeometryPropertyBuilder, Plain, Original, Metadata
  <1>7. \A j \in 1 .. 3 + n : processors[j].checking = FALSE
    <2>1. \A j \in 1 .. 3 + n : j \in {1, 2, 3} \/ (n >= 1 /\ j = 4) \/ (n = 3 /\ j \in {5, 6}) \/ n = 2
      BY <1>4
    <2> QED
      BY <1>1, <1>2, <1>3, <1>4, <1>5, <1>6, <2>1
  <1>8. \A j \in 1 .. 3 + n : j \in created <=> processors[j].className \in Registered
    BY <1>4 DEF created, createProcessor
  <1>9. created \subseteq 1 .. 3 + n
    BY <1>4 DEF created
  <1>10. 1 \in created /\ 2 \in created /\ 3 \in created
    BY <1>4, <1>6, <1>8 DEF Registered
  <1>11. CASE a = "imprint"
    <2>1. 4 \in created /\ 5 \in created /\ 6 \in created
      BY <1>3, <1>5, <1>6, <1>8, <1>11 DEF Registered
    <2>2. created = 1 .. 6
      <3>1. created \subseteq 1 .. 6
        BY <1>3, <1>9, <1>11
      <3>2. \A j \in 1 .. 6 : j \in created
        BY <1>10, <2>1
      <3> QED
        BY <3>1, <3>2
    <2>3. size = 6 /\ \A k \in 1 .. 6 : Position(k) = k
      BY <2>2, InPlace
    <2> QED
      BY <1>3, <1>4, <1>5, <1>6, <1>7, <1>11, <2>3 DEF ClassOf, ConfigOf, a
  <1>12. CASE a = "fix"
    <2>1. 4 \notin created /\ 5 \in created /\ 6 \in created
      BY <1>2, <1>5, <1>6, <1>8, <1>12 DEF Registered
    <2>2. created = {1, 2, 3, 5, 6}
      BY <1>2, <1>9, <1>10, <1>12, <2>1
    <2>3. /\ size = 5 /\ Position(1) = 1 /\ Position(2) = 2 /\ Position(3) = 3
          /\ Position(4) = 5 /\ Position(5) = 6
      BY <2>2, OneSkipped
    <2> QED
      BY <1>2, <1>4, <1>5, <1>6, <1>7, <1>12, <2>3 DEF ClassOf, ConfigOf, a
  <1>13. CASE a \in {"detect", "search"}
    <2>1. 4 \in created
      BY <1>2, <1>5, <1>6, <1>8, <1>13 DEF Registered
    <2>2. created = 1 .. 4
      <3>1. created \subseteq 1 .. 4
        BY <1>2, <1>9, <1>13
      <3>2. \A j \in 1 .. 4 : j \in created
        BY <1>10, <2>1
      <3> QED
        BY <3>1, <3>2
    <2>3. size = 4 /\ \A k \in 1 .. 4 : Position(k) = k
      BY <2>2, InPlace
    <2> QED
      BY <1>2, <1>4, <1>5, <1>6, <1>7, <1>13, <2>3 DEF ClassOf, ConfigOf, a
  <1>14. CASE a \in {"check", "merge", "decompose", "tessellate"}
    <2>1. 4 \notin created
      BY <1>2, <1>5, <1>6, <1>8, <1>9, <1>14 DEF Registered
    <2>2. created = 1 .. 3
      BY <1>2, <1>9, <1>10, <1>14, <2>1
    <2>3. size = 3 /\ \A k \in 1 .. 3 : Position(k) = k
      BY <2>2, InPlace
    <2> QED
      BY <1>2, <1>4, <1>5, <1>6, <1>7, <1>14, <2>3 DEF ClassOf, ConfigOf, a
  <1> QED
    BY <1>1, <1>11, <1>12, <1>13, <1>14
-----------------------------------------------------------------------------
(* What a step may change *)

\* What follows from the configuration stays with it.
LEMMA SameConfig ==
  ASSUME UNCHANGED config
  PROVE  size' = size /\ readers' = readers /\ processors' = processors
  BY DEF size, created, createProcessor, processors, readers

\* A file is written in the folder of the data set or at the absolute path of its name;
\* everything else stays as it was.
LEMMA Saving ==
  ASSUME NEW name, NEW content, Save(name, content), now \in Nat, myStoragePath \in Stems
  PROVE  /\ UNCHANGED myStoragePath /\ now' \in Nat
         /\ \E p \in [folder : {myStoragePath, "absolute"}, name : {name}, stamp : Nat] :
              /\ p.folder = "absolute" => name \in Absolute
              /\ DOMAIN files' = DOMAIN files \cup {p}
              /\ files'[p] = content
              /\ \A q \in DOMAIN files : q # p => files'[q] = files[q]
  <1>1. PICK time \in now .. MaxTime :
          /\ files' = Overwritten(dataStoragePath(name, time), content)
          /\ now' = time
          /\ UNCHANGED myStoragePath
    BY DEF Save
  <1>2. PICK p : p = dataStoragePath(name, time)
    OBVIOUS
  <1>3. time \in Nat
    OBVIOUS
  <1>4. /\ p \in [folder : {myStoragePath, "absolute"}, name : {name}, stamp : Nat]
        /\ p.folder = "absolute" => name \in Absolute
    BY <1>2, <1>3 DEF dataStoragePath, getFullPath
  <1>5. /\ DOMAIN files' = DOMAIN files \cup {p}
        /\ files'[p] = content
        /\ \A q \in DOMAIN files : q # p => files'[q] = files[q]
    BY <1>1, <1>2 DEF Overwritten
  <1> QED
    BY <1>1, <1>3, <1>4, <1>5

\* The processors that do work on the items.
Work == CheckShapes \/ BuildProperties \/ BuildBoundBoxes \/ ProcessPairs \/ Search

\* A processor adds to the data set; it writes its own results, never a dump nor the
\* geometry; and the main thread goes on to the next one or to the writer.
LEMMA Working ==
  ASSUME TypeOK, Work
  PROVE  /\ phase = "process" /\ UNCHANGED <<config, outcome, iData, myCurrentProcessor, myInputData>>
         /\ RequiredProperties(ClassOf(i)) \subseteq data.properties
         /\ \/ i = size /\ i' = i /\ phase' = "write"
            \/ i < size /\ i' = i + 1 /\ phase' = "assign"
         /\ \E suppressed \in SUBSET Items, imprinted \in BOOLEAN : data' = Output(suppressed, imprinted)
         /\ rows' \subseteq rows \cup {iData}
         /\ \/ UNCHANGED storageVars
            \/ \E name \in {Metadata, "shape_check_result", "myCollisionInfos"}, content \in Contents :
                  Save(name, content)
  <1>1. /\ iData \in 0 .. Len(readers) /\ rows \subseteq 0 .. Len(readers)
        /\ config.tooSmall \in [BOOLEAN -> SUBSET Items]
        /\ data.suppressed \subseteq Items /\ data.imprinted \in BOOLEAN
        /\ i \in 1 .. size
    BY DEF TypeOK, Configurations
  <1>2. \A sets \in SUBSET (0 .. Len(readers)), items \in SUBSET Items :
          [Content(sets) EXCEPT !.items = items] \in Contents /\ Content(sets) \in Contents
    BY <1>1 DEF Content, Contents, Kept
  <1>3. Processed
    BY DEF Work, CheckShapes, BuildProperties, BuildBoundBoxes, ProcessPairs, Search
  <1>4. size \in 3 .. 6
    BY Processors DEF TypeOK, Configurations
  <1>5. /\ phase = "process" /\ UNCHANGED <<config, outcome, iData, myCurrentProcessor, myInputData>>
        /\ RequiredProperties(ClassOf(i)) \subseteq data.properties
        /\ \/ i = size /\ i' = i /\ phase' = "write"
           \/ i < size /\ i' = i + 1 /\ phase' = "assign"
    BY <1>1, <1>3, <1>4 DEF Processed, NextProcessor
  <1> DEFINE Rest == /\ \E suppressed \in SUBSET Items, imprinted \in BOOLEAN : data' = Output(suppressed, imprinted)
                     /\ rows' \subseteq rows \cup {iData}
                     /\ \/ UNCHANGED storageVars
                        \/ \E name \in {Metadata, "shape_check_result", "myCollisionInfos"},
                             content \in Contents : Save(name, content)
  <1>6. ASSUME CheckShapes PROVE Rest
    <2>1. \A failing \in IF ConfigOf(i).checking THEN SUBSET Kept ELSE {{}} : failing \in SUBSET Items
      BY DEF Kept
    <2>2. Content({iData}) \in Contents
      BY <1>1, <1>2
    <2>3. UNCHANGED rows /\ \E failing \in SUBSET Items :
              /\ \E suppressed \in {{}, failing} : data' = Output(suppressed, data.imprinted)
              /\ UNCHANGED storageVars \/ Save("shape_check_result", Content({iData}))
      BY <1>6, <2>1 DEF CheckShapes
    <2> QED
      BY <1>1, <2>2, <2>3
  <1>7. ASSUME BuildProperties PROVE Rest
    <2>1. config.tooSmall[data.imprinted] \in SUBSET Items
      BY <1>1
    <2>2. [Content({iData}) EXCEPT !.items = Items \ data'.suppressed] \in Contents
      <3>1. \A items \in SUBSET Items : [Content({iData}) EXCEPT !.items = items] \in Contents
        BY <1>1, <1>2
      <3> QED
        BY <3>1
    <2>3. /\ data' = Output(config.tooSmall[data.imprinted], data.imprinted)
          /\ UNCHANGED rows
          /\ \/ UNCHANGED storageVars
             \/ Save(Metadata, [Content({iData}) EXCEPT !.items = Items \ data'.suppressed])
      BY <1>7 DEF BuildProperties
    <2> QED
      BY <1>1, <2>1, <2>2, <2>3
  <1>8. ASSUME BuildBoundBoxes PROVE Rest
    BY <1>1, <1>8 DEF BuildBoundBoxes
  <1>9. ASSUME ProcessPairs PROVE Rest
    <2>1. rows' \subseteq rows \cup {iData}
      BY <1>9 DEF ProcessPairs
    <2>2. [Content(rows') EXCEPT !.items = Items] \in Contents
      <3>1. rows' \in SUBSET (0 .. Len(readers))
        BY <1>1, <2>1
      <3> QED
        BY <1>2, <3>1
    <2>3. /\ \E suppressed \in IF rows' = {} THEN {{}} ELSE SUBSET Kept :
                data' = Output(suppressed, data.imprinted \/ (~serialMode /\ ClassOf(i) = "GeometryImprinter"))
          /\ Save("myCollisionInfos", [Content(rows') EXCEPT !.items = Items])
      BY <1>9 DEF ProcessPairs
    <2>4. \A suppressed \in IF rows' = {} THEN {{}} ELSE SUBSET Kept : suppressed \in SUBSET Items
      BY DEF Kept
    <2>5. (data.imprinted \/ (~serialMode /\ ClassOf(i) = "GeometryImprinter")) \in BOOLEAN
      OBVIOUS
    <2> QED
      BY <2>1, <2>2, <2>3, <2>4, <2>5
  <1>10. ASSUME Search PROVE Rest
    BY <1>1, <1>10 DEF Search
  <1>11. Rest
    BY <1>6, <1>7, <1>8, <1>9, <1>10 DEF Work
  <1> QED
    BY <1>5, <1>11

\* Data sets are processed from a fresh state, and only processors change them.
LEMMA OtherSteps ==
  ASSUME [Next]_vars, ~ Work
  PROVE  \/ outcome = "running" /\ (Read \/ InstallHandler \/ Assign \/ SetInput
                                   \/ ProcessThrows \/ Write \/ NextData \/ Interrupt)
         \/ UNCHANGED vars
  BY DEF Next, Step, Work, Ended

\* At most one file is written, and it has one of these names.
Grows(names) ==
  \/ UNCHANGED files
  \/ \E p \in [folder : {myStoragePath, "absolute"}, name : names, stamp : Nat] :
        /\ p.folder = "absolute" => p.name \in Absolute
        /\ DOMAIN files' = DOMAIN files \cup {p} /\ files'[p] \in Contents
        /\ \A q \in DOMAIN files : q # p => files'[q] = files[q]

Written == {Metadata, Geometry, "shape_check_result", "myCollisionInfos", "dump"}

\* A data set begins with an empty folder; no other step takes a file away.
LEMMA FilesGrow ==
  ASSUME TypeOK, [Next]_vars
  PROVE  /\ Work => Grows(Written \ {Geometry, "dump"})
         /\ Write => Grows({Geometry})
         /\ Interrupt => Grows({"dump"})
         /\ ~ Read /\ outcome' = "running" => Grows(Written \ {"dump"})
         /\ ~ Read => Grows(Written) /\ UNCHANGED myStoragePath /\ now' \in Nat
  <1>1. now \in Nat /\ myStoragePath \in Stems
    BY DEF TypeOK
  <1>2. ASSUME Work
        PROVE  Grows(Written \ {Geometry, "dump"}) /\ UNCHANGED myStoragePath /\ now' \in Nat
    <2>1. CASE UNCHANGED storageVars
      BY <1>1, <2>1 DEF storageVars, Grows
    <2>2. ASSUME NEW name \in {Metadata, "shape_check_result", "myCollisionInfos"},
                 NEW content \in Contents, Save(name, content)
          PROVE  Grows(Written \ {Geometry, "dump"}) /\ UNCHANGED myStoragePath /\ now' \in Nat
      <3>1. PICK p \in [folder : {myStoragePath, "absolute"}, name : {name}, stamp : Nat] :
              /\ p.folder = "absolute" => name \in Absolute
              /\ DOMAIN files' = DOMAIN files \cup {p} /\ files'[p] = content
              /\ \A q \in DOMAIN files : q # p => files'[q] = files[q]
        BY <1>1, <2>2, Saving, SMTT(60)
      <3>2. p \in [folder : {myStoragePath, "absolute"}, name : Written \ {Geometry, "dump"}, stamp : Nat]
            /\ p.name = name
        BY <3>1 DEF Written, Metadata, Geometry
      <3>3. Grows(Written \ {Geometry, "dump"})
        BY <2>2, <3>1, <3>2 DEF Grows
      <3> QED
        BY <1>1, <2>2, <3>3, Saving
    <2> QED
      BY <1>2, <2>1, <2>2, Working
  <1>3. ASSUME Interrupt PROVE Grows({"dump"}) /\ UNCHANGED myStoragePath /\ now' \in Nat
    <2>1. CASE UNCHANGED storageVars
      BY <1>1, <2>1 DEF storageVars, Grows
    <2>2. CASE ~ UNCHANGED storageVars
      <3>1. Save("dump", Content({myInputData[myCurrentProcessor]})) /\ myCurrentProcessor # 0
        BY <1>3, <2>2 DEF Interrupt
      <3>2. Content({myInputData[myCurrentProcessor]}) \in Contents
        BY <3>1 DEF TypeOK, Content, Contents, Kept
      <3>3. PICK p \in [folder : {myStoragePath, "absolute"}, name : {"dump"}, stamp : Nat] :
              /\ p.folder = "absolute" => "dump" \in Absolute
              /\ DOMAIN files' = DOMAIN files \cup {p}
              /\ files'[p] = Content({myInputData[myCurrentProcessor]})
              /\ \A q \in DOMAIN files : q # p => files'[q] = files[q]
        BY <1>1, <3>1, Saving
      <3>4. p.name = "dump"
        BY <3>3
      <3>5. Grows({"dump"})
        BY <3>2, <3>3, <3>4 DEF Grows
      <3> QED
        BY <1>1, <3>1, <3>5, Saving
    <2> QED
      BY <2>1, <2>2
  <1>4. ASSUME Write PROVE Grows({Geometry}) /\ UNCHANGED myStoragePath /\ now' \in Nat
    <2>1. CASE UNCHANGED storageVars
      BY <1>1, <2>1 DEF storageVars, Grows
    <2>2. CASE ~ UNCHANGED storageVars
      <3>1. files' = Overwritten(getFullPath(Geometry, 0), Content({iData}))
            /\ UNCHANGED <<myStoragePath, now>>
        BY <1>4, <2>2 DEF Write
      <3>2. Content({iData}) \in Contents
        BY DEF TypeOK, Content, Contents, Kept
      <3>3. Geometry \in Absolute
        BY DEF AbsoluteFiles
      <3>4. PICK p : p = getFullPath(Geometry, 0)
        OBVIOUS
      <3>5. /\ p \in [folder : {myStoragePath, "absolute"}, name : {Geometry}, stamp : Nat]
            /\ p.name = Geometry
        BY <3>4 DEF getFullPath
      <3>6. /\ DOMAIN files' = DOMAIN files \cup {p} /\ files'[p] = Content({iData})
            /\ \A q \in DOMAIN files : q # p => files'[q] = files[q]
        BY <3>1, <3>4 DEF Overwritten
      <3> QED
        BY <1>1, <3>1, <3>2, <3>3, <3>5, <3>6 DEF Grows
    <2> QED
      BY <2>1, <2>2
  <1>5. \A A, B : A \subseteq B /\ Grows(A) => Grows(B)
    <2> SUFFICES ASSUME NEW A, NEW B, A \subseteq B, Grows(A), ~ UNCHANGED files
                 PROVE  Grows(B)
      BY DEF Grows
    <2>1. PICK p \in [folder : {myStoragePath, "absolute"}, name : A, stamp : Nat] :
            /\ p.folder = "absolute" => p.name \in Absolute
            /\ DOMAIN files' = DOMAIN files \cup {p} /\ files'[p] \in Contents
            /\ \A q \in DOMAIN files : q # p => files'[q] = files[q]
      BY DEF Grows
    <2>2. p \in [folder : {myStoragePath, "absolute"}, name : B, stamp : Nat]
      OBVIOUS
    <2> QED
      BY <2>1, <2>2 DEF Grows
  <1>6. ASSUME ~ Read, ~ Work, ~ Write, ~ Interrupt
        PROVE  UNCHANGED storageVars
    BY <1>6, OtherSteps
       DEF InstallHandler, Assign, SetInput, ProcessThrows, NextData, vars
  <1>7. Interrupt => outcome' # "running"
    BY DEF Interrupt
  <1>8. /\ Written \ {Geometry, "dump"} \subseteq Written \ {"dump"}
        /\ {Geometry} \subseteq Written \ {"dump"} /\ Written \ {"dump"} \subseteq Written
        /\ {"dump"} \subseteq Written
    BY DEF Written, Geometry
  <1>9. UNCHANGED storageVars => \A A : Grows(A) /\ UNCHANGED myStoragePath /\ now' \in Nat
    BY <1>1 DEF storageVars, Grows
  <1> HIDE DEF Grows, Written
  <1>10. ~ Read /\ outcome' = "running" => Grows(Written \ {"dump"})
    BY <1>2, <1>4, <1>5, <1>6, <1>7, <1>8, <1>9
  <1>11. ~ Read => Grows(Written) /\ UNCHANGED myStoragePath /\ now' \in Nat
    BY <1>2, <1>3, <1>4, <1>5, <1>6, <1>8, <1>9
  <1> QED
    BY <1>2, <1>3, <1>4, <1>10, <1>11
-----------------------------------------------------------------------------
(* The invariant *)

LEMMA InitTypeOK == Init => TypeOK
  <1> SUFFICES ASSUME Init PROVE TypeOK
    OBVIOUS
  <1>1. config \in Configurations
    <2>1. \A asked \in 0 .. MaxThreads, hardware \in 1 .. MaxThreads :
            setupParallelism(asked, hardware) \in Nat \ {0}
      BY DEF setupParallelism
    <2>2. {setupParallelism(asked, hardware) : asked \in 0 .. MaxThreads, hardware \in 1 .. MaxThreads}
            \subseteq Nat \ {0}
      BY <2>1
    <2> QED
      BY <2>2 DEF Init, Configurations
  <1>2. PICK n \in 1 .. MaxReaders : readers \in [1 .. n -> Stems]
    BY <1>1 DEF Configurations, readers
  <1>3. n \in Nat \ {0} /\ Len(readers) = n /\ readers[1] \in Stems
    BY <1>2
  <1>4. size \in 3 .. 6
    BY <1>1, Processors DEF Configurations
  <1>5. iData \in 1 .. Len(readers) /\ i \in 1 .. size /\ myCurrentProcessor \in 0 .. size
        /\ rows \subseteq 1 .. Len(readers) /\ myStoragePath \in Stems /\ now \in Nat
    BY <1>3, <1>4 DEF Init
  <1>6. myInputData \in [1 .. size -> 0 .. Len(readers)]
    BY <1>3, <1>4 DEF Init
  <1>7. DOMAIN files \subseteq Paths /\ \A p \in DOMAIN files : files[p] \in Contents
    <2>1. OfEarlierRun \in Contents
      BY <1>3 DEF OfEarlierRun, Contents
    <2>2. NamedPath(Metadata) \in Paths /\ NamedPath(Geometry) \in Paths
      BY DEF NamedPath, Paths
    <2>3. CASE files = <<>>
      BY <2>3
    <2>4. CASE files = [p \in {NamedPath(Metadata), NamedPath(Geometry)} |-> OfEarlierRun]
      BY <2>1, <2>2, <2>4
    <2> QED
      BY <2>3, <2>4 DEF Init
  <1> QED
    BY <1>1, <1>5, <1>6, <1>7 DEF Init, TypeOK

LEMMA InitIInv == Init => IInv
  <1> SUFFICES ASSUME Init PROVE IInv
    OBVIOUS
  <1>1. TypeOK
    BY InitTypeOK
  <1>2. StorageInv
    <2>1. CASE files = <<>>
      BY <2>1 DEF Init, StorageInv
    <2>2. CASE files = [p \in {NamedPath(Metadata), NamedPath(Geometry)} |-> OfEarlierRun]
      BY <2>2 DEF Init, StorageInv, NamedPath, Metadata, Geometry
    <2> QED
      BY <2>1, <2>2 DEF Init
  <1>3. InputInv /\ PropertiesInv /\ ImprintedInv /\ MetadataInv /\ GeometryInv
    BY DEF Init, InputInv, PropertiesInv, ImprintedInv, MetadataInv, GeometryInv, Past
  <1>4. PropertiesFound /\ WorkIsDumped
    BY DEF Init, PropertiesFound, WorkIsDumped
  <1>5. StampInv
    <2>1. CASE files = <<>>
      BY <2>1 DEF StampInv
    <2>2. CASE files = [p \in {NamedPath(Metadata), NamedPath(Geometry)} |-> OfEarlierRun]
      BY <2>2 DEF Init, StampInv, NamedPath, Metadata, Geometry
    <2> QED
      BY <2>1, <2>2 DEF Init
  <1> QED
    BY <1>1, <1>2, <1>3, <1>4, <1>5 DEF IInv

\* A data set that is begun is one of the list, and so is its folder.
LEMMA ReaderOf == TypeOK => /\ \A k \in 1 .. Len(readers) : readers[k] \in Stems
                            /\ Len(readers) \in Nat
  <1> SUFFICES ASSUME TypeOK PROVE /\ \A k \in 1 .. Len(readers) : readers[k] \in Stems
                                   /\ Len(readers) \in Nat
    OBVIOUS
  <1>1. PICK n \in 1 .. MaxReaders : readers \in [1 .. n -> Stems]
    <2>1. readers \in UNION {[1 .. n -> Stems] : n \in 1 .. MaxReaders}
      BY DEF TypeOK, Configurations, readers
    <2> QED
      BY <2>1
  <1>2. n \in Nat /\ Len(readers) = n
    BY <1>1
  <1> QED
    BY <1>1, <1>2

LEMMA TypeStep == TypeOK /\ [Next]_vars => TypeOK'
  <1> SUFFICES ASSUME TypeOK, [Next]_vars PROVE TypeOK'
    OBVIOUS
  <1>1. UNCHANGED config
    <2>1. Work => UNCHANGED config
      BY Working
    <2> QED
      BY <2>1, OtherSteps DEF Read, InstallHandler, Assign, SetInput, ProcessThrows, Write,
         NextData, Interrupt, vars, controllerVars
  <1>2. /\ size' = size /\ readers' = readers /\ Contents' = Contents
        /\ size \in 3 .. 6 /\ Len(readers) \in Nat
    <2>1. Contents' = Contents
      BY <1>1, SameConfig DEF Contents
    <2> QED
      BY <1>1, <2>1, SameConfig, Processors, ReaderOf DEF TypeOK, Configurations
  <1>3. /\ config' \in Configurations
        /\ phase' \in {"read", "install", "assign", "input", "process", "write", "written"}
        /\ outcome' \in {"running", "finished", "missing", "thrown", "killed", "crashed", "interrupted"}
        /\ iData' \in 1 .. Len(readers) /\ i' \in 1 .. size
        /\ myCurrentProcessor' \in 0 .. size
    <2>1. CASE Work
      <3>1. /\ phase \in {"read", "install", "assign", "input", "process", "write", "written"}
            /\ outcome \in {"running", "finished", "missing", "thrown", "killed", "crashed", "interrupted"}
            /\ iData \in 1 .. Len(readers) /\ i \in 1 .. size
            /\ myCurrentProcessor \in 0 .. size /\ config \in Configurations
        BY DEF TypeOK
      <3>2. /\ UNCHANGED <<config, outcome, iData, myCurrentProcessor, myInputData>>
            /\ \/ i = size /\ i' = i /\ phase' = "write"
               \/ i < size /\ i' = i + 1 /\ phase' = "assign"
        BY <2>1, Working
      <3> QED
        BY <1>2, <3>1, <3>2
    <2>2. CASE Read \/ InstallHandler \/ Assign \/ SetInput \/ ProcessThrows \/ Write \/ NextData \/ Interrupt
      BY <1>1, <1>2, <2>2 DEF TypeOK, Read, InstallHandler, Assign, SetInput, ProcessThrows, Write,
         NextData, Interrupt
    <2>3. CASE UNCHANGED vars
      BY <2>3 DEF TypeOK, vars, controllerVars
    <2> QED
      BY <2>1, <2>2, <2>3, OtherSteps
  <1>4. myInputData' \in [1 .. size -> 0 .. Len(readers)]
    <2>1. CASE SetInput
      <3>1. InputOf(i) \in 0 .. Len(readers)
        BY <1>2 DEF TypeOK, InputOf
      <3> QED
        BY <2>1, <3>1 DEF SetInput, TypeOK
    <2>2. CASE ~ SetInput
      <3>1. UNCHANGED myInputData
        BY <2>2, Working, OtherSteps DEF Read, InstallHandler, Assign, ProcessThrows, Write,
           NextData, Interrupt, vars, controllerVars
      <3> QED
        BY <3>1 DEF TypeOK
    <2> QED
      BY <2>1, <2>2
  <1> DEFINE Data == [properties : SUBSET {"myGeometryProperties", "myShapeBoundBoxes",
                                          "myAdjacencyMatrix", "myMatchedResults"},
                      suppressed : SUBSET Items, imprinted : BOOLEAN]
  <1>5. data' \in Data /\ rows' \subseteq 1 .. Len(readers)
    <2>1. CASE Work
      <3>1. \A suppressed \in SUBSET Items, imprinted \in BOOLEAN : Output(suppressed, imprinted) \in Data
        <4>1. ProducedProperties(ClassOf(i)) \subseteq {"myGeometryProperties", "myShapeBoundBoxes",
                                                     "myAdjacencyMatrix", "myMatchedResults"}
          BY DEF ProducedProperties
        <4> QED
          BY <4>1 DEF Output, TypeOK
      <3>2. data' \in Data
        BY <2>1, <3>1, Working
      <3>3. rows' \subseteq rows \cup {iData}
        BY <2>1, Working
      <3> QED
        BY <3>2, <3>3 DEF TypeOK
    <2>2. CASE Read
      BY <2>2 DEF Read, TypeOK
    <2>3. CASE ~ Work /\ ~ Read
      <3>1. UNCHANGED <<data, rows>>
        BY <2>3, OtherSteps DEF InstallHandler, Assign, SetInput, ProcessThrows, Write,
           NextData, Interrupt, vars, dataVars
      <3> QED
        BY <3>1 DEF TypeOK
    <2> QED
      BY <2>1, <2>2, <2>3
  <1>6. /\ DOMAIN files' \subseteq Paths /\ \A p \in DOMAIN files' : files'[p] \in Contents
        /\ myStoragePath' \in Stems /\ now' \in Nat
    <2>1. CASE Read
      <3>1. setStoragePath(readers[iData]) /\ readers[iData] \in Stems
        BY <2>1, ReaderOf DEF Read, generateStoragePath, TypeOK
      <3> QED
        BY <3>1 DEF TypeOK, setStoragePath
    <2>2. CASE ~ Read
      <3>1. Grows(Written) /\ UNCHANGED myStoragePath /\ now' \in Nat
        BY <2>2, FilesGrow
      <3>2. CASE UNCHANGED files
        BY <3>1, <3>2 DEF TypeOK
      <3>3. CASE ~ UNCHANGED files
        <4>1. PICK p \in [folder : {myStoragePath, "absolute"}, name : Written, stamp : Nat] :
                /\ DOMAIN files' = DOMAIN files \cup {p} /\ files'[p] \in Contents
                /\ \A q \in DOMAIN files : q # p => files'[q] = files[q]
          BY <3>1, <3>3 DEF Grows
        <4>2. p \in Paths
          BY DEF Paths, Written, TypeOK
        <4> QED
          BY <3>1, <4>1, <4>2 DEF TypeOK
      <3> QED
        BY <3>2, <3>3
    <2> QED
      BY <2>1, <2>2
  <1> QED
    BY <1>2, <1>3, <1>4, <1>5, <1>6 DEF TypeOK

\* Only a running program works.
LEMMA WorkRuns ==
  ASSUME TypeOK, [Next]_vars, Work
  PROVE  outcome = "running" /\ outcome' = "running"
  <1>1. phase' # phase /\ UNCHANGED outcome
    BY Working
  <1>2. ~ UNCHANGED vars
    BY <1>1 DEF vars, controllerVars
  <1> QED
    BY <1>1, <1>2 DEF Next, Ended

LEMMA StorageStep == TypeOK /\ StorageInv /\ [Next]_vars => StorageInv'
  <1> SUFFICES ASSUME TypeOK, StorageInv, [Next]_vars PROVE StorageInv'
    OBVIOUS
  <1>1. readers' = readers /\ iData \in Nat
    <2>1. UNCHANGED config
      BY Working, OtherSteps DEF Read, InstallHandler, Assign, SetInput, ProcessThrows, Write,
         NextData, Interrupt, vars, controllerVars
    <2> QED
      BY <2>1, SameConfig DEF TypeOK
  <1> DEFINE FolderOK == IF phase = "read" THEN iData > 1 => myStoragePath = readers[iData - 1]
                                           ELSE myStoragePath = readers[iData]
             DumpOK == outcome = "running" => \A p \in DOMAIN files : p.name # "dump"
  <1>2. CASE Read
    <2>1. setStoragePath(readers[iData]) /\ phase' = "install" /\ UNCHANGED <<iData, outcome>>
      BY <1>2 DEF Read, generateStoragePath
    <2> QED
      BY <1>1, <2>1 DEF StorageInv, setStoragePath
  <1>3. CASE ~ Read
    <2>1. Grows(Written) /\ UNCHANGED myStoragePath
          /\ (outcome' = "running" => Grows(Written \ {"dump"}))
      BY <1>3, FilesGrow
    <2>2. FolderOK'
      <3>1. CASE NextData
        BY <1>1, <2>1, <3>1 DEF NextData, StorageInv
      <3>2. CASE Work
        BY <1>1, <2>1, <3>2, Working DEF StorageInv
      <3>3. CASE ~ NextData /\ ~ Work
        BY <1>1, <1>3, <2>1, <3>3, OtherSteps DEF StorageInv, InstallHandler, Assign, SetInput,
           ProcessThrows, Write, Interrupt, vars, controllerVars
      <3> QED
        BY <3>1, <3>2, <3>3
    <2>3. DumpOK'
      <3> SUFFICES ASSUME outcome' = "running" PROVE (\A p \in DOMAIN files : p.name # "dump")'
        OBVIOUS
      <3>1. outcome = "running"
        BY WorkRuns, OtherSteps DEF vars, controllerVars
      <3>2. \A p \in DOMAIN files : p.name # "dump"
        BY <3>1 DEF StorageInv
      <3>3. CASE UNCHANGED files
        BY <3>2, <3>3
      <3>4. CASE ~ UNCHANGED files
        <4>1. PICK p \in [folder : {myStoragePath, "absolute"}, name : Written \ {"dump"}, stamp : Nat] :
                DOMAIN files' = DOMAIN files \cup {p}
          BY <2>1, <3>4 DEF Grows
        <4>2. p.name # "dump"
          OBVIOUS
        <4> QED
          BY <3>2, <4>1, <4>2
      <3> QED
        BY <3>3, <3>4
    <2> QED
      BY <2>2, <2>3 DEF StorageInv
  <1> QED
    BY <1>2, <1>3

LEMMA InputStep == TypeOK /\ InputInv /\ [Next]_vars => InputInv'
  <1> SUFFICES ASSUME TypeOK, InputInv, [Next]_vars PROVE InputInv'
    OBVIOUS
  <1>1. size' = size
    <2>1. UNCHANGED config
      BY Working, OtherSteps DEF Read, InstallHandler, Assign, SetInput, ProcessThrows, Write,
         NextData, Interrupt, vars, controllerVars
    <2> QED
      BY <2>1, SameConfig
  <1>2. i \in 1 .. size /\ size \in 3 .. 6 /\ iData \in Nat
        /\ myInputData \in [1 .. size -> 0 .. Len(readers)]
    BY Processors DEF TypeOK, Configurations
  <1>3. CASE Work
    <2>1. /\ UNCHANGED <<iData, myCurrentProcessor, myInputData>> /\ phase = "process"
          /\ \/ i = size /\ i' = i /\ phase' = "write"
             \/ i < size /\ i' = i + 1 /\ phase' = "assign"
      BY <1>3, Working
    <2>2. \A k \in 1 .. i : myInputData[k] = iData
      BY <1>2, <2>1 DEF InputInv, Past
    <2> QED
      BY <1>1, <1>2, <2>1, <2>2 DEF InputInv, Past
  <1>4. CASE SetInput
    <2>1. InputOf(i) = iData
      BY <1>2, <1>4 DEF InputOf, InputInv, Past, SetInput
    <2>2. myInputData' = [myInputData EXCEPT ![i] = iData] /\ phase' = "process"
          /\ UNCHANGED <<i, iData, myCurrentProcessor>> /\ phase = "input"
      BY <1>4, <2>1 DEF SetInput
    <2>3. \A k \in 1 .. i : myInputData'[k] = iData
      BY <1>2, <2>2 DEF InputInv, Past
    <2> QED
      BY <1>1, <1>2, <2>2, <2>3 DEF InputInv, Past
  <1>5. CASE Read \/ InstallHandler \/ NextData
    BY <1>1, <1>2, <1>5 DEF InputInv, Past, Read, InstallHandler, NextData
  <1>6. CASE Assign
    BY <1>1, <1>2, <1>6 DEF InputInv, Past, Assign
  <1>7. CASE Write \/ ProcessThrows \/ Interrupt
    BY <1>1, <1>2, <1>7 DEF InputInv, Past, Write, ProcessThrows, Interrupt
  <1>8. CASE UNCHANGED vars
    BY <1>1, <1>8 DEF InputInv, Past, vars, controllerVars
  <1> QED
    BY <1>3, <1>4, <1>5, <1>6, <1>7, <1>8, OtherSteps

LEMMA PropertiesStep == TypeOK /\ PropertiesInv /\ [Next]_vars => PropertiesInv'
  <1> SUFFICES ASSUME TypeOK, PropertiesInv, [Next]_vars PROVE PropertiesInv'
    OBVIOUS
  <1>1. i \in 1 .. size /\ size \in 3 .. 6
        /\ ClassOf(2) = "GeometryPropertyBuilder" /\ ClassOf(3) = "BoundBoxBuilder"
    BY Processors DEF TypeOK, Configurations
  <1>2. CASE Work
    <2>1. /\ data'.properties = data.properties \cup ProducedProperties(ClassOf(i))
          /\ phase = "process"
          /\ \/ i = size /\ i' = i /\ phase' = "write"
             \/ i < size /\ i' = i + 1 /\ phase' = "assign"
      <3>1. \E suppressed, imprinted : data' = Output(suppressed, imprinted)
        BY <1>2, Working
      <3> QED
        BY <1>2, <3>1, Working DEF Output
    <2>2. /\ i = 2 => "myGeometryProperties" \in data'.properties
          /\ i = 3 => "myShapeBoundBoxes" \in data'.properties
      <3>1. /\ "myGeometryProperties" \in ProducedProperties("GeometryPropertyBuilder")
            /\ "myShapeBoundBoxes" \in ProducedProperties("BoundBoxBuilder")
        BY DEF ProducedProperties, Coupled
      <3> QED
        BY <1>1, <2>1, <3>1
    <2> QED
      BY <1>1, <2>1, <2>2 DEF PropertiesInv, Past
  <1>3. CASE Read \/ InstallHandler \/ NextData
    BY <1>3 DEF PropertiesInv, Past, Read, InstallHandler, NextData, dataVars
  <1>4. CASE Assign \/ SetInput \/ Write \/ ProcessThrows \/ Interrupt
    BY <1>4 DEF PropertiesInv, Past, Assign, SetInput, Write, ProcessThrows, Interrupt, dataVars
  <1>5. CASE UNCHANGED vars
    BY <1>5 DEF PropertiesInv, Past, vars, controllerVars, dataVars
  <1> QED
    BY <1>2, <1>3, <1>4, <1>5, OtherSteps

\* The shapes change under the imprinter's hands, in parallel mode.
LEMMA WorkImprints ==
  ASSUME TypeOK, Work
  PROVE  data'.imprinted <=> data.imprinted \/ (config.threadsOnNode # 1 /\ ClassOf(i) = "GeometryImprinter")
  <1>1. data.imprinted \in BOOLEAN
    BY DEF TypeOK
  <1>2. CASE CheckShapes
    <2>1. data'.imprinted = data.imprinted
      BY <1>2 DEF CheckShapes, Output
    <2> QED
      BY <1>1, <1>2, <2>1 DEF CheckShapes
  <1>3. CASE BuildProperties
    <2>1. data'.imprinted = data.imprinted
      BY <1>3 DEF BuildProperties, Output
    <2> QED
      BY <1>1, <1>3, <2>1 DEF BuildProperties
  <1>4. CASE BuildBoundBoxes
    <2>1. data'.imprinted = data.imprinted
      BY <1>4 DEF BuildBoundBoxes, Output
    <2> QED
      BY <1>1, <1>4, <2>1 DEF BuildBoundBoxes
  <1>5. CASE Search
    <2>1. data'.imprinted = data.imprinted
      BY <1>5 DEF Search, Output
    <2> QED
      BY <1>1, <1>5, <2>1 DEF Search
  <1>6. CASE ProcessPairs
    <2>1. data'.imprinted = (data.imprinted \/ (~serialMode /\ ClassOf(i) = "GeometryImprinter"))
      BY <1>6 DEF ProcessPairs, Output
    <2> QED
      BY <2>1 DEF serialMode
  <1> QED
    BY <1>2, <1>3, <1>4, <1>5, <1>6 DEF Work

LEMMA ImprintedStep == TypeOK /\ ImprintedInv /\ [Next]_vars => ImprintedInv'
  <1> SUFFICES ASSUME TypeOK, ImprintedInv, [Next]_vars PROVE ImprintedInv'
    OBVIOUS
  <1>1. /\ i \in 1 .. size /\ size \in 3 .. 6 /\ data.imprinted \in BOOLEAN
        /\ config.action = "imprint" => size = 6
    BY Processors DEF TypeOK, Configurations
  <1>2. ClassOf(i) = "GeometryImprinter" <=> config.action = "imprint" /\ i = 4
    <2>1. i \in {1, 2, 3} => ClassOf(i) # "GeometryImprinter"
      BY Processors DEF TypeOK, Configurations
    <2>2. CASE config.action = "imprint"
      <3>1. i \in {1, 2, 3, 4, 5, 6}
        BY <1>1, <2>2
      <3> QED
        BY <2>1, <2>2, <3>1, Processors DEF TypeOK, Configurations
    <2>3. CASE config.action = "fix"
      <3>1. size = 5
        BY <2>3, Processors DEF TypeOK, Configurations
      <3>2. i \in {1, 2, 3, 4, 5}
        BY <1>1, <3>1
      <3> QED
        BY <2>1, <2>3, <3>2, Processors DEF TypeOK, Configurations
    <2>4. CASE config.action \notin {"imprint", "fix"}
      <3>1. i \in {1, 2, 3} \/ i \in 4 .. size
        BY <1>1
      <3> QED
        BY <2>1, <2>4, <3>1, Processors DEF TypeOK, Configurations
    <2> QED
      BY <2>2, <2>3, <2>4
  <1>3. CASE Work
    <2>1. /\ phase = "process" /\ UNCHANGED config
          /\ \/ i = size /\ i' = i /\ phase' = "write"
             \/ i < size /\ i' = i + 1 /\ phase' = "assign"
      BY <1>3, Working
    <2>2. data'.imprinted <=> data.imprinted \/ (config.threadsOnNode # 1 /\ ClassOf(i) = "GeometryImprinter")
      BY <1>3, WorkImprints
    <2>3. config.action = "imprint" => (Past(4)' <=> Past(4) \/ i = 4)
      BY <1>1, <2>1 DEF Past
    <2> QED
      BY <1>2, <2>1, <2>2, <2>3 DEF ImprintedInv
  <1>4. CASE Read \/ NextData
    BY <1>4 DEF ImprintedInv, Past, Read, NextData, dataVars
  <1>5. CASE InstallHandler
    BY <1>5 DEF ImprintedInv, Past, InstallHandler, dataVars
  <1>6. CASE Assign \/ SetInput \/ Write \/ ProcessThrows \/ Interrupt
    BY <1>6 DEF ImprintedInv, Past, Assign, SetInput, Write, ProcessThrows, Interrupt, dataVars
  <1>7. CASE UNCHANGED vars
    BY <1>7 DEF ImprintedInv, Past, vars, controllerVars, dataVars
  <1> QED
    BY <1>3, <1>4, <1>5, <1>6, <1>7, OtherSteps

\* What describes the data set is not overwritten by files of other names.
LEMMA StaysDescribed ==
  ASSUME NEW names, Grows(names), Metadata \notin names, Described, UNCHANGED <<data, iData>>
  PROVE  Described'
  <1>1. PICK m \in DOMAIN files : Latest(Metadata, m) /\ files[m] = Content({iData})
    BY DEF Described
  <1>2. /\ m \in DOMAIN files' /\ files'[m] = files[m] /\ m.name = Metadata
        /\ \A q \in DOMAIN files' : q.name = Metadata => q.stamp <= m.stamp
    <2>1. CASE UNCHANGED files
      BY <1>1, <2>1 DEF Latest
    <2>2. CASE ~ UNCHANGED files
      <3>1. PICK p \in [folder : {myStoragePath, "absolute"}, name : names, stamp : Nat] :
              /\ DOMAIN files' = DOMAIN files \cup {p}
              /\ \A q \in DOMAIN files : q # p => files'[q] = files[q]
        BY <2>2 DEF Grows
      <3>2. p.name # Metadata
        BY <3>1
      <3> QED
        BY <1>1, <3>1, <3>2 DEF Latest
    <2> QED
      BY <2>1, <2>2
  <1>3. Content({iData})' = Content({iData})
    BY DEF Content, Kept
  <1> QED
    BY <1>1, <1>2, <1>3 DEF Described, Latest

\* A new version of the metadata file is the last one, by the timestamps as by the clock.
LEMMA NewVersion ==
  ASSUME TypeOK, StampInv, NEW content, Save(Metadata, content)
  PROVE  /\ StampInv'
         /\ \E p \in DOMAIN files' : Latest(Metadata, p)' /\ files'[p] = content
  <1>1. PICK time \in now .. MaxTime :
          files' = Overwritten(dataStoragePath(Metadata, time), content) /\ now' = time
    BY DEF Save
  <1>2. /\ now \in Nat /\ time \in Nat /\ now <= time
        /\ \A q \in DOMAIN files : q.stamp \in Nat
    BY DEF TypeOK, Paths
  <1>3. PICK p : p = dataStoragePath(Metadata, time)
    OBVIOUS
  <1>4. /\ p.name = Metadata /\ p.folder = "absolute" /\ p.stamp \in {0, time}
        /\ NamedPath(Metadata) \in DOMAIN files => p.stamp = time
        /\ NamedPath(Metadata) \notin DOMAIN files => p = NamedPath(Metadata)
    BY <1>3 DEF dataStoragePath, getFullPath, NamedPath, AbsoluteFiles
  <1>5. DOMAIN files' = DOMAIN files \cup {p} /\ files'[p] = content
    BY <1>1, <1>3 DEF Overwritten
  <1>6. NamedPath(Metadata)' = NamedPath(Metadata)
    BY DEF NamedPath
  <1>7. StampInv'
    BY <1>1, <1>2, <1>4, <1>5, <1>6 DEF StampInv
  <1>8. \A q \in DOMAIN files' : q.name = Metadata => q.stamp <= p.stamp
    <2>1. CASE NamedPath(Metadata) \in DOMAIN files
      BY <1>2, <1>4, <1>5, <2>1 DEF StampInv
    <2>2. CASE NamedPath(Metadata) \notin DOMAIN files
      BY <1>2, <1>4, <1>5, <2>2 DEF StampInv
    <2> QED
      BY <2>1, <2>2
  <1> QED
    BY <1>4, <1>5, <1>7, <1>8 DEF Latest

\* Files of other names do not matter to the versions of the metadata, nor does the
\* folder of a data set that is emptied.
LEMMA StampStep == TypeOK /\ StampInv /\ [Next]_vars => StampInv'
  <1> SUFFICES ASSUME TypeOK, StampInv, [Next]_vars PROVE StampInv'
    OBVIOUS
  <1>1. /\ now \in Nat /\ \A q \in DOMAIN files : q.stamp \in Nat
        /\ NamedPath(Metadata)' = NamedPath(Metadata)
    BY DEF TypeOK, Paths, NamedPath
  <1>2. CASE UNCHANGED storageVars
    BY <1>1, <1>2 DEF storageVars, StampInv
  <1>3. ASSUME NEW name \in {"shape_check_result", "myCollisionInfos", "dump"}, NEW content,
               Save(name, content)
        PROVE  StampInv'
    <2>1. PICK time \in now .. MaxTime :
            files' = Overwritten(dataStoragePath(name, time), content) /\ now' = time
      BY <1>3 DEF Save
    <2>2. time \in Nat /\ now <= time
      BY <1>1
    <2>3. PICK p : p = dataStoragePath(name, time)
      OBVIOUS
    <2>4. p.name = name /\ p.name # Metadata
      BY <2>3 DEF dataStoragePath, getFullPath, Metadata
    <2>5. DOMAIN files' = DOMAIN files \cup {p}
      BY <2>1, <2>3 DEF Overwritten
    <2> QED
      BY <1>1, <2>1, <2>2, <2>4, <2>5 DEF StampInv
  <1>4. CASE Work
    <2>1. ASSUME NEW name \in {Metadata, "shape_check_result", "myCollisionInfos"},
                 NEW content \in Contents, Save(name, content)
          PROVE  StampInv'
      <3>1. CASE name = Metadata
        BY <2>1, <3>1, NewVersion
      <3>2. CASE name # Metadata
        BY <1>3, <2>1, <3>2
      <3> QED
        BY <3>1, <3>2
    <2> QED
      BY <1>2, <1>4, <2>1, Working
  <1>5. CASE Interrupt
    <2>1. UNCHANGED storageVars \/ \E content : Save("dump", content)
      BY <1>5 DEF Interrupt
    <2> QED
      BY <1>2, <1>3, <2>1
  <1>6. CASE Read
    <2>1. setStoragePath(readers[iData]) /\ readers[iData] # "absolute"
      BY <1>6, ReaderOf DEF Read, generateStoragePath, TypeOK
    <2>2. /\ DOMAIN files' = {q \in DOMAIN files : q.folder # readers[iData]}
          /\ now' = now
      BY <2>1 DEF setStoragePath
    <2>3. NamedPath(Metadata).folder = "absolute"
      BY DEF NamedPath
    <2> QED
      BY <1>1, <2>1, <2>2, <2>3 DEF StampInv
  <1>7. CASE Write
    <2>1. CASE UNCHANGED files /\ UNCHANGED now
      BY <1>1, <2>1 DEF StampInv
    <2>2. CASE ~ (UNCHANGED files /\ UNCHANGED now)
      <3>1. files' = Overwritten(getFullPath(Geometry, 0), Content({iData})) /\ now' = now
        BY <1>7, <2>2 DEF Write, storageVars
      <3>2. DOMAIN files' = DOMAIN files \cup {getFullPath(Geometry, 0)}
        BY <3>1 DEF Overwritten
      <3>3. getFullPath(Geometry, 0).name # Metadata
        BY DEF getFullPath, Metadata, Geometry
      <3> QED
        BY <1>1, <3>1, <3>2, <3>3 DEF StampInv
    <2> QED
      BY <2>1, <2>2
  <1>8. CASE InstallHandler \/ Assign \/ SetInput \/ ProcessThrows \/ NextData \/ UNCHANGED vars
    BY <1>2, <1>8 DEF InstallHandler, Assign, SetInput, ProcessThrows, NextData, vars
  <1> QED
    BY <1>4, <1>5, <1>6, <1>7, <1>8, OtherSteps

\* The property builder describes what it leaves.
LEMMA BuilderDescribes ==
  ASSUME TypeOK, StampInv, BuildProperties, ConfigOf(i).output = Metadata
  PROVE  Described'
  <1>1. /\ data' = Output(config.tooSmall[data.imprinted], data.imprinted)
        /\ Save(Metadata, [Content({iData}) EXCEPT !.items = Items \ data'.suppressed])
        /\ UNCHANGED iData
    BY DEF BuildProperties, Processed
  <1>2. [Content({iData}) EXCEPT !.items = Items \ data'.suppressed] = Content({iData})'
    <2>1. data'.imprinted = data.imprinted
      BY <1>1 DEF Output
    <2>2. Content({iData})' = [of |-> {iData}, items |-> Items \ data'.suppressed, imprinted |-> data.imprinted]
      BY <1>1, <2>1 DEF Content, Kept
    <2>3. Content({iData}) = [of |-> {iData}, items |-> Items \ data.suppressed, imprinted |-> data.imprinted]
      BY DEF Content, Kept
    <2> DEFINE c == [of |-> {iData}, items |-> Items \ data.suppressed, imprinted |-> data.imprinted]
    <2>4. \A items : [c EXCEPT !.items = items]
                     = [of |-> {iData}, items |-> items, imprinted |-> data.imprinted]
      OBVIOUS
    <2> HIDE DEF c
    <2>5. Content({iData}) = c
      BY <2>3 DEF c
    <2> QED
      BY <2>2, <2>4, <2>5
  <1>3. Save(Metadata, Content({iData})')
    BY <1>1, <1>2
  <1> QED
    <2>1. PICK c : c = Content({iData})'
      OBVIOUS
    <2>2. Save(Metadata, c)
      BY <1>3, <2>1
    <2>3. \E p \in DOMAIN files' : Latest(Metadata, p)' /\ files'[p] = c
      BY <2>2, NewVersion
    <2> QED
      BY <2>1, <2>3 DEF Described

\* In actions that do not change the shapes, nothing is suppressed after the first
\* property builder, and no file is written before the writer.
LEMMA NothingMore ==
  ASSUME TypeOK, Work, config.action \in {"merge", "fix"}, i > 2, data.imprinted = FALSE,
         config.tooSmall[FALSE] \subseteq data.suppressed
  PROVE  data'.suppressed = data.suppressed /\ data'.imprinted = data.imprinted /\ UNCHANGED files
  <1>1. i \in 1 .. size
    BY DEF TypeOK
  <1>2. \/ i \in {3, 4, 5} /\ config.action = "fix"
        \/ i = 3
    <2>1. config.action = "merge" => size = 3
      BY Processors DEF TypeOK, Configurations
    <2>2. config.action = "fix" => size = 5
      BY Processors DEF TypeOK, Configurations
    <2> QED
      BY <1>1, <2>1, <2>2
  <1>3. CASE i = 3
    <2>1. ClassOf(i) = "BoundBoxBuilder"
      BY <1>3, Processors DEF TypeOK, Configurations
    <2>2. BuildBoundBoxes
      BY <2>1 DEF Work, CheckShapes, BuildProperties, ProcessPairs, Search, Coupled
    <2> QED
      BY <2>2 DEF BuildBoundBoxes, Output, storageVars
  <1>4. CASE i = 4 /\ config.action = "fix"
    <2>1. ClassOf(i) = "GeometryShapeChecker" /\ ConfigOf(i).checking = FALSE
      <3>1. ClassOf(4) = "GeometryShapeChecker" /\ 4 \in 1 .. size
        BY <1>1, <1>4, Processors DEF TypeOK, Configurations
      <3>2. ConfigOf(4).checking = FALSE
        BY <3>1, Processors DEF TypeOK, Configurations
      <3> QED
        BY <1>4, <3>1, <3>2
    <2>2. CheckShapes
      BY <2>1 DEF Work, BuildBoundBoxes, BuildProperties, ProcessPairs, Search, Coupled
    <2>3. data' = Output({}, data.imprinted) /\ UNCHANGED storageVars
      BY <2>1, <2>2 DEF CheckShapes
    <2> QED
      BY <2>3 DEF Output, storageVars
  <1>5. CASE i = 5 /\ config.action = "fix"
    <2>1. ClassOf(i) = "GeometryPropertyBuilder" /\ ConfigOf(i).output # Metadata
      BY <1>5, Processors DEF TypeOK, Configurations
    <2>2. BuildProperties
      BY <2>1 DEF Work, BuildBoundBoxes, CheckShapes, ProcessPairs, Search, Coupled
    <2>3. data' = Output(config.tooSmall[FALSE], data.imprinted) /\ UNCHANGED storageVars
      BY <2>1, <2>2 DEF BuildProperties
    <2> QED
      BY <2>3 DEF Output, storageVars
  <1> QED
    BY <1>2, <1>3, <1>4, <1>5

LEMMA MetadataStep == TypeOK /\ StampInv /\ ImprintedInv /\ MetadataInv /\ [Next]_vars => MetadataInv'
  <1> SUFFICES ASSUME TypeOK, StampInv, ImprintedInv, MetadataInv, [Next]_vars PROVE MetadataInv'
    OBVIOUS
  <1>1. i \in 1 .. size /\ size \in 3 .. 6 /\ (config.action = "imprint" => size = 6)
    BY Processors DEF TypeOK, Configurations
  <1>2. CASE Work
    <2>1. /\ phase = "process" /\ UNCHANGED <<config, iData>>
          /\ \/ i = size /\ i' = i /\ phase' = "write"
             \/ i < size /\ i' = i + 1 /\ phase' = "assign"
      BY <1>2, Working
    <2>2. ASSUME config.action = "imprint", Past(6)' PROVE Described'
      <3>1. i = 6
        BY <1>1, <2>1, <2>2 DEF Past
      <3>2. ClassOf(i) = "GeometryPropertyBuilder" /\ ConfigOf(i).output = Metadata
        BY <2>2, <3>1, Processors DEF TypeOK, Configurations
      <3>3. BuildProperties
        BY <1>2, <3>2 DEF Work, BuildBoundBoxes, CheckShapes, ProcessPairs, Search, Coupled
      <3> QED
        BY <3>2, <3>3, BuilderDescribes
    <2>3. ASSUME config.action \in {"merge", "fix"}, Past(2)'
          PROVE  Described' /\ config.tooSmall[FALSE] \subseteq data'.suppressed
      <3>1. data.imprinted = FALSE
        BY <2>1, <2>3 DEF ImprintedInv, TypeOK
      <3>2. i >= 2
        BY <1>1, <2>1, <2>3 DEF Past
      <3>3. CASE i = 2
        <4>1. ClassOf(i) = "GeometryPropertyBuilder" /\ ConfigOf(i).output = Metadata
          BY <3>3, Processors DEF TypeOK, Configurations
        <4>2. BuildProperties
          BY <1>2, <4>1 DEF Work, BuildBoundBoxes, CheckShapes, ProcessPairs, Search, Coupled
        <4>3. data' = Output(config.tooSmall[FALSE], data.imprinted)
          BY <3>1, <4>2 DEF BuildProperties
        <4> QED
          BY <4>1, <4>2, <4>3, BuilderDescribes DEF Output
      <3>4. CASE i > 2
        <4>1. Described /\ config.tooSmall[FALSE] \subseteq data.suppressed
          BY <2>1, <2>3, <3>4 DEF MetadataInv, Past
        <4>2. data'.suppressed = data.suppressed /\ data'.imprinted = data.imprinted /\ UNCHANGED files
          BY <1>2, <2>3, <3>1, <3>4, <4>1, NothingMore
        <4>3. Content({iData})' = Content({iData})
          BY <2>1, <4>2 DEF Content, Kept
        <4> QED
          BY <4>1, <4>2, <4>3 DEF Described, Latest
      <3>5. i = 2 \/ i > 2
        BY <1>1, <3>2
      <3> QED
        BY <3>3, <3>4, <3>5
    <2> QED
      BY <2>1, <2>2, <2>3 DEF MetadataInv
  <1>3. CASE Read \/ InstallHandler \/ (NextData /\ iData < Len(readers))
    <2>1. ~ Past(2)' /\ ~ Past(6)'
      <3>1. CASE Read \/ InstallHandler
        BY <3>1 DEF Past, Read, InstallHandler
      <3>2. CASE NextData /\ iData < Len(readers)
        BY <3>2 DEF Past, NextData
      <3> QED
        BY <1>3, <3>1, <3>2
    <2> QED
      BY <2>1 DEF MetadataInv
  <1>4. CASE Assign \/ SetInput \/ ProcessThrows \/ (NextData /\ ~ (iData < Len(readers)))
    <2>1. UNCHANGED <<files, data, iData, config>> /\ (Past(2)' <=> Past(2)) /\ (Past(6)' <=> Past(6))
      <3>1. CASE Assign \/ SetInput \/ ProcessThrows
        BY <3>1 DEF Assign, SetInput, ProcessThrows, dataVars, storageVars, Past
      <3>2. CASE NextData /\ ~ (iData < Len(readers))
        BY <3>2 DEF NextData, dataVars, storageVars, Past
      <3> QED
        BY <1>4, <3>1, <3>2
    <2>2. Described' <=> Described
      BY <2>1 DEF Described, Latest, Content, Kept
    <2> QED
      BY <2>1, <2>2 DEF MetadataInv
  <1>5. CASE Write \/ Interrupt
    <2>1. UNCHANGED <<data, iData, config>> /\ (Past(2)' <=> Past(2)) /\ (Past(6)' <=> Past(6))
      BY <1>5 DEF Write, Interrupt, dataVars, Past
    <2>2. Grows({Geometry}) \/ Grows({"dump"})
      BY <1>5, FilesGrow
    <2>3. Described => Described'
      BY <2>1, <2>2, StaysDescribed DEF Metadata, Geometry
    <2> QED
      BY <2>1, <2>3 DEF MetadataInv
  <1>6. CASE UNCHANGED vars
    <2>1. UNCHANGED <<files, data, iData, config>> /\ (Past(2)' <=> Past(2)) /\ (Past(6)' <=> Past(6))
      BY <1>6 DEF vars, controllerVars, dataVars, storageVars, Past
    <2>2. Described' <=> Described
      BY <2>1 DEF Described, Latest, Content, Kept
    <2> QED
      BY <2>1, <2>2 DEF MetadataInv
  <1> QED
    BY <1>2, <1>3, <1>4, <1>5, <1>6, OtherSteps

LEMMA GeometryStep == TypeOK /\ GeometryInv /\ [Next]_vars => GeometryInv'
  <1> SUFFICES ASSUME TypeOK, GeometryInv, [Next]_vars, phase' = "written", HasWriter(config.action)'
               PROVE  (NamedPath(Geometry) \in DOMAIN files /\ files[NamedPath(Geometry)] = Content({iData}))'
    BY DEF GeometryInv
  <1>1. CASE Write
    <2>1. UNCHANGED <<iData, data, config>>
      BY <1>1 DEF Write, dataVars
    <2>2. HasWriter(config.action)
      BY <2>1 DEF HasWriter
    <2>3. files' = Overwritten(getFullPath(Geometry, 0), Content({iData}))
      BY <1>1, <2>2 DEF Write
    <2>4. getFullPath(Geometry, 0) = NamedPath(Geometry)
      BY DEF getFullPath, NamedPath, AbsoluteFiles
    <2>5. Content({iData})' = Content({iData})
      BY <2>1 DEF Content, Kept
    <2>6. NamedPath(Geometry) \in DOMAIN files' /\ files'[NamedPath(Geometry)] = Content({iData})
      BY <2>3, <2>4 DEF Overwritten
    <2>7. NamedPath(Geometry)' = NamedPath(Geometry)
      BY DEF NamedPath
    <2> QED
      BY <2>5, <2>6, <2>7
  <1>2. CASE Interrupt
    <2>1. UNCHANGED <<iData, data, config, phase>>
      BY <1>2 DEF Interrupt, dataVars
    <2>2. NamedPath(Geometry) \in DOMAIN files /\ files[NamedPath(Geometry)] = Content({iData})
      BY <2>1 DEF GeometryInv, HasWriter
    <2>3. Grows({"dump"})
      BY <1>2, FilesGrow
    <2>4. NamedPath(Geometry) \in DOMAIN files' /\ files'[NamedPath(Geometry)] = files[NamedPath(Geometry)]
      <3>1. CASE UNCHANGED files
        BY <2>2, <3>1
      <3>2. CASE ~ UNCHANGED files
        <4>1. PICK p \in [folder : {myStoragePath, "absolute"}, name : {"dump"}, stamp : Nat] :
                /\ DOMAIN files' = DOMAIN files \cup {p}
                /\ \A q \in DOMAIN files : q # p => files'[q] = files[q]
          BY <2>3, <3>2 DEF Grows
        <4>2. NamedPath(Geometry) # p
          BY DEF NamedPath, Geometry
        <4> QED
          BY <2>2, <4>1, <4>2
      <3> QED
        BY <3>1, <3>2
    <2>5. Content({iData})' = Content({iData}) /\ NamedPath(Geometry)' = NamedPath(Geometry)
      BY <2>1 DEF Content, Kept, NamedPath
    <2> QED
      BY <2>2, <2>4, <2>5
  <1>3. CASE UNCHANGED vars \/ NextData
    <2>1. UNCHANGED <<iData, data, config, phase, files>>
      <3>1. CASE NextData
        BY <3>1 DEF NextData, dataVars, storageVars
      <3> QED
        BY <1>3, <3>1 DEF vars, controllerVars, dataVars, storageVars
    <2> QED
      BY <2>1 DEF GeometryInv, HasWriter, Content, Kept, NamedPath
  <1>4. CASE Work
    BY <1>4, Working
  <1>5. CASE Read \/ InstallHandler \/ Assign \/ SetInput
    BY <1>5 DEF Read, InstallHandler, Assign, SetInput
  <1>6. CASE ProcessThrows
    BY <1>6 DEF ProcessThrows
  <1> QED
    BY <1>1, <1>2, <1>3, <1>4, <1>5, <1>6, OtherSteps

\* Only processors after the first three ask for what these produce.
LEMMA FoundStep == TypeOK /\ PropertiesInv /\ PropertiesFound /\ [Next]_vars => PropertiesFound'
  <1> SUFFICES ASSUME TypeOK, PropertiesInv, PropertiesFound, [Next]_vars PROVE PropertiesFound'
    OBVIOUS
  <1>1. CASE ProcessThrows
    <2>1. phase = "process" /\ i \in 1 .. size
      BY <1>1 DEF ProcessThrows, TypeOK
    <2>2. RequiredProperties(ClassOf(i)) \subseteq data.properties
      <3>1. CASE i \in {1, 2, 3}
        <4>1. ClassOf(i) \in {"GeometryShapeChecker", "GeometryPropertyBuilder", "BoundBoxBuilder"}
          BY <3>1, Processors DEF TypeOK, Configurations
        <4> QED
          BY <4>1 DEF RequiredProperties, Coupled
      <3>2. CASE i > 3
        BY <2>1, <3>2 DEF RequiredProperties, PropertiesInv, Past
      <3>3. size \in 3 .. 6
        BY Processors DEF TypeOK, Configurations
      <3>4. i \in {1, 2, 3} \/ i > 3
        BY <2>1, <3>3
      <3> QED
        BY <3>1, <3>2, <3>4
    <2> QED
      BY <1>1, <2>2 DEF ProcessThrows, PropertiesFound
  <1>2. CASE Work
    BY <1>2, Working DEF PropertiesFound
  <1>3. CASE Read \/ InstallHandler \/ Assign \/ SetInput \/ Write \/ NextData \/ Interrupt
    BY <1>3 DEF PropertiesFound, Read, InstallHandler, Assign, SetInput, Write, NextData, Interrupt
  <1>4. CASE UNCHANGED vars
    BY <1>4 DEF PropertiesFound, vars, controllerVars
  <1> QED
    BY <1>1, <1>2, <1>3, <1>4, OtherSteps

LEMMA DumpStep == TypeOK /\ StorageInv /\ InputInv /\ WorkIsDumped /\ [Next]_vars => WorkIsDumped'
  <1> SUFFICES ASSUME TypeOK, StorageInv, InputInv, WorkIsDumped, [Next]_vars PROVE WorkIsDumped'
    OBVIOUS
  <1>1. CASE Interrupt
    <2> SUFFICES ASSUME phase \in {"process", "write", "written"} PROVE WorkIsDumped'
      BY <1>1 DEF Interrupt, WorkIsDumped
    <2>1. myCurrentProcessor = i /\ i # 0 /\ myInputData[i] = iData /\ iData # 0
      BY Processors DEF InputInv, TypeOK, Configurations
    <2>2. outcome' = "interrupted" /\ Save("dump", Content({iData}))
      BY <1>1, <2>1 DEF Interrupt
    <2>3. now \in Nat /\ myStoragePath \in Stems /\ "dump" \notin Absolute
      BY DEF TypeOK, AbsoluteFiles, Metadata, Geometry
    <2>4. PICK p \in [folder : {myStoragePath, "absolute"}, name : {"dump"}, stamp : Nat] :
            /\ p.folder = "absolute" => "dump" \in Absolute
            /\ DOMAIN files' = DOMAIN files \cup {p} /\ files'[p] = Content({iData})
      <3>1. PICK c : c = Content({iData})
        OBVIOUS
      <3>2. Save("dump", c)
        BY <2>2, <3>1
      <3>3. \E p \in [folder : {myStoragePath, "absolute"}, name : {"dump"}, stamp : Nat] :
              /\ p.folder = "absolute" => "dump" \in Absolute
              /\ DOMAIN files' = DOMAIN files \cup {p} /\ files'[p] = c
        BY <2>3, <3>2, Saving, SMTT(60)
      <3> QED
        BY <3>1, <3>3
    <2>5. p.name = "dump" /\ p.folder = readers[iData]
      BY <2>3, <2>4 DEF StorageInv
    <2>6. p \in DOMAIN files' /\ files'[p].of = {iData}
      BY <2>4 DEF Content
    <2>7. readers' = readers /\ UNCHANGED iData
      BY <1>1, SameConfig DEF Interrupt
    <2> QED
      BY <2>2, <2>5, <2>6, <2>7 DEF WorkIsDumped
  <1>2. CASE Work
    BY <1>2, WorkRuns DEF WorkIsDumped
  <1>3. CASE outcome = "running" /\ (Read \/ InstallHandler \/ Assign \/ SetInput \/ ProcessThrows
                                  \/ Write \/ NextData)
    <2>1. outcome' \notin {"crashed", "interrupted"}
      BY <1>3 DEF Read, InstallHandler, Assign, SetInput, ProcessThrows, Write, NextData
    <2> QED
      BY <2>1 DEF WorkIsDumped
  <1>4. CASE UNCHANGED vars
    <2>1. readers' = readers /\ UNCHANGED <<phase, outcome, iData, files>>
      BY <1>4, SameConfig DEF vars, controllerVars, storageVars
    <2> QED
      BY <2>1 DEF WorkIsDumped
  <1> QED
    BY <1>1, <1>2, <1>3, <1>4, OtherSteps

LEMMA StepIInv == IInv /\ [Next]_vars => IInv'
  BY TypeStep, StorageStep, StampStep, InputStep, PropertiesStep, ImprintedStep, MetadataStep, GeometryStep,
     FoundStep, DumpStep DEF IInv
-----------------------------------------------------------------------------
(* The theorems *)

\* The inductive invariant holds of every state, wherever an interrupt comes.
THEOREM Invariance == Spec => []IInv
<1>1. QED
  BY InitIInv, StepIInv, PTL DEF Spec, SafeSpec

\* Every variable keeps its type: processors and data sets in progress are in their
\* lists, and what is written has a name and a content of the program.
THEOREM TypeCorrect == Spec => []TypeOK
<1>1. IInv => TypeOK
  BY DEF IInv
<1>2. QED
  BY <1>1, Invariance, PTL

\* No processor of any action misses a property of the data set (PropertyContainer::get
\* in prepareInput() never throws).
THEOREM NothingMissing == Spec => []PropertiesFound
<1>1. IInv => PropertiesFound
  BY DEF IInv
<1>2. QED
  BY <1>1, Invariance, PTL

\* What an interrupt of a processor or of the writer leaves is the data set in progress,
\* in its own folder.
THEOREM InterruptDumps == Spec => []WorkIsDumped
<1>1. IInv => WorkIsDumped
  BY DEF IInv
<1>2. QED
  BY <1>1, Invariance, PTL

\* The last version of the metadata file is of the items and shapes of the geometry that
\* is written.
THEOREM MetadataMatches == Spec => []MetadataForGeometry
<1>1. ASSUME IInv, phase = "written", HasWriter(config.action)
      PROVE  \E p \in DOMAIN files : Latest(Metadata, p) /\ files[p] = files[NamedPath(Geometry)]
  <2>1. Described
    BY <1>1 DEF IInv, MetadataInv, Past, HasWriter
  <2>2. files[NamedPath(Geometry)] = Content({iData})
    BY <1>1 DEF IInv, GeometryInv
  <2>3. QED
    BY <2>1, <2>2 DEF Described
<1>2. IInv => MetadataForGeometry
  BY <1>1 DEF MetadataForGeometry
<1>3. QED
  BY <1>2, Invariance, PTL

\* The geometry is of the data set in progress, imprinted if that was asked for and
\* there is more than one thread.
THEOREM GeometryMatches == Spec => []GeometryOfAction
<1>1. ASSUME IInv, phase = "written", HasWriter(config.action)
      PROVE  /\ files[NamedPath(Geometry)].of = {iData}
             /\ files[NamedPath(Geometry)].imprinted
                  <=> config.action = "imprint" /\ config.threadsOnNode > 1
  <2>1. files[NamedPath(Geometry)] = Content({iData})
    BY <1>1 DEF IInv, GeometryInv
  <2>2. data.imprinted <=> config.action = "imprint" /\ config.threadsOnNode # 1
    BY <1>1 DEF IInv, ImprintedInv, Past
  <2>3. config.threadsOnNode > 1 <=> config.threadsOnNode # 1
    BY <1>1 DEF IInv, TypeOK, Configurations
  <2>4. files[NamedPath(Geometry)].of = {iData} /\ files[NamedPath(Geometry)].imprinted = data.imprinted
    BY <2>1 DEF Content
  <2>5. QED
    BY <2>2, <2>3, <2>4
<1>2. IInv => GeometryOfAction
  BY <1>1 DEF GeometryOfAction
<1>3. QED
  BY <1>2, Invariance, PTL

\* The results of a data set that is over stay, unless its folder is used again.
THEOREM ResultsStay == Spec => FolderKept
<1>1. ASSUME IInv, [Next]_vars, NEW k \in 1 .. iData - 1,
             \A later \in k + 1 .. Len(readers) : readers[later] # readers[k],
             NEW p \in DOMAIN files, p.folder = readers[k]
      PROVE  p \in DOMAIN files' /\ files'[p] = files[p]
  <2>1. /\ TypeOK /\ iData \in k + 1 .. Len(readers) /\ k \in 1 .. Len(readers)
        /\ readers[iData] \in Stems /\ readers[k] \in Stems
    BY <1>1, ReaderOf DEF IInv, TypeOK
  <2>2. readers[iData] # readers[k] /\ readers[k] # "absolute"
    BY <1>1, <2>1
  <2>3. CASE Read
    <3>1. setStoragePath(readers[iData])
      BY <2>3 DEF Read, generateStoragePath
    <3>2. QED
      BY <1>1, <2>2, <3>1 DEF setStoragePath
  <2>4. CASE Interrupt /\ outcome = "running"
    <3>1. Grows({"dump"}) /\ p.name # "dump"
      BY <1>1, <2>1, <2>4, FilesGrow DEF IInv, StorageInv
    <3>2. CASE ~ UNCHANGED files
      <4>1. PICK q \in [folder : {myStoragePath, "absolute"}, name : {"dump"}, stamp : Nat] :
              /\ DOMAIN files' = DOMAIN files \cup {q}
              /\ \A r \in DOMAIN files : r # q => files'[r] = files[r]
        BY <3>1, <3>2 DEF Grows
      <4>2. p # q
        BY <3>1
      <4>3. QED
        BY <4>1, <4>2
    <3>3. QED
      BY <3>2
  <2>5. CASE Work \/ Write
    <3>1. phase # "read"
      BY <2>1, <2>5, Working DEF Write
    <3>2. myStoragePath = readers[iData]
      BY <1>1, <3>1 DEF IInv, StorageInv
    <3>3. \E names : Grows(names)
      BY <1>1, <2>1, <2>5, FilesGrow
    <3>4. CASE ~ UNCHANGED files
      <4>1. PICK names : Grows(names)
        BY <3>3
      <4>2. PICK q \in [folder : {myStoragePath, "absolute"}, name : names, stamp : Nat] :
              /\ DOMAIN files' = DOMAIN files \cup {q}
              /\ \A r \in DOMAIN files : r # q => files'[r] = files[r]
        BY <3>4, <4>1 DEF Grows
      <4>3. q.folder \in {readers[iData], "absolute"}
        BY <3>2, <4>2
      <4>4. p # q
        BY <1>1, <2>2, <4>3
      <4>5. QED
        BY <4>2, <4>4
    <3>5. QED
      BY <3>4
  <2>6. CASE ~ Read /\ ~ Interrupt /\ ~ Work /\ ~ Write
    <3>1. UNCHANGED files
      BY <1>1, <2>6, OtherSteps
         DEF InstallHandler, Assign, SetInput, ProcessThrows, NextData, vars, storageVars
    <3>2. QED
      BY <3>1
  <2>7. Interrupt => outcome = "running" \/ UNCHANGED files
    BY <1>1, OtherSteps, Working, WorkRuns, <2>1 DEF vars, storageVars
  <2>8. QED
    BY <2>3, <2>4, <2>5, <2>6, <2>7
<1>2. IInv /\ [Next]_vars =>
        [\A k \in 1 .. iData - 1 :
           (\A later \in k + 1 .. Len(readers) : readers[later] # readers[k]) =>
             \A p \in DOMAIN files :
               p.folder = readers[k] => p \in DOMAIN files' /\ files'[p] = files[p]]_vars
  BY <1>1
<1>3. QED
  BY <1>2, Invariance, PTL DEF Spec, SafeSpec, FolderKept
=============================================================================
