------------------------------- MODULE Pipeline -------------------------------
(***************************************************************************)
(* PipelineController: for every reader, read a data set, send it through  *)
(* the processors, which are built once, and give it to the writer.  The   *)
(* main thread alone moves; an interrupt may come between any two steps.   *)
(* A content is what it describes: data sets, items kept, geometry.        *)
(***************************************************************************)
EXTENDS GeomPipeline, DataStorage, FiniteSets

CONSTANTS ItemCount, MaxReaders, MaxThreads

ASSUME PipelineAssumption ==
  /\ ItemCount \in Nat /\ MaxReaders \in Nat \ {0} /\ MaxThreads \in Nat \ {0}
  /\ AbsoluteFiles = Absolute

Items == 0 .. ItemCount - 1

VARIABLES config,              \* action, threadsOnNode, readers; and the shapes
          phase,               \* where the main thread is
          outcome,             \* "running" or how the program ended
          iData,               \* reader in progress
          i,                   \* processor in progress
          myCurrentProcessor,  \* what the handler dumps, 0 is the null pointer
          myInputData,         \* per processor: its data set and information, 0 for none
          data,                \* the data set: properties, suppressed, imprinted
          rows                 \* data sets with a relation in myCollisionInfos

controllerVars == <<config, phase, outcome, iData, i, myCurrentProcessor, myInputData>>
dataVars       == <<data, rows>>
vars           == <<controllerVars, dataVars, storageVars>>

processors == processorsOf(config.action)
readers    == config.readers

\* build(): a processor that createProcessor() cannot make is skipped, the
\* configuration is not.  So the k-th of myProcessors is the k-th of the
\* positions in the configuration that a processor was created from.
createProcessor(p) == p.className \in Registered
created            == {j \in DOMAIN processors : createProcessor(processors[j])}
size               == Cardinality(created)   \* myProcessors.size()
Position(k)        == CHOOSE j \in created : Cardinality({l \in created : l <= j}) = k
ClassOf(k)         == processors[Position(k)].className
ConfigOf(k)        == processors[k]          \* myConfig["processors"][i]

setupParallelism(asked, hardware) == IF asked < 1 \/ asked > hardware THEN hardware ELSE asked

\* Mutant: the main thread is counted as a worker.
serialModeNone == config.threadsOnNode < 1

serialMode == config.threadsOnNode = 1

Coupled == {"CollisionDetector", "GeometryImprinter"}

\* Properties a processor gets in prepareInput() or it throws, and those it
\* puts into the data in prepareOutput().
RequiredProperties(class) ==
  IF class \in Coupled \cup {"GeometrySearchBuilder"}
    THEN {"myShapeBoundBoxes", "myGeometryProperties"}
    ELSE {}

\* Mutant: the bound boxes are put under another name.
ProducedPropertiesRenamed(class) ==
  IF class = "BoundBoxBuilder" THEN {"myBoundBoxes"}
  ELSE IF class = "GeometryPropertyBuilder" THEN {"myGeometryProperties"} ELSE {}

ProducedProperties(class) ==
  CASE class = "GeometryPropertyBuilder" -> {"myGeometryProperties"}
    [] class = "BoundBoxBuilder"         -> {"myShapeBoundBoxes"}
    [] class \in Coupled                  -> {"myAdjacencyMatrix"}
    [] class = "GeometrySearchBuilder"   -> {"myMatchedResults"}
    [] OTHER                             -> {}

Kept == Items \ data.suppressed
Content(sets) == [of |-> sets, items |-> Kept, imprinted |-> data.imprinted]

\* What the results can be.
Paths    == [folder : Stems \cup {"absolute"},
             name   : {Metadata, Geometry, "shape_check_result", "myCollisionInfos", "dump"},
             stamp  : Nat]
Contents == [of : SUBSET (0 .. Len(readers)), items : SUBSET Items, imprinted : BOOLEAN]

Configurations ==
  [action        : Actions,
   threadsOnNode : Nat \ {0},
   readers       : UNION {[1 .. n -> Stems] : n \in 1 .. MaxReaders},
   tooSmall      : [BOOLEAN -> SUBSET Items]]

TypeOK ==
  /\ config \in Configurations
  /\ phase \in {"read", "install", "assign", "input", "process", "write", "written"}
  /\ outcome \in {"running", "finished", "missing", "thrown", "killed", "crashed", "interrupted"}
  /\ iData \in 1 .. Len(readers)
  /\ i \in 1 .. size
  /\ myCurrentProcessor \in 0 .. size
  /\ myInputData \in [1 .. size -> 0 .. Len(readers)]
  /\ data \in [properties : SUBSET {"myGeometryProperties", "myShapeBoundBoxes",
                                   "myAdjacencyMatrix", "myMatchedResults"},
               suppressed : SUBSET Items,
               imprinted  : BOOLEAN]
  /\ rows \subseteq 1 .. Len(readers)
  /\ DOMAIN files \subseteq Paths /\ \A p \in DOMAIN files : files[p] \in Contents
  /\ myStoragePath \in Stems
  /\ now \in Nat

\* Files of an earlier run: its geometry and metadata, described as data set 0.
OfEarlierRun == [of |-> {0}, items |-> Items, imprinted |-> FALSE]
NamedPath(name) == [folder |-> "absolute", name |-> name, stamp |-> 0]

\* tooSmall: the items below the volume threshold as they were read, and
\* after imprinting (which cuts pieces off, never adds).
Init ==
  /\ config \in [action : Actions,
                 threadsOnNode : {setupParallelism(asked, hardware) :
                                    asked \in 0 .. MaxThreads, hardware \in 1 .. MaxThreads},
                 readers : UNION {[1 .. n -> Stems] : n \in 1 .. MaxReaders},
                 tooSmall : {small \in [BOOLEAN -> SUBSET Items] : small[FALSE] \subseteq small[TRUE]}]
  /\ phase = "read" /\ outcome = "running"
  /\ iData = 1 /\ i = 1
  /\ myCurrentProcessor = 0
  /\ myInputData = [k \in 1 .. size |-> 0]
  /\ data = [properties |-> {}, suppressed |-> {}, imprinted |-> FALSE]
  /\ rows = {}
  /\ files \in {<<>>, [p \in {NamedPath(Metadata), NamedPath(Geometry)} |-> OfEarlierRun]}
  /\ myStoragePath = readers[1]
  /\ now = 1

-------------------------------------------------------------------------------

\* computeAll(), head of the loop: the folder of the input, then the reader,
\* a new data set and a new information container.
Read ==
  /\ phase = "read"
  /\ setStoragePath(generateStoragePath(readers[iData]))
  /\ data' = [properties |-> {}, suppressed |-> {}, imprinted |-> FALSE]
  /\ phase' = "install"
  /\ UNCHANGED <<config, outcome, iData, i, myCurrentProcessor, myInputData, rows>>

\* compute(): callback_wrapper, sigaction, and the thread pool.
InstallHandler ==
  /\ phase = "install"
  /\ phase' = "assign"
  /\ i' = 1
  /\ UNCHANGED <<config, outcome, iData, myCurrentProcessor, myInputData, dataVars, storageVars>>

\* compute(): myCurrentProcessor = myProcessors[i]
Assign ==
  /\ phase = "assign"
  /\ myCurrentProcessor' = i
  /\ phase' = "input"
  /\ UNCHANGED <<config, outcome, iData, i, myInputData, dataVars, storageVars>>

\* Mutant: a processor that has an input keeps it.
InputOfFirst(k) == IF myInputData[k] # 0 THEN myInputData[k] ELSE IF k = 1 THEN iData ELSE myInputData[k - 1]

\* The data and the information of the predecessor, which hands its input on.
InputOf(k) == IF k = 1 THEN iData ELSE myInputData[k - 1]

\* compute(): setConfig, setInputData, setInputInformation, setOperator
SetInput ==
  /\ phase = "input"
  /\ myInputData' = [myInputData EXCEPT ![i] = InputOf(i)]
  /\ phase' = "process"
  /\ UNCHANGED <<config, outcome, iData, i, myCurrentProcessor, dataVars, storageVars>>

\* Mutant: the last processor is run again.
NextProcessorLast(k) == IF k < size THEN k + 1 ELSE k

\* The loop goes on with this processor, or ends.
NextProcessor(k) == IF k < size THEN k + 1 ELSE 0

\* Executor::process() of processor i is over, without an exception.
Processed ==
  /\ phase = "process"
  /\ RequiredProperties(ClassOf(i)) \subseteq data.properties
  /\ IF NextProcessor(i) = 0
       THEN phase' = "write" /\ i' = i
       ELSE phase' = "assign" /\ i' = NextProcessor(i)
  /\ UNCHANGED <<config, outcome, iData, myCurrentProcessor, myInputData>>

\* The data after prepareOutput() of processor i, with these items suppressed.
Output(suppressed, imprinted) ==
  [properties |-> data.properties \cup ProducedProperties(ClassOf(i)),
   suppressed |-> data.suppressed \cup suppressed,
   imprinted  |-> imprinted]

\* Without checkingBooleanOperation nothing is reported nor suppressed.
CheckShapes ==
  /\ ClassOf(i) = "GeometryShapeChecker"
  /\ Processed
  /\ \E failing \in IF ConfigOf(i).checking THEN SUBSET Kept ELSE {{}} :
        /\ \E suppressed \in {{}, failing} : data' = Output(suppressed, data.imprinted)
        /\ IF failing = {} THEN UNCHANGED storageVars ELSE Save("shape_check_result", Content({iData}))
  /\ UNCHANGED rows

\* Small items are suppressed by processItem, prepareOutput then writes the
\* metadata of the others if the configuration names a file.
BuildProperties ==
  /\ ClassOf(i) = "GeometryPropertyBuilder"
  /\ Processed
  /\ data' = Output(config.tooSmall[data.imprinted], data.imprinted)
  /\ IF ConfigOf(i).output = Metadata
       THEN Save(Metadata, [Content({iData}) EXCEPT !.items = Items \ data'.suppressed])
       ELSE UNCHANGED storageVars
  /\ UNCHANGED rows

BuildBoundBoxes ==
  /\ ClassOf(i) = "BoundBoxBuilder"
  /\ Processed
  /\ data' = Output({}, data.imprinted)
  /\ UNCHANGED <<rows, storageVars>>

\* The coupled pairs are only processed by the ThreadPoolExecutor; rows of
\* an earlier data set are still there, as resize() appends.  prepareOutput()
\* writes the rows and suppresses by them.
ProcessPairs ==
  /\ ClassOf(i) \in Coupled
  /\ Processed
  /\ rows' = IF serialMode THEN rows ELSE rows \cup {iData}
  /\ \E suppressed \in IF rows' = {} THEN {{}} ELSE SUBSET Kept :
        data' = Output(suppressed, data.imprinted \/ (~serialMode /\ ClassOf(i) = "GeometryImprinter"))
  /\ Save("myCollisionInfos", [Content(rows') EXCEPT !.items = Items])

\* suppressMatched is set: what matches is suppressed by writeResult().
Search ==
  /\ ClassOf(i) = "GeometrySearchBuilder"
  /\ Processed
  /\ \E matched \in SUBSET Items : data' = Output(matched, data.imprinted)
  /\ UNCHANGED <<rows, storageVars>>

\* PropertyContainer::get in prepareInput() or a pair on a worker throws: the
\* exception leaves Executor::process(), and nobody catches it.
ProcessThrows ==
  /\ phase = "process"
  /\ outcome' \in IF ~ RequiredProperties(ClassOf(i)) \subseteq data.properties THEN {"missing"}
                  ELSE IF ClassOf(i) \in Coupled /\ ~serialMode THEN {"thrown"}
                  ELSE {}
  /\ UNCHANGED <<config, phase, iData, i, myCurrentProcessor, myInputData, dataVars, storageVars>>

\* The writer exports to the absolute path it is given, over what is there.
Write ==
  /\ phase = "write"
  /\ IF HasWriter(config.action)
       THEN /\ files' = Overwritten(getFullPath(Geometry, 0), Content({iData}))
            /\ UNCHANGED <<myStoragePath, now>>
       ELSE UNCHANGED storageVars
  /\ phase' = "written"
  /\ UNCHANGED <<config, outcome, iData, i, myCurrentProcessor, myInputData, dataVars>>

\* computeAll(), end of the loop body.
NextData ==
  /\ phase = "written"
  /\ IF iData < Len(readers)
       THEN iData' = iData + 1 /\ phase' = "read" /\ UNCHANGED outcome
       ELSE outcome' = "finished" /\ UNCHANGED <<iData, phase>>
  /\ UNCHANGED <<config, i, myCurrentProcessor, myInputData, dataVars, storageVars>>

\* SIGINT: handleSignal() dumps the information of myCurrentProcessor and
\* exits.  The information of a processor without input is a null pointer.
Interrupt ==
  /\ IF iData = 1 /\ phase \in {"read", "install"}
       THEN outcome' = "killed" /\ UNCHANGED storageVars
     ELSE IF myCurrentProcessor = 0 \/ myInputData[myCurrentProcessor] = 0
       THEN outcome' = "crashed" /\ UNCHANGED storageVars
     ELSE /\ outcome' = "interrupted"
          /\ Save("dump", Content({myInputData[myCurrentProcessor]}))
  /\ UNCHANGED <<config, phase, iData, i, myCurrentProcessor, myInputData, dataVars>>

Step ==
  \/ Read \/ InstallHandler \/ Assign \/ SetInput
  \/ CheckShapes \/ BuildProperties \/ BuildBoundBoxes \/ ProcessPairs \/ Search
  \/ ProcessThrows \/ Write \/ NextData

Ended == outcome # "running" /\ UNCHANGED vars

Next ==
  \/ outcome = "running" /\ (Step \/ Interrupt)
  \/ Ended

SafeSpec == Init /\ [][Next]_vars

\* The main thread goes on as long as the program runs.
Spec == SafeSpec /\ WF_vars(outcome = "running" /\ Step)

-------------------------------------------------------------------------------

\* Whatever the action, no processor misses a property that an earlier one
\* was to put into the data set (prepareInput after emplace, by name).
PropertiesFound == outcome # "missing"

\* The last version of a file, by the timestamps in the names.
Latest(name, p) ==
  /\ p \in DOMAIN files /\ p.name = name
  /\ \A q \in DOMAIN files : q.name = name => q.stamp <= p.stamp

\* The last version of the metadata file has just the items of the geometry that is
\* written and is of the same data set and the same stage: the property builder with
\* that file ran after everything that suppresses items or changes shapes.  The file
\* with the plain name may be an older version, see MetadataRoundTrip of GeometryRoundTrip.
MetadataForGeometry ==
  phase = "written" /\ HasWriter(config.action) =>
    \E p \in DOMAIN files : Latest(Metadata, p) /\ files[p] = files[NamedPath(Geometry)]

\* imprint writes an imprinted geometry unless it has one thread, for which
\* the coupled operation is skipped; the other actions write it as it was.
GeometryOfAction ==
  phase = "written" /\ HasWriter(config.action) =>
    /\ files[NamedPath(Geometry)].of = {iData}
    /\ files[NamedPath(Geometry)].imprinted <=> config.action = "imprint" /\ config.threadsOnNode > 1

\* An interrupt while a processor works leaves a dump of the information of
\* the data set in progress, in its own folder.  (Earlier in compute() the handler
\* may crash on a null pointer, see Interrupt.)
WorkIsDumped ==
  phase \in {"process", "write", "written"} =>
    /\ outcome # "crashed"
    /\ outcome = "interrupted" =>
         \E p \in DOMAIN files : p.name = "dump" /\ p.folder = readers[iData] /\ files[p].of = {iData}

\* Results of a finished data set stay as they are, unless a later input has
\* the same file name stem.
FolderKept ==
  [][\A k \in 1 .. iData - 1 :
       (\A later \in k + 1 .. Len(readers) : readers[later] # readers[k]) =>
         \A p \in DOMAIN files :
           p.folder = readers[k] => p \in DOMAIN files' /\ files'[p] = files[p]]_vars

\* The program ends, whatever it meets.
EventuallyEnds == <>(outcome # "running")

\* geomPipeline.py: there may be several readers in the list.  The relations
\* written for a data set are then of its own items.
RowsOfThisDataSet ==
  phase = "written" =>
    \A p \in DOMAIN files :
      p.name = "myCollisionInfos" /\ p.folder = readers[iData] => files[p].of \subseteq {iData}
===============================================================================
