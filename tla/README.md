# A TLA+ development of parallel-preprocessor

parallel-preprocessor (PPP) prepares large CAD assemblies for simulation. A JSON
configuration names a reader, a list of processors and a writer; the pipeline controller
runs them one after the other on every data set, and inside one processor the items of
the assembly, or the pairs of items that are near each other, are worked on by a pool of
threads. The modules here model the parts of the program in which order, sharing or failure
decide whether the result is right: the pipeline and where its results go, how work on
coupled items is scheduled and how its progress is told, the two rounds in which collisions between
parts are found and resolved, and the way of solids and their metadata from a file through a session
to the next one.

Paths below are relative to `src/`.

## 1. The system

### Parts, their state and their operations

| Part | Source | State | Operations |
|---|---|---|---|
| Pipeline controller | `src/PPP/PipelineController.*` | list of processors, current processor, configuration | `build`, `computeAll`, `compute`, `handleSignal` |
| Context, data storage | `src/PPP/Context.*`, `DataStorage.h` | executor kind, worker count, result folder | `setupParallelism`, `setupDataStorage`, `setStoragePath` |
| Executors | `src/PPP/Executor.h`, `ThreadPoolExecutor.h` | thread pool, worker count, the processor | `process`, `runParallelInBlock`, `runParallelOnPartitionedData`, `runParallelOnCoupledData`, `runAsynchronouslyOnCoupledData` |
| Parallel accessor | `src/PPP/ParallelAccessor.h` | indexers remaining, items locked, previous batches | `setCouplingMatrix`, `next`, `nextAll`, `isLocked`, `lockItem`, `unlock`, `unlockAll` |
| Asynchronous dispatcher | `src/PPP/AsynchronousDispatcher.h` | the accessor's, a queue of locked indexers, a mutex | `next`, `produce`, `consume` |
| Processor, processor template | `src/PPP/Processor.h`, `ProcessorTemplate.h` | input and output data, `myResultData`, configuration | `prepareInput`, `processItem`, `processItemPair`, `prepareOutput`, `report`, `dump` |
| Coupling matrix | `src/PPP/SparseMatrix.h`, `CouplingMatrixBuilder.h` | rows of (column, value) | `resize`, `insertAt`, `hasElement`, `getElement`; the builder's double loop |
| Property container | `src/PropertyContainer/PropertyContainer.*` | name → typed shared pointer | `set`, `emplace`, `get`, `extract`, `contains` |
| Progress reporting | `src/PPP/Progressor.h`, `src/python/pppMonitorProgress.py` | steps reported last, lines of the log that were read, the bar | `remain`, `finish`; `get_lines`, `parse`, `monitor` |
| Geometry reader, writer | `src/Geom/GeometryReader.h`, `GeometryWriter.h` | an XCAF document, solids, names, materials and colours by hash code, the folder of the FreeCAD parser | `read`, `readManifestFile`, `loadXCAFDoc`, `readFreeCADFile`, `readBrep`, `registerShape`, `moveShapeIntoPropertyContainer`; `exportGeometry` |
| Builders and checkers | `src/Geom/GeometryPropertyBuilder.h`, `BoundBoxBuilder.h`, `GeometryShapeChecker.h` | a vector with a slot for each item | `processItem` |
| Collision detector | `src/Geom/CollisionDetector.*` | `myCollisionInfos`, adjacency matrix, suppressed items | `processItemPair`, `detectCollision`, `processCollisionInfo`, `checkCollisionResolution` |
| Geometry imprinter | `src/Geom/GeometryImprinter.h` | the detector's, and the shapes | `processItemPair`, `setItem` |
| Geometry search | `src/Geom/GeometrySearchBuilder.h` | a `std::vector<bool>` for each filter | `processItem` |
| Shape identifier | `src/PPP/UniqueId.h` | a 64-bit number | `double2uint16`, `uniqueId`, `geometryUniqueId`, `nearbyIds` |
| Python front end | `src/python/*.py` | configuration dictionaries | builds the JSON, starts the program, follows its log |

### How they interact

- The controller hands the output data and information container of one processor to the
  next by shared pointer, asks it to `prepareInput()`, and gives it to the executor.
- The executor asks the processor for its characteristics and its coupling matrix, and
  calls `processItem(i)` or `processItemPair(i, j)` from the threads of its pool; it calls
  `prepareOutput()` from the main thread when the pool has joined.
- Pairs that share an item must not run together. In asynchronous mode every worker asks
  the one dispatcher for its next batch (`next()`, under a mutex), in synchronous mode the
  main thread asks the accessor for a batch per worker (`nextAll()`) between joins.
- The collision detector keeps the result of a pair in the rows of both items, without any
  lock of its own: it relies on the executor. Its `prepareOutput()` is serial, reads
  those rows and suppresses items; the imprinter rewrites shapes during the pair's turn.
- The reader keeps the solids and what is known of them under the hash codes of the shapes; everything
  downstream is by the index of an item, and the map of errors under those codes is written by the
  tasks of several processors in parallel.
- The writer leaves a geometry file, the property builder a metadata file. The reader of the next
  session joins the two by the identifier of each solid, a number made of its volume and centre.
- The progress of a round of pairs goes through the log to monitors in processes of their own.
- Open CASCADE (shape algorithms) and TBB (the thread pool) are libraries.

### What is hard

- *Interleaving.* Workers hold locks on items across calls of `next()`; the queue holds
  locks that no worker holds yet; an indexer is taken off the remaining ones one call after it was
  processed.
- *Leaving.* A worker that is handed nothing never asks again, although pairs may remain
  that are only blocked by others.
- *Failure.* A pair that throws ends its task with items locked and the rest of its batch not done;
  TBB cancels tasks that have not begun, the others go on.
- *Packed results.* `std::vector<bool>` puts results of different items in one word.
- *Retry.* `detectCollision` tries two tolerances; each attempt may throw, give a fuse with
  errors, be corrected, imprint, or end the loop; state of the first attempt is used in the second.
- *Order.* The second round decides item by item, in index order, and each
  suppression changes what the next item sees.
- *Reuse.* The processors are built once and run for each data set; the maps of the reader are filled from all files
  of a manifest; the folder of the FreeCAD parser is left from run to run.
- *Identity.* A hash code may be taken by another solid, an identifier is rounded and may be that of another solid, or
  change when a file or an imprint moves the geometry a little.
- *Lag.* A monitor reads the log some lines late, the next round writes to it, and `finalize()` removes it.

### What makes each part correct

| Part | Correct when |
|---|---|
| Executors | each operation exactly once; operations on a common item never overlap; `prepareOutput()` only on a complete result; an exception leaves `process()`; `process()` returns |
| Dispatcher | the locked items are exactly those of the pairs that somebody answers for; only the owner unlocks; what is no longer remaining is done; who leaves strands nothing |
| Synchronous rounds | rounds do not overlap and each accounts for all it took |
| Block split | every item in one block; a stored result stays stored where a worker shares no word with another |
| First collision round | rows mirror each other; adjacency and rows agree; no imprint is lost; a failure is recorded as one |
| Second collision round | no collision survives among what is kept; nothing is suppressed without a reason; one of a group of duplicates stays |
| Reader and round trip | every solid of every file that was read is an item; its metadata is what its own source says; what was kept comes back, with its own name and material if its identifier is in the metadata file |
| Progress | few lines; no bar is complete too early; no monitor outlives a run that was caught |
| Pipeline | no processor misses what an earlier one was to provide; the geometry that is written has the metadata that belongs to it; a data set's results and dumps are its own and stay |

## 2. The modules

```
ExecutorContract                    what process() promises
  ^ implemented by
  |-- AsynchronousDispatcher  = ParallelAccessor + TaskGroup + next()
  |-- SynchronousRounds       = ParallelAccessor + TaskGroup + nextAll()
  |-- ParallelInBlock         = TaskGroup + block or partition split + processItem
  v relied on by
CollisionDetection                  first round, any executor that keeps the contract
  v its rows are the input of
CollisionResolution                 second round

Pipeline = GeomPipeline (configurations) + DataStorage (files) + the controller

GeometryRoundTrip = GeometryReader (files to items) + UniqueId (packing)
                    + checker, property builder and writer, two sessions

Progress = Progressor, its calls from the accessor, the log, the monitors
```

**ExecutorContract** is the abstract specification. An operation is begun, then returns or
throws; `Begin` requires that no operation in progress, and none that failed, touches a common
item; the outcome is `"output"` only when all are done and `"rethrown"` only after a failure,
when nothing is in progress.

**ParallelAccessor** holds the constants (items, coupling matrix, batch size) and the
primitives that accessor and dispatcher share, as operators on the set of locked items.
`myRemainedItems` is an `unordered_set`, so `Scan` gives every set of indexers that the
greedy loop takes under some iteration order. That is what makes the model cover all hash
orders and library versions.

**TaskGroup** is the thread pool from its use, one task for each worker: submitted, started
when a thread is free, at `next`, in a batch, busy with an operation, and ended in one of three ways.
Begin and end of an operation are two steps, so operations of different workers overlap.
After a throw, tasks that were not started are skipped, the others go on.

**AsynchronousDispatcher** (`runAsynchronouslyOnCoupledData`): `next(w)` is the whole call
under the mutex: hand back the previous batch, refill the queue if it is empty, lock
what was put there, consume. The history variable `done` (in TaskGroup) is the only state that
the code lacks.

**SynchronousRounds** (`runParallelOnCoupledData`): `nextAll` is `unlockAll()` and one
`next()` per worker, by the main thread; `Wait` ends a round.

**ParallelInBlock** (`runParallelInBlock`, `runParallelOnPartitionedData`,
`ProcessorTemplate`): the initial states are all splits; `Load` and `Store` are the
read and the write of the machine word in which the result of an item lives, a word having `WordSize` results: 1 for result types
that are separate objects, 64 for the default `bool`. The history variable `range` is what each task was given.

**CollisionDetection**: for each pair `step` says where `processItemPair` is. `Begin` is
the bound box check and the copy of both shapes; `Fuse` and `FuseThrows` are one attempt of the
retry loop, with every outcome `calcCollisionType()` can have for a number of pieces; `Record` is
what follows the loop. A shape is the set of imprints made on it, which is enough to see a lost
one. The variables `running`, `done`, `failed`, `outcome` are the contract's, so what holds here
holds under any of the three schedules that keep it.

**CollisionResolution**: `processCollisionInfo(i)` for each item in turn and
`checkCollisionResolution` are the actions; the rows are a symmetric matrix of types, which
`RowsMirrored` of the first round justifies: a pair is in a row once at most, and in the other item's row with the same
type. That is checked and proved at every state, not only at the end. Nothing else is assumed of the rows or the volumes; geometry
would exclude some of these inputs (duplicates that are related to a third part in different ways), but the tolerances and retries of
the first round do not, and the one property that needs it says so (`Alike` in `OneDuplicateKept`).

**GeomPipeline** is the processor list that `geomPipeline.py` writes for each of its actions,
with the parameters that decide what is checked and written. `Original` is what a shallow
`copy.copy` and an assignment through the copy leave in the original: the check for boolean operations is off in
every action, and both property builders write the same metadata file.

**DataStorage** is the file system: contents by folder, name and timestamp, and a
clock of whole seconds. `dataStoragePath` gives an existing file a name with the second, and does not test that
name again.

**Pipeline** is the main thread of `computeAll()` and `compute()`. Its phases are the places between
which an interrupt makes a difference: the handler installed, `myCurrentProcessor` assigned, input set, the executor's
`process()`, the writer. A whole `process()` of a processor is one step, one action per class, because the
main thread only waits and the data of different data sets never overlap in time; what happens inside is
the subject of the other modules. Its effect is the set of outcomes they allow: `ProcessPairs` may suppress any items,
`ProcessThrows` ends the program, as nobody catches. `build()` skips a class it cannot make but `compute()`
goes on indexing the configuration (`ConfigOf`, whereas `Position` is where in it the k-th created processor comes from), which the `fix`, `decompose` and `tessellate` actions meet.
`processed_info.json` has no action: the stream is opened for reading and writing without creating the file
(`PipelineController.cpp:220`), so nothing is ever written.
Configurations with two readers are those of `geomPipeline.py` with a second reader and writer of the same classes
added; its own `multifile_mode` names classes without their namespace, and is off.

**UniqueId** has the rounding and packing of `UniqueId.h` on parameters: how many patterns a number has (`Width`, 2^16 in
the program), how many numbers, the mask, the threshold of zero and the pattern of infinity. A number *is* its bit
pattern, a sign bit above a magnitude that ends at infinity, which is what `half` stores; a
pattern of half precision grows with its value, and a factor (the scale of a unit) is nearly a shift of it. The packing is a
recursive function, `word[n]` being the last n numbers.

**GeometryReader** reads the entries of an input one by one. A file is data: the labels of a STEP document
(top-level or below, with the solids of the top-level ones), the objects that the FreeCAD parser writes, or the solids of a brep.
The loops of the code go over solids, objects and labels and change maps as they go. What is left at their end is said without
a loop: the calls of a loop are a set of values, each with its key and its place in the order (`Value`), and a map keeps
the earliest value of a key if it is filled by insertion (`insert`, for `registerShape`) or the latest if by assignment
(`assign`, for `extractXCAFMetadata` and the look-up table of `readBrep`). `Visits` is the recursion of `loadShapes` over labels, which is two
levels deep: a component that refers to another assembly has no labels below its own. `RecordOf` is the record of a brep solid, `Null` when
`gpMap[gid]` makes one. Hash codes are made of addresses, so `HashCode`
gives any two shapes of `collision` one code. A file that the library cannot read leaves an empty document, a FreeCAD file
that its parser cannot read leaves the `metadata.json` of an earlier one (`tempDir`), whatever cannot be recovered ends the run
(`"failed"`); so does an entry without a file name (`NoFileName`), which the code takes with an undefined access. The history variable
`unreadable` tells the properties which files were not read. `ReaderAssumption` says what a well-formed input is.

**GeometryRoundTrip** is a session, the writing of its results, and a session that reads them. Workers take the items of
a processor in any order (`todo`), as ParallelInBlock justifies; the collision detector is one step with the effect
that CollisionDetection and CollisionResolution leave (`ResolveCollisions`). `writeMetaData` is the rows of the items that are kept, with the
comma that may be missing and with the colour that is carried from row to row. `metadata` is the list of these files, in the order in which
the property builders wrote them: the first has the name that belongs to the geometry, where the front end looks for it
(`geomPipeline.py:147`), the later ones have a time in theirs. Session two is given the one or the other, or none
(`config.given`, `MetadataFile`). `Drifts` is how far writing, reading or an imprint may move a pattern, each solid by its own amount
(what becomes too large is infinite). A STEP document tells its unit and is scaled back when it is read (`ReadBack`), a brep
does not. In the second session `readBrep` looks each solid up by its identifier.

**Progress** is a run of several coupled rounds. `HandBack` is the critical section of `next()`
(or of `nextAll()`) as far as the progressor sees it; `EndRound` the destructor of the accessor, which also runs when an
exception passes and somebody catches it (`Fail`, `"caught"`), as a user of the Python module may; `Finalize` removes the log.
A monitor polls at any time, is closed at 100 percent or by its user; after the log was removed the exception
in its timer ends it or not, depending on the version of the Qt binding.

Modules whose names start with `MC` give constants values for TLC. Operators whose comment starts with
"Mutant:" are variants of the definition that follows them, with a plausible slip;
each property of a passing run is violated when one of them takes the place of the original
(`PROJECT.json` lists the pairs), so no property holds whatever the code does.

## 3. What is checked

| Run | Instance | Shows |
|---|---|---|
| `dispatcher` | 6 coupled pairs over 6 items, 4 workers, 3 threads, batches of 2, pairs that may throw | `LocksMatchOwners`, `RemainedCoversUnprocessed`, `LeaversStrandNothing`, `OnlyOwnerUnlocks`; the dispatcher implements the contract and returns |
| `rounds` | the same pairs, 3 workers, 2 threads | `RoundAccounted`, `RoundsNeverOverlap`; the rounds implement the contract and end |
| `block` | 4 items, 3 workers, 2 threads, words of 2 results, block split and all partitions | each split implements the contract; `OwnRangeKept`: no result is lost within a worker's range |
| `packed_results` | the same | violation: a result is lost in a word that two ranges share |
| `detection` | a chain of 4 items with 3 pairs, detector and imprinter, one item suppressed or none | `RowsMirrored`, `AdjacencyIsFaceContact`, `Imprinted`, `FailureRecorded`, `ImprintsAccumulate`; the round ends |
| `resolution` | 3 items, 6 types, 3 volume orders, all settings, any items suppressed before | `CollisionFree`, `OnlyForAReason`, `OneDuplicateKept`, `EnclosedRemoved` |
| `lone_duplicates` | 2 items | violation: both of two identical parts are suppressed |
| `pipeline` | 8 actions, 1 or 2 readers over 2 stems, 1 or 2 threads, 2 items, 2 seconds, with and without files of an earlier run | `PropertiesFound`, `MetadataForGeometry`, `GeometryOfAction`, `WorkIsDumped`, `FolderKept`; the program ends |
| `second_reader` | 2 readers, 1 item | violation: relations of the first data set are written for the second |
| `round_trip` | 8 inputs of one to three files, 2 numbers of 5 bits, hash collisions or none, an empty or a used parser folder, 5 configurations, either metadata file or none, a drift of 0 or 1 for each solid | `ReadableLoaded`, `OwnMetadata`, `FirstErrorKept`, `NoErrorInserted`; `KeptComeBack`, `RecognisedByIdentifier`, `ForeignOnlyIfNear` of what is read again |
| `imprinted_metadata` | the same | violation: the file with the geometry's name does not know a solid that imprinting moved |
| `progress` | 2 or 3 rounds of 2 to 11 pairs, batches of 2, a monitor for each round | `LinesAreFew`, `ClosedWhenComplete`; monitors close when a run is caught |

### Bounds and why they are enough

- *Dispatcher.* The coupling graph has pairs that share an item and pairs that do not, so some wait and
  some run together. Batches of two and more workers than pool threads give: batches partly
  processed, an empty queue with locks outstanding, workers that leave early, tasks that start after others have
  left, and tasks that never start. The theorems of section 4 then hold for every size.
- *Rounds.* As above; three workers and six pairs give at least two rounds.
- *Block.* Four items over three workers do not divide: one block is cut at the end, and the last
  worker has nothing. All partitions of four items over three workers are initial states. With words of two, two blocks
  share a word in some splits and none in others.
- *Detection.* In the chain 0-1-2-3 the outer pairs run together and the middle one conflicts with both:
  the smallest graph with both relations. `Fused` has every number of pieces the code tells apart (3 stands
  for more), with and without reported errors; both attempts (`LastAttempt` is `NB_RETRY - 1`) are taken.
- *Resolution.* The second round looks at an item, its partners and their counts; three items
  give rows of length 0, 1 and 2, groups of duplicates with a common neighbour and interference chains.
  Types whose codes fall in the same branches (`VertexContact`, `WeakInterference`) are never in a row.

- *Pipeline.* Two readers, with equal and with different stems, are enough for anything one data set leaves to another.
  Two seconds are enough for two versions of a file with the same and with different stamps; two items tell kept from suppressed.

- *Round trip.* Two numbers of five bits, with infinity at 12 of the 16 magnitudes, keep what the four of sixteen have: a sign, a threshold of zero, a mask
  that rounds up and down, a product that does not fit one number. The solids are one pair with one identifier, one with
  the same numbers in the other order, one too small and one with a negative coordinate. The
  inputs are every format alone and the mixes in which one file's metadata could reach another's solids; a drift of one
  pattern crosses a rounding boundary for some solids and not for others. The processors have the detector between two property builders,
  as `imprint` has.
- *Progress.* The constants of Progressor are scaled down (100 percent is 5 units of the last digit) such that one round
  has the higher frequency, one the lower and one is too short to be reported; with two rounds in each order
  a monitor meets lines of the next round that are below its bar.

### Fairness

Weak fairness of each task's steps: a thread of the pool goes on with the task it has, the
dispatcher's mutex is held for a bounded scan only, and an operation of Open CASCADE returns or
throws. Weak fairness of starting *some* submitted task: the pool never idles while a thread is
free, but promises nothing about which task comes first. Weak fairness of the main thread. No strong fairness
is assumed, and no worker is assumed to get a particular item. `EventuallyReturns` of
CollisionDetection needs that the executor begins what it can and returns, which is
`EventuallyReturns` of the scheduling modules. `EventuallyEnds` of Pipeline has weak fairness of
the main thread's step only; an interrupt is never forced. `CompletionSeen` of Progress has weak fairness of the program and of each
monitor's timer, which fires every two seconds; that its user closes a monitor is never assumed. GeometryRoundTrip
has no liveness property.

### Disagreements between the code and what it says

With a run that shows them:

1. `lone_duplicates`: "avoid removing twice!" (`CollisionDetector.cpp:743`), but two duplicates
   that touch nothing else are each removed in their own turn (`:721`).
2. `second_reader`: "it is possible to have multiple Reader instances" (`geomPipeline.py:198`), but the processors
   are shared by all data sets and `SparseMatrix::resize` appends (`SparseMatrix.h:43`), so a second
   data set is resolved with relations of the first.
3. `packed_results`: "process data item in parallel without affecting other data items" (`ProcessorTemplate.h:119`), but the
   default result type is `bool`, and the store of a result reads and writes a word of `std::vector<bool>` that other workers
   share (`:124`). What does hold is `OwnRangeKept`.
4. `imprinted_metadata`: `wiki/GetStarted.md:48` promises a `*_processed_metadata.json` for the geometry
   file; the property builder before imprinting, or an earlier run, has taken the name and the right content goes to a name with a
   timestamp (`geomPipeline.py:348`, `Processor.h:283-287`). A session that is started on the result reads the older one
   (`geomPipeline.py:147-150`), and a solid that imprinting moved over a rounding boundary comes back without name and material. What does
   hold is `MetadataForGeometry`, that the file with the *last* time is of the geometry, and `RecognisedByIdentifier` for either file.

Modelled as the code has them, without a run of their own:

- A distance that cannot be computed: the log says "regarding as CollisionType::Error" (`CollisionDetector.cpp:392-394`), but
  nothing is pushed to the rows and both callers drop the result (`calcClearance` of CollisionDetection). `FailureRecorded`
  is about the fuse only.
- "The smaller volume must only 1 relationship with other, so it should have been suppressed" (`CollisionDetector.cpp:749-750`), but
  an enclosed part with a second contact is left to the final check, which suppresses the part around it as well; `EnclosedRemoved` is
  about an enclosed part with no other relation.
- "The less total interference should be kept" (`CollisionDetector.cpp:756`), but an item with exactly one
  partner is suppressed without comparing counts (`:713`), so the index decides who goes.
- CompSolids: `GeometryReader.h:199` says "composolid and compoundshare, only for FreeCAD file reader", and `:404` hands them to that
  function, but it does nothing for them, and their solids are dropped without a word. One of the inputs has a CompSolid;
  `ReadableLoaded` says that its solids are *not* items.
- A manifest is "a list of dict (geometry file path + material name)" (`wiki/GetStarted.md:64`), but `readBrep`
  ignores the material of the entry (`GeometryReader.h:337`). One of the inputs has such an entry; `OwnMetadata` says that the material of
  a brep solid without a record is "unknown".
- The comma of a metadata file: "python json module does not accept comma without further data after it"
  (`GeometryPropertyBuilder.h:168`), but the comma is left out only after the last item, which has no row when
  it is suppressed (`parses` in `writeMetaData`). A session that is given such a file ends with an exception.
- "Generate a unique name by timestamp" (`Processor.h:279`), but the name has whole seconds and is not tested again: a third
  version within a second replaces the second one (`dataStoragePath`).
- dump() is useful when "interrupted by Ctrl-C signal" (`Processor.h:243`), but before the first processor is
  assigned, and before it has its information in the first data set, the handler finds a null pointer (`"crashed"` in `Interrupt`);
  `WorkIsDumped` begins where the processor works.
- "Set diff result path for each input file" (`PipelineController.cpp:193`), but the path is the stem of the file
  name and a folder that exists is removed (`DataStorage.h:42`); `FolderKept` leaves equal stems out.
- The shape check of the `check` action does not check anything (`geomPipeline.py:347` turns it off through a shallow copy);
  and where it is on, `suppressBOPCheckFailed` has no effect unless the faulty subshapes are saved too
  (`BOPSingleCheck` of GeometryRoundTrip).
- The report of a data set is never written (`PipelineController.cpp:220`).
- Solids are told apart by hash code only, one with a code that is taken is dropped (`GeometryReader.h:664`); the exit code of the FreeCAD
  parser is not looked at, so a file that it cannot read is replaced by what an earlier one left (`readFreeCADFile`). No
  document says otherwise, and the properties of the reader admit both.
- A solid without a colour or a material should have `null` in the metadata file (`GeometryPropertyBuilder.h:128`): the
  colour of the row before is written instead, and "unknown" for the material.
- STEP results have the suppressed items as well, without materials (`createDocument`); a brep result that is scaled to metres
  has other identifiers than its metadata, so its solids come back without name and material or with those of a solid
  whose numbers are like theirs (`ForeignOnlyIfNear` is about numbers in the unit of the file).
- The progress: 100.0 percent is shown when less than half a digit remains; a monitor of a later round may close
  at once on the last line of the round before; and a bar may pass over a completion when the first lines of the next
  round come before the next poll.

## 4. What is proved

Proved are: that the three ways of scheduling keep the executor's contract; what the two collision rounds leave
behind; the progress reports; what the pipeline writes for every action; and the way of solids and metadata from files
through a session to the next. Every invariant and every action property that a passing run checks is stated by a theorem. Each holds for **every** value of the
constants that the named assumptions of its module allow, and these say no more than what the code guarantees:

- `AccessorAssumption` (pairs of existing items, positive item count and batch size), `TaskGroupAssumption` (a finite, non-empty
  set of workers and at least one thread), `DispatcherAssumption` and `RoundsAssumption` (what may throw is an
  operation), `BlockAssumption` (the workers are numbered, words are not empty): any coupling matrix, any number of
  items, workers and threads, any operations that may throw;
- `DetectionAssumption` (a pair is coupled in one order only, as the coupling matrix is an upper triangle):
  any graph of near items, every outcome of every fuse and distance;
- `ResolutionAssumption` (what the types, volumes and settings are): any number of items, any symmetric rows, any volumes;
- `ProgressAssumption` (rounds are not empty, frequencies and limits are positive): any rounds, batches, percentages and frequencies;
- `PipelineAssumption` and `StorageAssumption` (absolute file names are those of the configuration, no data set has
  the folder that stands for absolute paths): any number of items, readers, folders and threads. The actions are the eight of `geomPipeline.py`;
- `UniqueIdAssumption` (a number has as many negative patterns as positive, the mask is above 1, rounding infinity does not
  reach the sign bit): any width and count of numbers;
- `ReaderAssumption` (entries, labels, objects and rows are lists, solids have geometries, an object has a name, a row an identifier, a manifest's
  metadata for a STEP file a material: without them the json library throws) and `RoundTripAssumption` (which
  classes and formats there are): any inputs, colliding hash codes, leftovers in the parser's folder, list of processors,
  configurations and drifts.

| Module | Theorem | Says |
|---|---|---|
| `AsynchronousDispatcherProofs` | `Invariance` | `SafeSpec => []IInv` |
| | `TypeCorrect` | `TypeOK` always |
| | `MutualExclusion` | `LocksMatchOwners` always: locked items are exactly those of the queued and handed-out pairs, which are pairwise disjoint |
| | `RemainedIsExact` | what is no longer remaining has been processed |
| | `NothingStranded` | a worker that left leaves nothing that nobody answers for |
| | `OwnerUnlocks` | each unlocking is by the worker whose batch it was, after the whole batch |
| | `Refinement` | the dispatcher implements ExecutorContract |
| `SynchronousRoundsProofs` | `Invariance`, `TypeCorrect` | `SafeSpec => []IInv`, which has `TypeOK` |
| | `RoundsAccountFor` | `RoundAccounted` always |
| | `RoundsSeparate` | `RoundsNeverOverlap` |
| | `Refinement` | the rounds implement ExecutorContract |
| `ParallelInBlockProofs` | `Invariance`, `TypeCorrect` | `Spec => []IInv`, `TypeOK` always |
| | `OwnRangeIsKept` | `OwnRangeKept` always, for words of any size |
| | `Refinement` | the block split and every partition implement ExecutorContract |
| `CollisionDetectionProofs` | `Invariance`, `TypeCorrect` | `Spec => []IInv`, `TypeOK` always |
| | `Mirrored` | `RowsMirrored` always |
| | `ResultsAgree` | `AdjacencyIsFaceContact` always |
| | `BothImprinted` | `Imprinted` always |
| | `FailuresRecorded` | `FailureRecorded` always |
| | `Accumulates` | `ImprintsAccumulate`: no step loses an imprint |
| `CollisionResolutionProofs` | `Invariance`, `TypeCorrect` | `Spec => []IInv`, `TypeOK` always |
| | `FreeOfCollisions` | `CollisionFree` always |
| | `NoneForNothing` | `OnlyForAReason` always |
| | `InnerRemoved` | `EnclosedRemoved` always |
| | `LastDuplicateKept` | `OneDuplicateKept` always |
| `ProgressProofs` | `Invariance`, `TypeCorrect` | `Spec => []IInv`, `TypeOK` always |
| | `FewLines` | `LinesAreFew` always |
| | `ClosesWhenComplete` | `ClosedWhenComplete` always |
| `PipelineProofs` | `Invariance`, `TypeCorrect` | `Spec => []IInv`, `TypeOK` always |
| | `NothingMissing` | `PropertiesFound` always |
| | `MetadataMatches` | `MetadataForGeometry` always |
| | `GeometryMatches` | `GeometryOfAction` always |
| | `InterruptDumps` | `WorkIsDumped` always |
| | `ResultsStay` | `FolderKept` |
| `GeometryRoundTripProofs` | `NearlySame` | two solids with one identifier are `Near`, number by number |
| | `Invariance` | `Spec => []IInv` |
| | `ReadableAreLoaded` | `ReadableLoaded` always |
| | `MetadataIsOwn` | `OwnMetadata` always |
| | `FirstReasonStays` | `FirstErrorKept` |
| | `ErrorsOnlyReplaced` | `NoErrorInserted` |
| | `KeptReturn` | `KeptComeBack` always |
| | `RecognisedReturn` | `RecognisedByIdentifier` always |
| | `ForeignIsNear` | `ForeignOnlyIfNear` always |

*The dispatcher.* The invariant is `IInv`, the conjunction of six parts. `TypeOK` and
`LocksMatchOwners` are not inductive by themselves: that a returned batch may be unlocked needs to know that its pairs
were processed (`BatchInv`: the batch of a worker is what it has still to do, what it is doing and
what is done, according to its program counter). `RemainedInv` ties the remaining pairs to
the batches and the queue: pairs somebody answers for are remaining, what is not remaining is done, and what is done
and still remaining is in a batch that was not handed back. From that follows that no pair is handed out twice, and hence
"exactly once" of the refinement. `LeaversStrandNothing` is inductive only with the scan's maximality: a scan that takes
nothing from a non-empty set found a lock, and with `LocksMatchOwners` a lock has an owner. `JoinInv` says that when
all tasks have ended without an exception nothing remains, so `prepareOutput()` meets `done = Ops`.

*The rounds.* Besides types, `IInv` says what each batch consists of (`BatchInv`), that the batches of a round share no pair and
their pairs no item (`DisjointInv`), that what was done is either off the remaining pairs or in this round (`RemainedInv`), and
that at `nextAll()` every task has left (`PhaseInv`), from which the whole round is done (`RoundDone`). That `prepareOutput()` meets
a complete result rests on `EmptyRound`: with nothing locked and a positive limit (`LimitPositive`), a scan takes nothing only
when nothing remains.

*The split.* `BlocksSplit` is the arithmetic of `itemPerThread`: rounded up, the blocks reach the last item, no two
overlap, and the surplus workers have none. From then on the split is a partition, whichever made it: what a worker has to
do and what it is at are nobody else's, and no item is lost (`SplitInv`). `OwnRangeIsKept` adds that nobody works outside the
range its task was given (`RangeInv`), and that what a worker has loaded of a word within its range has all that is stored there
(`HandInv`): nobody else stores in between. For a word that two ranges share this is false, see `packed_results`.

*The first collision round.* The executor is its contract, so `ExecutorInv` says only what every schedule keeps: two
operations in progress, or failed, share no item, and where a pair is agrees with what the executor has done with it. From
that follows `CopyInv`, the heart of the imprinter: the copies that a pair fuses are still the shapes, because nobody
else was allowed to write them; without it neither `ImprintsAccumulate` nor `Imprinted` is inductive. `RowsInv` tells when
rows may speak of a pair: not before the step that decides it (the clearance at the end of the loop, everything else
in `Record`), which is why a retry cannot write a row twice. `AdjacencyInv` and `FailureInv` give the time between the end of the
loop, when the matrix is written, and `Record`, when the rows follow.

*The second collision round.* `CollisionFree` is a property of the final check and needs only its quantifier; that nothing is suppressed
without a reason, that the enclosed part goes and that a group keeps a member are properties of the order. `EnclosedInv`
and `DuplicatesInv` say what is true of an item when the loop has passed it (`next > i`) and what must *not* have
happened to it by then. A member of a group of duplicates stays exactly if no partner has a higher index; that there is a
last one, and only one, is an argument by a minimal element (`WFMin`), and `Alike` with the symmetry of the rows makes the groups of its
members the same. "At least one member" for a group alone is false, see `lone_duplicates`.

*The progress.* `LinesInv` bounds the lines of a round at work by its intervals: lines times interval never exceed
what was reported, so the division by the frequency, rounded down, still leaves room for the line of the end. That gives
`LinesAreFew` with that line *included*. `FirstInv` carries the arithmetic of the percentage to the first monitor, which
may show 100.0 only when the rounding allows it.

*The pipeline.* `Processors` computes from the lists of `geomPipeline.py` which class is created where and what its
configuration index says, for all eight actions (`InPlace`, and `OneSkipped` for `fix`, where a class that
cannot be made shifts the configurations). `Past(n)` tells which processors the data set has behind it, and with it `PropertiesInv`, `ImprintedInv` and
`MetadataInv` say what they have left. `MetadataInv` is where the order of the list counts: in `imprint` the metadata that match are
written by the last processor, in `merge` and `fix` by the second, and `NothingMore` shows that nothing after it
suppresses an item, changes a shape or writes a file. That the file is the *last* one needs `StampInv`: no file has a time later
than the clock, so a new version is `Latest` (`NewVersion`). `InputInv` and `StorageInv` tie the handler's pointer to the data set in progress and
its folder; that no dump exists before the run has ended makes `FolderKept` survive an interrupt between two data sets.

*The round trip.* The loops are first-or-last choices over finite sets with an order; that such a choice exists and is one of
the calls needs a least and a greatest element (`LeastNumber`, `GreatestNumber`, `EarliestIsOne`, `LatestIsOne`), and
that the set of calls of a file is finite. `InsertFacts` and `AssignFacts` say what the maps then have; everything about files uses
only these. `RegisterFacts` is `registerShape` for any set of calls, `CallsStep` takes it to the invariant for calls
that all belong to the file being read, and `BrepStep`, `FreeCADStep` and `XCAFStep` show that the calls of each format do.

The invariant has five parts. `LoadedInv` is the heart of the reader: what is in the maps, outside of colliding codes, is of entries
*before* the next one, every such entry that was readable has arrived, and what is known of a solid is from its own source. It
is inductive because the entry in progress writes only under keys of its own number. `InputInv` tells that the input stays readable, in
session two as well, where it is what session one wrote; a FreeCAD file that failed leaves objects of an earlier entry, which is why
`AllObjects` and `unreadable` are in it. `ItemsInv` has the errors of all items in the map from publication on, which
makes `suppressItem` a replacement (`NoErrorInserted`) and never of a reason (`FirstErrorKept`). `MeasuredInv` follows the
property builder: what is not in `todo` has been measured, the geometry does not change until the rows are written, and every
file that was written, whatever came after it, has a row for each item that is kept and in it the name, the material and the identifier of
what was measured then (`TellsOfItems`). `BackInv` is session two: the solids of the file are the items that were kept, the metadata file is one of
those (`GivenInv`), and once it is read each solid has the metadata of a row with its identifier, or none (`Recognised`).

That the metadata are of a *near* solid is arithmetic (`SameIdentifier`, `NearlySame`): the words of two solids are equal
only if all their numbers are (`Digits`, by the least number at which they differ, as induction over `word[n]` cannot be cited: a well-founded order
and a set of counterexamples do the same), and two patterns that are rounded to one multiple differ by at most the mask. This is where
rounding must not carry into the sign bit, hence the assumption on `INFINITY`. That `word[n]` is a function that satisfies its own
equation is proved in the same manner (`WordsExist`).

What stays with TLC: liveness (`EventuallyReturns`, `EventuallyEnds`, `CompletionSeen`), which needs ENABLED, and the
properties of the runs that expect a violation.

## 5. Not modelled, and the plan

Not modelled because nothing in it is a question for a model checker: the numeric functions
of Open CASCADE and their wrappers (most of `OccUtils`, `GeometryTypes` conversions), file formats, log and
report wording, the operator's console, the FreeCAD and analysis scripts, vendored code, packaging.

Not modelled because nobody calls it: partition ids (`myPartitionIds` has no producer), `nearbyIds()` and `uniqueIdEqual()`
(whose combinations are all made from the first number), `PropertyContainer::extract()`, `hasElement()`, `getElement()` and
`removeAt()` of the sparse matrix (the tests of the parallel accessor aside), `SparseMatrix::random()`, `dump()` and `volumeCheck()` of the property builder.

Further abstractions: an allocation failure inside `next()`, which the dispatcher would catch and turn into an
empty batch, is left out; the coupling matrix is any upper triangle rather than
the result of the builder's serial loop over bound boxes; a machine tells its number of threads
(`hardware_concurrency()` is not 0); shells, compounds and other shapes that the reader registers besides the solids,
which no processor uses, are not kept.

Order of the work, most important first:

1. *(done)* ExecutorContract, ParallelAccessor, TaskGroup, AsynchronousDispatcher and its proofs.
2. *(done)* SynchronousRounds, ParallelInBlock and their proofs.
3. *(done)* CollisionDetection on ExecutorContract, CollisionResolution on its rows.
4. *(done)* GeomPipeline, DataStorage, Pipeline.
5. *(done)* UniqueId, GeometryReader and GeometryRoundTrip.
6. *(done)* Progress.
7. *(done)* Proofs about CollisionDetection, CollisionResolution, Progress and Pipeline.
8. *(done)* Proofs about UniqueId, GeometryReader and GeometryRoundTrip.
9. The contents of item reports, and the filters that the search builder accumulates over data sets.
