----------------------------- MODULE DataStorage -----------------------------
(***************************************************************************)
(* The file system as the results see it: a partial function from paths to *)
(* contents, the folder of the data set in progress, and a clock of whole  *)
(* seconds that the names of further versions of a file are made from.     *)
(***************************************************************************)
EXTENDS Naturals

CONSTANTS Stems,     \* file name stems of inputs, one result folder for each
          MaxTime,   \* bound on the clock
          Absolute   \* file names that are given as absolute paths

ASSUME StorageAssumption == MaxTime \in Nat /\ "absolute" \notin Stems

VARIABLES files,          \* path -> content, for the files that exist
          myStoragePath,  \* folder of the data set in progress
          now             \* seconds, 1 .. MaxTime

storageVars == <<files, myStoragePath, now>>

\* stamp 0: the name without a timestamp.
getFullPath(name, stamp) ==
  [folder |-> IF name \in Absolute THEN "absolute" ELSE myStoragePath,
   name   |-> name,
   stamp  |-> stamp]

\* If the file name has existed, a name with the second of the clock: this
\* one is not tested for again.
dataStoragePath(name, time) ==
  IF getFullPath(name, 0) \in DOMAIN files THEN getFullPath(name, time) ELSE getFullPath(name, 0)

\* Mutant: the folder does not depend on the input.
generateStoragePathSame(stem) == CHOOSE s \in Stems : TRUE

generateStoragePath(stem) == stem

\* A folder that exists is removed with what is in it.
setStoragePath(folder) ==
  /\ files' = [p \in {q \in DOMAIN files : q.folder # folder} |-> files[p]]
  /\ myStoragePath' = folder
  /\ UNCHANGED now

\* The files after one is written; what was at its path is overwritten.
Overwritten(path, content) ==
  [p \in DOMAIN files \cup {path} |-> IF p = path THEN content ELSE files[p]]

\* Write a file at a time that is not before the last one.
Save(name, content) ==
  \E time \in now .. MaxTime :
     /\ files' = Overwritten(dataStoragePath(name, time), content)
     /\ now' = time
     /\ UNCHANGED myStoragePath
===============================================================================
