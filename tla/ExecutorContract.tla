-------------------------- MODULE ExecutorContract --------------------------
(***************************************************************************)
(* What Executor::process() promises the processor that it drives,         *)
(* whatever the scheduling (blocks, synchronous rounds, asynchronous       *)
(* dispatcher): between prepareInput() and prepareOutput() every operation *)
(* is carried out exactly once, operations that touch a common item never  *)
(* overlap, and prepareOutput() runs only on a complete result.  When an   *)
(* operation throws, the exception leaves process() instead: prepareOutput *)
(* is not run and no item the failed operation touched is touched again.   *)
(***************************************************************************)
EXTENDS Naturals

CONSTANTS Ops,        \* the operations to carry out (items, or coupled item pairs)
          Footprint   \* Footprint[o]: the items that operation o reads and writes

VARIABLES running,    \* operations in progress
          done,       \* operations that have returned
          failed,     \* operations that have thrown
          outcome     \* "processing", then "output" or "rethrown"

contractVars == <<running, done, failed, outcome>>

Init ==
  /\ running = {}
  /\ done = {}
  /\ failed = {}
  /\ outcome = "processing"

\* Mutant: nothing is locked.
BeginUnlocked(o) ==
  /\ outcome = "processing"
  /\ o \notin running \cup done \cup failed
  /\ running' = running \cup {o}
  /\ UNCHANGED <<done, failed, outcome>>

Begin(o) ==
  /\ outcome = "processing"
  /\ o \notin running \cup done \cup failed
  /\ \A q \in running \cup failed : Footprint[o] \cap Footprint[q] = {}
  /\ running' = running \cup {o}
  /\ UNCHANGED <<done, failed, outcome>>

Return(o) ==
  /\ o \in running
  /\ running' = running \ {o}
  /\ done' = done \cup {o}
  /\ UNCHANGED <<failed, outcome>>

Throw(o) ==
  /\ o \in running
  /\ running' = running \ {o}
  /\ failed' = failed \cup {o}
  /\ UNCHANGED <<done, outcome>>

PrepareOutput ==
  /\ outcome = "processing"
  /\ done = Ops
  /\ outcome' = "output"
  /\ UNCHANGED <<running, done, failed>>

Rethrow ==
  /\ outcome = "processing"
  /\ running = {}
  /\ failed # {}
  /\ outcome' = "rethrown"
  /\ UNCHANGED <<running, done, failed>>

Next ==
  \/ \E o \in Ops : Begin(o) \/ Return(o) \/ Throw(o)
  \/ PrepareOutput
  \/ Rethrow

Spec == Init /\ [][Next]_contractVars
=============================================================================
