-------------------------- MODULE ParallelAccessor --------------------------
(***************************************************************************)
(* The data and the locking primitives that PPP::ParallelAccessor          *)
(* (PPP/ParallelAccessor.h) shares with its subclass                       *)
(* AsynchronousDispatcher: the indexers of the coupling matrix, the set of *)
(* locked items, and the scan of myRemainedItems that hands out indexers   *)
(* whose items nobody has locked.                                          *)
(*                                                                         *)
(* myRemainedItems is an unordered_set, its iteration order is the hash's: *)
(* a scan may meet the indexers in any order, so what it takes is any set  *)
(* that some order of the greedy loop produces.                            *)
(***************************************************************************)
EXTENDS Naturals, FiniteSets

CONSTANTS ItemCount,       \* myItemCount: items are 0 .. ItemCount-1
          CouplingMatrix,  \* the non-zero elements (i, j) given to setCouplingMatrix
          BatchSize        \* myBatchSize

ASSUME AccessorAssumption ==
  /\ ItemCount \in Nat \ {0}
  /\ CouplingMatrix \subseteq (0 .. ItemCount - 1) \X (0 .. ItemCount - 1)
  /\ BatchSize \in Nat \ {0}

Items == 0 .. ItemCount - 1

\* The items of an indexer {i, j}.
ItemsOf(ind) == {ind[1], ind[2]}

ItemsOfAll(inds) == {i \in Items : \E ind \in inds : i \in ItemsOf(ind)}

\* Mutant: "and" for "or", one free item is enough.
isLockedBoth(ind, locked) == \A i \in ItemsOf(ind) : i \in locked

isLocked(ind, locked) == \E i \in ItemsOf(ind) : i \in locked

\* Mutant: the indices of a Matrix Market file, which start at 1.
lockItemFromOne(inds, locked) == locked \cup {i + 1 : i \in ItemsOfAll(inds)}

lockItem(inds, locked) == locked \cup ItemsOfAll(inds)

\* Mutant: unlockAll() instead of unlock(prevLocked).
unlockEverything(inds, locked) == {}

\* unlock(prevLocked), on myLockedItems
unlock(inds, locked) == locked \ ItemsOfAll(inds)

\* Mutant: only the row of the indexers is compared.
ExclusiveRows(inds) ==
  \A p, q \in inds : p # q => p[1] # q[1]

\* No two indexers of the set share an item.
Exclusive(inds) ==
  \A p, q \in inds : p # q => ItemsOf(p) \cap ItemsOf(q) = {}

(***************************************************************************)
(* The outcomes of the loop that walks `remained` once, skips indexers     *)
(* with a locked item and takes (and locks) the others, at most `limit` of *)
(* them.  It stops early only at the end of the container, when everything *)
(* it did not take has a locked item.                                      *)
(***************************************************************************)
Scan(remained, locked, limit) ==
  {taken \in SUBSET remained :
     /\ Exclusive(taken)
     /\ \A ind \in taken : ~isLocked(ind, locked)
     /\ Cardinality(taken) <= limit
     /\ Cardinality(taken) < limit =>
          \A ind \in remained \ taken : isLocked(ind, lockItem(taken, locked))}
=============================================================================
