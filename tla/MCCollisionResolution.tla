----------------------- MODULE MCCollisionResolution ------------------------
EXTENDS CollisionResolution

\* Volumes that grow with the index, that shrink, and that are all the same.
MCVolumes == {[i \in Items |-> i], [i \in Items |-> ItemCount - i], [i \in Items |-> 1]}

AllSettings == [suppressFloating : BOOLEAN, suppressErroneous : BOOLEAN, ignoreUnknown : BOOLEAN]

\* The defaults of CollisionDetector::prepareInput
DefaultSettings ==
  {[suppressFloating |-> FALSE, suppressErroneous |-> TRUE, ignoreUnknown |-> FALSE]}
=============================================================================
