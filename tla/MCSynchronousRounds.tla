------------------------ MODULE MCSynchronousRounds -------------------------
EXTENDS SynchronousRounds

\* Six items.  A round takes at most three disjoint indexers: one full batch and
\* one partly filled; 1-2 and 2-1 conflict, as in a symmetric matrix.
MCCoupling == {<<0, 1>>, <<2, 3>>, <<4, 5>>, <<1, 2>>, <<2, 1>>, <<3, 4>>, <<0, 5>>}
MCThrowing == {<<1, 2>>, <<4, 5>>}
=============================================================================
