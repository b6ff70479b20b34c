---------------------- MODULE MCAsynchronousDispatcher ----------------------
EXTENDS AsynchronousDispatcher

\* Six items.  0-1, 2-3 and 4-5 can run at the same time, which fills a batch of
\* two and leaves one indexer in the queue; 1-2 and 3-4 conflict with two of
\* them; 1-2 is there in both directions, as in a symmetric matrix.
MCCoupling == {<<0, 1>>, <<2, 3>>, <<4, 5>>, <<1, 2>>, <<2, 1>>, <<3, 4>>}
MCThrowing == {<<1, 2>>, <<4, 5>>}
=============================================================================
