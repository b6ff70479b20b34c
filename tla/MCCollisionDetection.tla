------------------------ MODULE MCCollisionDetection ------------------------
EXTENDS CollisionDetection

\* A chain: 0-1 and 2-3 can run at the same time, 1-2 shares an item with each.
MCCoupled == {<<0, 1>>, <<1, 2>>, <<2, 3>>}
MCSuppressed == {{}, {3}}
=============================================================================
