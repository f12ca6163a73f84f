-------------------------- MODULE MCAdapterClients --------------------------
(* Three goroutines of the cache service for TLC.                          *)
EXTENDS AdapterClients, TLC

CONSTANTS p1, p2, p3, k1, k2

MCTagLists == {<<>>, <<"t1">>, <<"t1", "t2">>}
MCKeySets  == {{k1, k2}}
Symmetry   == Permutations({p1, p2, p3})
=============================================================================
