------------------------ MODULE MCUnreliableService ------------------------
(* One record read by id, on a service that refreshes, evicts and fails.   *)
EXTENDS MCCachedRepository, UnreliableServiceInvariant
=============================================================================
