--------------------------- MODULE MCEarlyRefresh ---------------------------
(* One record read by id, refreshed early.                                 *)
EXTENDS MCCachedRepository, EarlyRefresh
=============================================================================
