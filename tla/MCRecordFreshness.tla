------------------------- MODULE MCRecordFreshness -------------------------
(* Two records for TLC: the tenant's scope shows one of them, no scope     *)
(* shows both.                                                             *)
EXTENDS RecordFreshness

MCOrder == <<"u1", "u2">>
MCShows == [s \in Scopes |-> IF s = NoScope THEN Ids ELSE {"u1"}]
=============================================================================
