------------------------- MODULE MCCachedRepository -------------------------
(* A small decorator for TLC: two records, two scopes.                     *)
EXTENDS RepositoryKeys, CachedRepositoryRefinement

CONSTANTS p1, p2

Symmetry2 == Permutations({p1, p2})

MCValues   == 0..MaxWrites
MCReadTags == [k \in Keys |-> TagsOfRead(k)]

(* A record read by id and listed, both in a tenant's scope, whose         *)
(* registry lists both keys.  A write reaches the first by its id and the  *)
(* second by the list tag, a write made in the scope both by that tag too. *)
ByID        == Key("GetByID", "u1", "tenant")
Listing     == Key("List", NoArg, "tenant")
TwoKeys     == {ByID, Listing}
OneKey      == {ByID}
TwoKeyTags  == {ListTag, ScopeTag("tenant"), IdTag("u1")}
OneKeyTags  == {ScopeTag("tenant"), IdTag("u1")}

(* Invalidations confined to the keys and tags of the instance.            *)
Confined(invalidations) ==
  [j \in DOMAIN invalidations |->
     [tags     |-> SelectSeq(invalidations[j].tags, LAMBDA t : t \in Tags),
      fallback |-> SelectSeq([d \in DOMAIN invalidations[j].fallback |->
                     [scan |-> invalidations[j].fallback[d].scan,
                      keys |-> invalidations[j].fallback[d].keys \cap Keys]],
                     LAMBDA d : d.keys # {})]]

(* Writes of the record read by id; bulk writes change another one first,  *)
(* and are made in the tenant's scope, the others outside any.             *)
MCRecords(w) == IF w = "UpdateMany" THEN <<Record("u2", <<>>), Record("u1", <<"nick">>)>>
                ELSE <<Record("u1", <<"nick">>)>>
MCScope(w)   == IF w = "UpdateMany" THEN "tenant" ELSE NoScope

MCPlan == [w \in Writes |-> Confined(PlanOfWrite(w, MCScope(w), MCRecords(w)))]
=============================================================================
