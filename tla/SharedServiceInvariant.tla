------------------------ MODULE SharedServiceInvariant ------------------------
(***************************************************************************)
(* The inductive invariant behind the safety properties of SharedService:  *)
(* every text in the service's cache is accounted for, a result by a       *)
(* request whose key it is, a registry by its tag.                         *)
(***************************************************************************)
EXTENDS SharedService

Contents == [of : SUBSET Reads, tags : SUBSET AllTags, keys : SUBSET AllKeyTexts]

ContentsOK == cache \in [DOMAIN cache -> Contents]

(* A result is kept under the key of a request for the read it is of, and  *)
(* has been read with all the tags of that request.                        *)
ResultsOK ==
  \A text \in DOMAIN cache : IsResult(text) =>
    \E q \in Requests :
      /\ text = q.key
      /\ cache[text].of = {q.read}
      /\ IF hasTags THEN Range(q.tags) \subseteq cache[text].tags ELSE cache[text].tags = {}

(* A registry is kept under a tag, and lists only keys that bear the tag   *)
(* or that a context may have given it.                                    *)
RegistriesOK ==
  \A text \in DOMAIN cache : ~IsResult(text) =>
    /\ hasTags
    /\ \E tag \in AllTags :
         /\ text = TagRegistryKey(tag)
         /\ \A key \in cache[text].keys :
              \E q \in Requests : q.key = key /\ tag \in OwnTags \cup Range(q.tags)

(* All together.                                                           *)
SharedInv ==
  /\ SharedTypeOK
  /\ ContentsOK
  /\ ResultsOK
  /\ RegistriesOK
  /\ TaggedIsRegistered
  /\ CachedOnce
  /\ MixedUpOnlyByLookalikes
=============================================================================
