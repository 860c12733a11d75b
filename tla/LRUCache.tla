------------------------------- MODULE LRUCache -------------------------------
(***************************************************************************)
(* LRUCache of packages/common/performance/cache_strategy.py: the bounded  *)
(* in-process tier of the multi-tier cache, as functions on its contents.  *)
(* No method awaits, so each is one step of its caller.  The clock is kept *)
(* as one bit of each entry, `live`: not yet past expires_at; the order of *)
(* the OrderedDict as the pairs of keys of which the first is the older.   *)
(***************************************************************************)
EXTENDS Naturals, FiniteSets

CONSTANTS
  Keys, Tags,
  Values,        (* what is cached                                         *)
  l1_max_entries,
  None           (* no entry                                               *)

Entry == [val : Values, tags : SUBSET Tags, live : BOOLEAN]

ASSUME LRUAssumption ==
  /\ l1_max_entries \in Nat \ {0}
  /\ None \notin Values \cup Entry

Cache == [data : [Keys -> Entry \cup {None}],   (* _data                    *)
          older : SUBSET (Keys \X Keys),        (* its order                *)
          index : [Tags -> SUBSET Keys]]        (* _tag_index               *)

Empty == [data |-> [k \in Keys |-> None],
          older |-> {},
          index |-> [t \in Tags |-> {}]]

Kept(cache) == {k \in Keys : cache.data[k] # None}

Carries(cache, k, t) == cache.data[k] # None /\ t \in cache.data[k].tags

(* _tag_index lists exactly the stored keys that carry the tag.            *)
Exact(cache) ==
  \A t \in Tags, k \in Keys : k \in cache.index[t] <=> Carries(cache, k, t)

(* _remove, of each of some keys.                                          *)
RemoveAll(cache, gone) ==
  [data  |-> [k \in Keys |-> IF k \in gone THEN None ELSE cache.data[k]],
   older |-> {p \in cache.older : p[1] \notin gone /\ p[2] \notin gone},
   index |-> [t \in Tags |->
                {k \in cache.index[t] : ~(k \in gone /\ Carries(cache, k, t))}]]

Remove(cache, k) == RemoveAll(cache, {k})

\* Every other key is older than k.
Newest(cache, k) ==
  [cache EXCEPT !.older = {p \in @ : p[1] # k}
                            \cup {<<j, k>> : j \in Kept(cache) \ {k}}]

Insert(cache, k, val, tags) ==
  [data  |-> [cache.data EXCEPT
               ![k] = [val |-> val, tags |-> tags, live |-> TRUE]],
   older |-> cache.older,
   index |-> [t \in Tags |-> IF t \in tags THEN cache.index[t] \cup {k}
                             ELSE cache.index[t]]]

\* A plausible bug (SetsOver of MultiTierCache): the old entry is overwritten
\* and its tags stay in the index.
StoredOver(cache, k, val, tags) == Newest(Insert(cache, k, val, tags), k)

(* The new entry of set(), before eviction: whatever tags the key had are  *)
(* forgotten with its old entry.                                           *)
Stored(cache, k, val, tags) ==
  Newest(Insert(Remove(cache, k), k, val, tags), k)

Oldest(cache) ==
  {k \in Kept(cache) : \A j \in Kept(cache) \ {k} : <<k, j>> \in cache.older}

(* set: one entry more than the limit evicts the oldest.                   *)
Put(cache, k, val, tags) ==
  LET new == Stored(cache, k, val, tags)
  IN  IF Cardinality(Kept(new)) > l1_max_entries
      THEN RemoveAll(new, Oldest(new)) ELSE new

Hit(cache, k) == cache.data[k] # None /\ cache.data[k].live

(* get: what is left behind; an expired entry is removed, not served.      *)
Looked(cache, k) == IF Hit(cache, k) THEN Newest(cache, k) ELSE Remove(cache, k)

(* invalidate_tag: _remove of every key the index lists.                   *)
RemoveTag(cache, tag) == RemoveAll(cache, cache.index[tag])

(* Time passes expires_at; nothing notices until the key is looked up.     *)
Expired(cache, k) == [cache EXCEPT !.data[k].live = FALSE]

=============================================================================
