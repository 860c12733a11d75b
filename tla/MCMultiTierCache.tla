--------------------------- MODULE MCMultiTierCache ---------------------------
(* One key, whose tag is its document, and two coroutines in two processes.*)
EXTENDS MultiTierCache, Sequences

CONSTANTS k1, t1, t2, p1, p2, doc

MCProcOf == [t \in {t1, t2} |-> IF t = t1 THEN p1 ELSE p2]
MCTagsOf == [k \in {k1} |-> {doc}]
MCValues == 0..MaxVersion

-----------------------------------------------------------------------------
(* Eviction needs more keys than that state space bears: LRUCache is also  *)
(* evaluated on all its contents of up to two entries, of three keys and   *)
(* two tags.                                                               *)
LRU == INSTANCE LRUCache WITH Keys <- {"a", "b", "c"}, Tags <- {"x", "y"},
                              Values <- {0}, l1_max_entries <- 2

ThreeKeys == {"a", "b", "c"}

\* Sequences of different keys, oldest first, and the contents they stand for.
Orders == {s \in UNION {[1..n -> ThreeKeys] : n \in 0..2} :
             Cardinality({s[i] : i \in DOMAIN s}) = Len(s)}

Contents(order, entry) ==
  LET kept == {order[i] : i \in DOMAIN order}
  IN  [data  |-> [k \in ThreeKeys |-> IF k \in kept THEN entry[k] ELSE None],
       older |-> {<<order[q[1]], order[q[2]]>> :
                    q \in {r \in (DOMAIN order) \X (DOMAIN order) : r[1] < r[2]}},
       index |-> [g \in {"x", "y"} |-> {k \in kept : g \in entry[k].tags}]]

Without(order, k) == SelectSeq(order, LAMBDA j : j # k)
Last(order) == SubSeq(order, IF Len(order) > 2 THEN 2 ELSE 1, Len(order))

\* Each method keeps the entries of a sequence of keys, and nothing else.
ASSUME LRUHolds ==
  \A order \in Orders : \A entry \in [ThreeKeys -> LRU!Entry] :
    LET c == Contents(order, entry) IN
    /\ \A k \in ThreeKeys :
         LET others == Without(order, k) IN
         /\ LRU!Remove(c, k) = Contents(others, entry)
         /\ LRU!Looked(c, k) =
              Contents(IF LRU!Hit(c, k) THEN Append(others, k) ELSE others, entry)
         /\ \A tags \in SUBSET {"x", "y"} :
              LRU!Put(c, k, 0, tags) =
                Contents(Last(Append(others, k)),
                         [entry EXCEPT ![k] = [val |-> 0, tags |-> tags,
                                               live |-> TRUE]])
    /\ \A g \in {"x", "y"} :
         LRU!RemoveTag(c, g) =
           Contents(SelectSeq(order, LAMBDA j : g \notin entry[j].tags), entry)
=============================================================================
