---------------------------- MODULE MultiTierCache ----------------------------
(***************************************************************************)
(* MultiTierCache of packages/common/performance/cache_strategy.py: the    *)
(* calls of several coroutines, in several processes, on one namespace.    *)
(* L1 is the LRUCache of a process, L2 is Redis, L3 a Postgres table; what *)
(* is cached comes from an origin, as the number of its version.           *)
(*                                                                         *)
(* A step runs from one await to the next, or is one command at Redis.     *)
(* Postgres is called without await, inside the step around the call.  A   *)
(* reply of Redis that is used later (get, smembers) is kept in the task;  *)
(* when the resumed coroutine only issues its next command, that is not a  *)
(* step of its own.  Times are one bit: an entry is live or has expired.   *)
(*                                                                         *)
(* Redis runs with allkeys-lru (docker-compose.yml): when its memory is    *)
(* full it drops any key, values and the tags' sets alike, at any time.    *)
(***************************************************************************)
EXTENDS LRUCache

CONSTANTS
  Procs, Tasks,
  ProcOf,        (* [Tasks -> Procs]                                       *)
  TagsOf,        (* [Keys -> SUBSET Tags]: the tags callers give a key     *)
  MaxVersion,    (* bound: versions of the origin's value of a key         *)
  MaxFaults      (* bound: faults in a behaviour                           *)

ASSUME CacheAssumption ==
  /\ ProcOf \in [Tasks -> Procs]
  /\ TagsOf \in [Keys -> SUBSET Tags]
  /\ MaxVersion \in Nat /\ Values = 0..MaxVersion
  /\ MaxFaults \in Nat
  /\ None \notin Keys \cup Tags

VARIABLES
  l1,      (* [Procs -> Cache]                                             *)
  l2,      (* Redis: the values                                            *)
  tagidx,  (* Redis: the set hsaai:cache:tagidx:<tag> of each tag          *)
  l3,      (* rows of cache_entries not past expires_at: no query returns
              another, and a set writes over it                            *)
  origin,  (* the version fetch_fn would return                            *)
  task,    (* what each coroutine awaits, and its local variables          *)
  faults,  (* number of faults so far                                      *)
  unlisted,(* history: keys last stored when a tag's set that Redis has
              dropped since still held them                                *)
  quiet    (* history: no call has overlapped an invalidation, left out
              the tags of its key, or met a fault                          *)

vars == <<l1, l2, tagidx, unlisted, l3, origin, task, faults, quiet>>

Idle == [at |-> "idle", key |-> None, val |-> None, tags |-> {},
         tag |-> None, found |-> {}]

Invalidating == {"smembers", "delete", "purge"}

TaskStates ==
  [at : Invalidating \cup {"idle", "get", "got", "backfill", "fetch", "fetched",
                           "setex", "sadd", "row"},
   key : Keys \cup {None}, val : Values \cup {None}, tags : SUBSET Tags,
   tag : Tags \cup {None}, found : SUBSET Keys]

TypeOK ==
  /\ l1 \in [Procs -> Cache]
  /\ l2 \in [Keys -> Values \cup {None}]
  /\ tagidx \in [Tags -> SUBSET Keys] /\ unlisted \subseteq Keys
  /\ l3 \in [Keys -> [val : Values, tags : SUBSET Tags] \cup {None}]
  /\ origin \in [Keys -> Values]
  /\ task \in [Tasks -> TaskStates]
  /\ faults \in 0..MaxFaults
  /\ quiet \in BOOLEAN

Init ==
  /\ l1 = [p \in Procs |-> Empty]
  /\ l2 = [k \in Keys |-> None]
  /\ tagidx = [g \in Tags |-> {}] /\ unlisted = {}
  /\ l3 = [k \in Keys |-> None]
  /\ origin = [k \in Keys |-> 0]
  /\ task = [t \in Tasks |-> Idle]
  /\ faults = 0
  /\ quiet = TRUE

Own(t) == l1[ProcOf[t]]
InL1(t, cache) == l1' = [l1 EXCEPT ![ProcOf[t]] = cache]
Ends(t) == task' = [task EXCEPT ![t] = Idle]
Goes(t, at) == task' = [task EXCEPT ![t].at = at]
At(t, at) == task[t].at = at

\* A call that stores begins; an invalidation begins.
Calls(k, tags) ==
  quiet' = (quiet /\ tags = TagsOf[k]
                  /\ \A t \in Tasks : task[t].at \notin Invalidating)
Invalidates == quiet' = (quiet /\ \A t \in Tasks : At(t, "idle"))

-----------------------------------------------------------------------------
(* Plausible bugs: each stands in for one definition below, to show that   *)
(* the properties notice it.                                               *)

\* A value found in Redis is written through, which renews its row.
L2HitWritesThrough(t) ==
  /\ At(t, "got") /\ task[t].val # None
  /\ InL1(t, Put(Own(t), task[t].key, task[t].val, task[t].tags))
  /\ Goes(t, "setex")
  /\ UNCHANGED <<l2, tagidx, unlisted, l3, origin, faults, quiet>>

\* get stores what it finds in Redis in L1 without the tags.
L2HitUntagged(t) ==
  /\ At(t, "got") /\ task[t].val # None
  /\ InL1(t, Put(Own(t), task[t].key, task[t].val, {}))
  /\ Ends(t)
  /\ UNCHANGED <<l2, tagidx, unlisted, l3, origin, faults, quiet>>

\* set writes over the entry in L1 without removing the old one.
SetsOver(t, k, val, tags) ==
  /\ InL1(t, StoredOver(Own(t), k, val, tags))
  /\ task' = [task EXCEPT ![t] = [Idle EXCEPT !.at = "setex", !.key = k,
                                               !.val = val, !.tags = tags]]

\* `if raw is not None` is forgotten.
L2HitUnchecked(t) ==
  /\ At(t, "got")
  /\ InL1(t, Put(Own(t), task[t].key, task[t].val, task[t].tags))
  /\ Ends(t)
  /\ UNCHANGED <<l2, tagidx, unlisted, l3, origin, faults, quiet>>

-----------------------------------------------------------------------------
(* set: L1, setex, sadd of the key to its tags, and then the row.          *)

Sets(t, k, val, tags) ==
  /\ InL1(t, Put(Own(t), k, val, tags))
  /\ task' = [task EXCEPT ![t] = [Idle EXCEPT !.at = "setex", !.key = k,
                                               !.val = val, !.tags = tags]]

set(t, k, tags) ==
  /\ At(t, "idle")
  /\ Sets(t, k, origin[k], tags)
  /\ Calls(k, tags)
  /\ UNCHANGED <<l2, tagidx, unlisted, l3, origin, faults>>

Setex(t) ==
  /\ At(t, "setex")
  /\ l2' = [l2 EXCEPT ![task[t].key] = task[t].val]
  /\ Goes(t, IF task[t].tags = {} THEN "row" ELSE "sadd")
  /\ UNCHANGED <<l1, tagidx, unlisted, l3, origin, faults, quiet>>

Sadd(t) ==
  /\ At(t, "sadd")
  /\ tagidx' = [g \in Tags |-> IF g \in task[t].tags
                               THEN tagidx[g] \cup {task[t].key} ELSE tagidx[g]]
  /\ unlisted' = unlisted \ {task[t].key}
  /\ Goes(t, "row")
  /\ UNCHANGED <<l1, l2, l3, origin, faults, quiet>>

WriteRow(t) ==
  /\ At(t, "row")
  /\ l3' = [l3 EXCEPT ![task[t].key] =
              [val |-> task[t].val, tags |-> task[t].tags]]
  /\ Ends(t)
  /\ UNCHANGED <<l1, l2, tagidx, unlisted, origin, faults, quiet>>

-----------------------------------------------------------------------------
(* get: L1, then Redis, then Postgres, then fetch_fn.                      *)

get(t, k, tags) ==
  /\ At(t, "idle")
  /\ InL1(t, Looked(Own(t), k))
  /\ \/ Hit(Own(t), k) /\ UNCHANGED <<task, quiet>>
     \/ /\ ~Hit(Own(t), k)
        /\ task' = [task EXCEPT ![t] = [Idle EXCEPT !.at = "get", !.key = k,
                                                    !.tags = tags]]
        /\ Calls(k, tags)
  /\ UNCHANGED <<l2, tagidx, unlisted, l3, origin, faults>>

RedisGet(t) ==
  /\ At(t, "get")
  /\ task' = [task EXCEPT ![t].at = "got", ![t].val = l2[task[t].key]]
  /\ UNCHANGED <<l1, l2, tagidx, unlisted, l3, origin, faults, quiet>>

L2Hit(t) ==
  /\ At(t, "got") /\ task[t].val # None
  /\ InL1(t, Put(Own(t), task[t].key, task[t].val, task[t].tags))
  /\ Ends(t)
  /\ UNCHANGED <<l2, tagidx, unlisted, l3, origin, faults, quiet>>

L3Hit(t) ==
  LET k == task[t].key IN
  /\ At(t, "got") /\ task[t].val = None /\ l3[k] # None
  /\ InL1(t, Put(Own(t), k, l3[k].val, task[t].tags))
  /\ task' = [task EXCEPT ![t].at = "backfill", ![t].val = l3[k].val]
  /\ UNCHANGED <<l2, tagidx, unlisted, l3, origin, faults, quiet>>

\* The key is not added to the tags' sets here.
Backfill(t) ==
  /\ At(t, "backfill")
  /\ l2' = [l2 EXCEPT ![task[t].key] = task[t].val]
  /\ Ends(t)
  /\ UNCHANGED <<l1, tagidx, unlisted, l3, origin, faults, quiet>>

\* With a fetch_fn or without.
Missed(t) == Goes(t, "fetch") \/ Ends(t)

Miss(t) ==
  /\ At(t, "got") /\ task[t].val = None /\ l3[task[t].key] = None
  /\ Missed(t)
  /\ UNCHANGED <<l1, l2, tagidx, unlisted, l3, origin, faults, quiet>>

\* fetch_fn returns a value, or None, or it raises.
Fetch(t) ==
  /\ At(t, "fetch")
  /\ \/ task' = [task EXCEPT ![t].at = "fetched", ![t].val = origin[task[t].key]]
     \/ Ends(t)
  /\ UNCHANGED <<l1, l2, tagidx, unlisted, l3, origin, faults, quiet>>

Store(t) ==
  /\ At(t, "fetched")
  /\ Sets(t, task[t].key, task[t].val, task[t].tags)
  /\ UNCHANGED <<l2, tagidx, unlisted, l3, origin, faults, quiet>>

\* A key of warm() or of the refresh-ahead loop: set without tags.
refresh(t, k) ==
  /\ At(t, "idle")
  /\ task' = [task EXCEPT ![t] = [Idle EXCEPT !.at = "fetch", !.key = k]]
  /\ Calls(k, {})
  /\ UNCHANGED <<l1, l2, tagidx, unlisted, l3, origin, faults>>

-----------------------------------------------------------------------------
(* invalidate, by tag and by key.                                          *)

invalidate_tag(t, tag) ==
  /\ At(t, "idle")
  /\ InL1(t, RemoveTag(Own(t), tag))
  /\ task' = [task EXCEPT ![t] = [Idle EXCEPT !.at = "smembers", !.tag = tag]]
  /\ Invalidates
  /\ UNCHANGED <<l2, tagidx, unlisted, l3, origin, faults>>

invalidate_key(t, k) ==
  /\ At(t, "idle")
  /\ InL1(t, Remove(Own(t), k))
  /\ task' = [task EXCEPT ![t] = [Idle EXCEPT !.at = "delete", !.found = {k}]]
  /\ Invalidates
  /\ UNCHANGED <<l2, tagidx, unlisted, l3, origin, faults>>

Smembers(t) ==
  LET found == tagidx[task[t].tag] IN
  /\ At(t, "smembers")
  /\ task' = [task EXCEPT ![t].found = found,
                          ![t].at = IF found = {} THEN "purge" ELSE "delete"]
  /\ UNCHANGED <<l1, l2, tagidx, unlisted, l3, origin, faults, quiet>>

\* One DEL of the keys and, for a tag, of its set.
Delete(t) ==
  /\ At(t, "delete")
  /\ l2' = [k \in Keys |-> IF k \in task[t].found THEN None ELSE l2[k]]
  /\ tagidx' = [g \in Tags |-> IF g = task[t].tag THEN {} ELSE tagidx[g]]
  /\ Goes(t, "purge")
  /\ UNCHANGED <<l1, unlisted, l3, origin, faults, quiet>>

\* DELETE FROM cache_entries: the rows of the tag, or of the key.
Doomed(t, k) ==
  IF task[t].tag = None THEN k \in task[t].found
  ELSE l3[k] # None /\ task[t].tag \in l3[k].tags

Purge(t) ==
  /\ At(t, "purge")
  /\ l3' = [k \in Keys |-> IF Doomed(t, k) THEN None ELSE l3[k]]
  /\ Ends(t)
  /\ UNCHANGED <<l1, l2, tagidx, unlisted, origin, faults, quiet>>

-----------------------------------------------------------------------------
(* Faults: every error of Redis or Postgres is swallowed and the call goes *)
(* on with its next tier; a coroutine is cancelled; a process restarts.    *)

Fault == faults < MaxFaults /\ faults' = faults + 1 /\ quiet' = FALSE

\* A setex may have been executed although its answer is an error.
RedisFails(t) ==
  /\ Fault
  /\ \/ At(t, "get") /\ Goes(t, "got")
     \/ At(t, "backfill") /\ Ends(t)
     \/ task[t].at \in {"setex", "sadd"} /\ Goes(t, "row")
     \/ task[t].at \in {"smembers", "delete"} /\ Goes(t, "purge")
  /\ \/ UNCHANGED l2
     \/ At(t, "setex") /\ l2' = [l2 EXCEPT ![task[t].key] = task[t].val]
  /\ UNCHANGED <<l1, tagidx, unlisted, l3, origin>>

PostgresFails(t) ==
  /\ Fault
  /\ \/ task[t].at \in {"row", "purge"} /\ Ends(t)
     \/ At(t, "got") /\ task[t].val = None /\ Missed(t)
  /\ UNCHANGED <<l1, l2, tagidx, unlisted, l3, origin>>

Cancelled(t) ==
  /\ Fault
  /\ ~At(t, "idle")
  /\ Ends(t)
  /\ UNCHANGED <<l1, l2, tagidx, unlisted, l3, origin>>

Restart(p) ==
  /\ Fault
  /\ l1' = [l1 EXCEPT ![p] = Empty]
  /\ task' = [t \in Tasks |-> IF ProcOf[t] = p THEN Idle ELSE task[t]]
  /\ UNCHANGED <<l2, tagidx, unlisted, l3, origin>>

-----------------------------------------------------------------------------
(* Time passes the expiry of an entry, Redis drops a key for lack of       *)
(* memory, the origin's value changes.                                     *)

ExpireL1(p, k) ==
  /\ Hit(l1[p], k)
  /\ l1' = [l1 EXCEPT ![p] = Expired(@, k)]
  /\ UNCHANGED <<l2, tagidx, unlisted, l3, origin, task, faults, quiet>>

\* Expired or dropped.
ExpireL2(k) ==
  /\ l2[k] # None
  /\ l2' = [l2 EXCEPT ![k] = None]
  /\ UNCHANGED <<l1, tagidx, unlisted, l3, origin, task, faults, quiet>>

\* A tag's set has no TTL, but it can be dropped, and its keys stay.
EvictTag(tag) ==
  /\ tagidx[tag] # {}
  /\ tagidx' = [tagidx EXCEPT ![tag] = {}]
  /\ unlisted' = unlisted \cup tagidx[tag]
  /\ UNCHANGED <<l1, l2, l3, origin, task, faults, quiet>>

ExpireL3(k) ==
  /\ l3[k] # None
  /\ l3' = [l3 EXCEPT ![k] = None]
  /\ UNCHANGED <<l1, l2, tagidx, unlisted, origin, task, faults, quiet>>

Update(k) ==
  /\ origin[k] < MaxVersion
  /\ origin' = [origin EXCEPT ![k] = @ + 1]
  /\ UNCHANGED <<l1, l2, tagidx, unlisted, l3, task, faults, quiet>>

-----------------------------------------------------------------------------
(* What a call under way does next when nothing fails.                     *)
Continue(t) ==
  \/ RedisGet(t) \/ L2Hit(t) \/ L3Hit(t) \/ Backfill(t) \/ Miss(t)
  \/ Fetch(t) \/ Store(t) \/ Setex(t) \/ Sadd(t) \/ WriteRow(t)
  \/ Smembers(t) \/ Delete(t) \/ Purge(t)

Next ==
  \/ \E t \in Tasks, k \in Keys :
       \/ \E tags \in {TagsOf[k], {}} : get(t, k, tags) \/ set(t, k, tags)
       \/ refresh(t, k)
       \/ invalidate_key(t, k)
  \/ \E tag \in Tags : \/ EvictTag(tag)
                       \/ \E t \in Tasks : invalidate_tag(t, tag)
  \/ \E t \in Tasks : \/ Continue(t) \/ RedisFails(t) \/ PostgresFails(t)
                      \/ Cancelled(t)
  \/ \E p \in Procs : Restart(p)
  \/ \E k \in Keys : \/ ExpireL2(k) \/ ExpireL3(k) \/ Update(k)
                     \/ \E p \in Procs : ExpireL1(p, k)

(* Awaited calls are answered, and time passes.  Redis need drop nothing.  *)
Fairness ==
  /\ \A t \in Tasks : WF_vars(Continue(t))
  /\ \A k \in Keys : /\ WF_vars(ExpireL2(k)) /\ WF_vars(ExpireL3(k))
                     /\ \A p \in Procs : WF_vars(ExpireL1(p, k))

Spec == Init /\ [][Next]_vars /\ Fairness

-----------------------------------------------------------------------------
(* The tag index of every process lists exactly the entries that carry the *)
(* tag, through overwrites with other tags, expiry, eviction and           *)
(* invalidation (LRUCache): an entry it missed could not be invalidated.   *)
IndexExact == \A p \in Procs : Exact(l1[p])

(* "drops every entry with that tag across all tiers": an invalidation     *)
(* that ends leaves no copy in the L1 of its process and in Postgres, and  *)
(* none in Redis, whatever calls came before it, provided that no          *)
(* invalidation was overlapped, every call gave the tags of its key and    *)
(* nothing failed.  A key whose tag's set Redis has dropped since it was   *)
(* stored can be purged from Redis only by name: the invalidation by tag   *)
(* does not find it.  The L1 of the other processes is never reached.      *)
Concerns(t, k) ==
  IF task[t].tag = None THEN k \in task[t].found ELSE task[t].tag \in TagsOf[k]

Hidden(t, k) == task[t].tag # None /\ k \in unlisted

Purges ==
  [][\A t \in Tasks : \A k \in Keys :
       (quiet' /\ At(t, "purge") /\ task'[t].at = "idle" /\ Concerns(t, k))
         => /\ l1'[ProcOf[t]].data[k] = None /\ l3'[k] = None
            /\ ~Hidden(t, k) => l2'[k] = None]_vars

(* Stale data is bounded by the TTLs: whatever invalidations were raced,   *)
(* lost or forgotten, once the origin's value stays the same, the copies   *)
(* of its old versions are in the end gone from every tier for good,       *)
(* although tiers are filled from one another with a fresh TTL each time.  *)
Stale(k) ==
  \/ \E p \in Procs : Hit(l1[p], k) /\ l1[p].data[k].val # origin[k]
  \/ l2[k] # None /\ l2[k] # origin[k]
  \/ l3[k] # None /\ l3[k].val # origin[k]

StaleDies == \A k \in Keys : <>[]~Stale(k)

=============================================================================
