------------------------- MODULE MultiTierCacheProofs -------------------------
(***************************************************************************)
(* The safety of MultiTierCache for any keys, tags, processes, coroutines  *)
(* and limits: first the tag index of L1, then what an undisturbed         *)
(* invalidation removes.                                                   *)
(***************************************************************************)
EXTENDS MultiTierCache, TLAPS

-----------------------------------------------------------------------------
(* Methods of LRUCache keep the tag index exact.                           *)

Sound == {c \in Cache : Exact(c)}

\* An empty cache has an exact index.
LEMMA EmptySound == Empty \in Sound
  BY LRUAssumption DEF LRUAssumption, Empty, Sound, Cache, Exact, Carries

\* _remove of any set of keys keeps the index exact, and removes them.
LEMMA RemoveAllSound ==
  ASSUME NEW c \in Sound, NEW gone \in SUBSET Keys
  PROVE  /\ RemoveAll(c, gone) \in Sound
         /\ \A k \in Keys : RemoveAll(c, gone).data[k] =
                              IF k \in gone THEN None ELSE c.data[k]
<1> DEFINE d == RemoveAll(c, gone)
<1>1. d = [data |-> d.data, older |-> d.older, index |-> d.index]
  BY DEF RemoveAll
<1>2. \A k \in Keys : d.data[k] = IF k \in gone THEN None ELSE c.data[k]
  BY DEF RemoveAll
<1>3. \A t \in Tags : d.index[t] =
        {k \in c.index[t] : ~(k \in gone /\ Carries(c, k, t))}
  BY DEF RemoveAll
<1>4. d.data \in [Keys -> Entry \cup {None}]
  BY <1>2 DEF RemoveAll, Sound, Cache
<1>5. d.older \in SUBSET (Keys \X Keys)
  BY DEF RemoveAll, Sound, Cache
<1>6. d.index \in [Tags -> SUBSET Keys]
  BY DEF RemoveAll, Sound, Cache
<1>7. d \in Cache
  BY <1>1, <1>4, <1>5, <1>6 DEF Cache
<1>8. ASSUME NEW t \in Tags, NEW k \in Keys
      PROVE  k \in d.index[t] <=> Carries(d, k, t)
  <2>1. k \in c.index[t] <=> Carries(c, k, t)
    BY DEF Sound, Exact
  <2>2. Carries(d, k, t) <=> k \notin gone /\ Carries(c, k, t)
    BY <1>2 DEF Carries
  <2> QED  BY <1>3, <2>1, <2>2
<1> QED  BY <1>2, <1>7, <1>8 DEF Sound, Exact

\* Moving a key to the end changes neither entries nor index.
LEMMA NewestSound ==
  ASSUME NEW c \in Sound, NEW k \in Keys
  PROVE  Newest(c, k) \in Sound /\ Newest(c, k).data = c.data
<1> DEFINE d == Newest(c, k)
           o == {p \in c.older : p[1] # k} \cup {<<j, k>> : j \in Kept(c) \ {k}}
<1>0. d = [c EXCEPT !.older = o]
  BY DEF Newest
<1>1. o \in SUBSET (Keys \X Keys)
  BY DEF Sound, Cache, Kept
<1> HIDE DEF d, o
<1>2. d \in Cache /\ d.data = c.data /\ d.index = c.index
  BY <1>0, <1>1 DEF Sound, Cache
<1> QED  BY <1>2 DEF d, Sound, Exact, Carries

\* A new entry is listed under its tags, and under no tag of the old one.
LEMMA StoredSound ==
  ASSUME NEW c \in Sound, NEW k \in Keys, NEW val \in Values,
         NEW tags \in SUBSET Tags
  PROVE  /\ Stored(c, k, val, tags) \in Sound
         /\ Stored(c, k, val, tags).data =
              [Remove(c, k).data EXCEPT
                 ![k] = [val |-> val, tags |-> tags, live |-> TRUE]]
<1> DEFINE a == Remove(c, k)
           e == [val |-> val, tags |-> tags, live |-> TRUE]
           d == Insert(a, k, val, tags)
<1>1. a \in Sound /\ a.data[k] = None
  BY RemoveAllSound DEF Remove
<1>2. e \in Entry /\ e # None /\ e.tags = tags
  <2>1. e \in Entry /\ e.tags = tags
    BY DEF Entry
  <2> QED  BY <2>1, LRUAssumption DEF LRUAssumption
<1>3. d = [data |-> [a.data EXCEPT ![k] = e], older |-> a.older,
           index |-> [t \in Tags |-> IF t \in tags THEN a.index[t] \cup {k}
                                     ELSE a.index[t]]]
  BY DEF Insert
<1>4. d.data = [a.data EXCEPT ![k] = e] /\ d.older = a.older
      /\ d.index = [t \in Tags |-> IF t \in tags THEN a.index[t] \cup {k}
                                   ELSE a.index[t]]
  BY <1>3
<1> HIDE DEF d, a, e
<1>5. a.data \in [Keys -> Entry \cup {None}] /\ a.older \in SUBSET (Keys \X Keys)
      /\ a.index \in [Tags -> SUBSET Keys]
  BY <1>1 DEF Sound, Cache
<1>6. d \in Cache
  <2>1. [a.data EXCEPT ![k] = e] \in [Keys -> Entry \cup {None}]
    BY <1>2, <1>5
  <2>2. [t \in Tags |-> IF t \in tags THEN a.index[t] \cup {k} ELSE a.index[t]]
          \in [Tags -> SUBSET Keys]
    BY <1>5
  <2> QED  BY <1>3, <1>5, <2>1, <2>2 DEF Cache
<1>7. ASSUME NEW t \in Tags, NEW j \in Keys
      PROVE  j \in d.index[t] <=> Carries(d, j, t)
  <2>1. j \in a.index[t] <=> Carries(a, j, t)
    BY <1>1 DEF Sound, Exact
  <2>2. j \in d.index[t] <=> (j \in a.index[t] \/ (t \in tags /\ j = k))
    BY <1>4
  <2>3. CASE j = k
    BY <1>1, <1>2, <1>4, <1>5, <2>1, <2>2, <2>3 DEF Carries
  <2>4. CASE j # k
    BY <1>4, <1>5, <2>1, <2>2, <2>4 DEF Carries
  <2> QED  BY <2>3, <2>4
<1>8. d \in Sound
  BY <1>6, <1>7 DEF Sound, Exact
<1> QED
  BY <1>4, <1>8, NewestSound DEF Stored, d, a, e

\* set keeps the index exact.
LEMMA PutSound ==
  ASSUME NEW c \in Sound, NEW k \in Keys, NEW val \in Values,
         NEW tags \in SUBSET Tags
  PROVE  Put(c, k, val, tags) \in Sound
<1> DEFINE new == Stored(c, k, val, tags)
<1>1. new \in Sound
  BY StoredSound
<1>2. Oldest(new) \in SUBSET Keys
  BY DEF Oldest, Kept
<1>3. RemoveAll(new, Oldest(new)) \in Sound
  BY <1>1, <1>2, RemoveAllSound
<1> QED  BY <1>1, <1>3 DEF Put

\* get keeps the index exact.
LEMMA LookedSound ==
  ASSUME NEW c \in Sound, NEW k \in Keys
  PROVE  Looked(c, k) \in Sound
  BY NewestSound, RemoveAllSound DEF Looked, Remove

\* The passing of time changes no entry's tags.
LEMMA ExpiredSound ==
  ASSUME NEW c \in Sound, NEW k \in Keys, Hit(c, k)
  PROVE  /\ Expired(c, k) \in Sound
         /\ \A j \in Keys : /\ Expired(c, k).data[j] = None <=> c.data[j] = None
                            /\ c.data[j] # None =>
                                 Expired(c, k).data[j].tags = c.data[j].tags
<1> DEFINE d == Expired(c, k)
           e == [c.data[k] EXCEPT !.live = FALSE]
<1>1. c.data \in [Keys -> Entry \cup {None}] /\ c \in Cache
  BY DEF Sound, Cache
<1>2. c.data[k] \in Entry
  BY <1>1 DEF Hit
<1>3. e \in Entry /\ e.tags = c.data[k].tags /\ e # None
  BY <1>2, LRUAssumption DEF LRUAssumption, Entry
<1>4. d = [c EXCEPT !.data = [c.data EXCEPT ![k] = e]]
  BY DEF Expired
<1> HIDE DEF d, e
<1>5. d \in Cache /\ d.data = [c.data EXCEPT ![k] = e] /\ d.index = c.index
  BY <1>1, <1>3, <1>4 DEF Cache
<1>6. \A j \in Keys : /\ d.data[j] = None <=> c.data[j] = None
                      /\ c.data[j] # None => d.data[j].tags = c.data[j].tags
  BY <1>1, <1>3, <1>5 DEF Hit
<1>7. \A t \in Tags, j \in Keys : Carries(d, j, t) <=> Carries(c, j, t)
  BY <1>6 DEF Carries
<1>8. d \in Sound
  BY <1>5, <1>7 DEF Sound, Exact
<1> QED  BY <1>6, <1>8 DEF d

-----------------------------------------------------------------------------
(* Types, and the exactness of the index.                                  *)

\* A coroutine that awaits a command has what its next step needs.
ReadyTask(w) ==
  /\ w.at \notin Invalidating \cup {"idle"} => w.key \in Keys
  /\ w.at \in {"backfill", "fetched", "setex", "sadd", "row"} => w.val \in Values
  /\ w.at = "smembers" => w.tag \in Tags

Ready == {w \in TaskStates : ReadyTask(w)}

CacheInv ==
  /\ TypeOK
  /\ l1 \in [Procs -> Sound]
  /\ task \in [Tasks -> Ready]

\* The states an initial step of a call, or Goes, puts a coroutine in.
LEMMA ReadyStates ==
  /\ Idle \in Ready
  /\ \A k \in Keys, tags \in SUBSET Tags :
       /\ [Idle EXCEPT !.at = "get", !.key = k, !.tags = tags] \in Ready
       /\ [Idle EXCEPT !.at = "fetch", !.key = k] \in Ready
       /\ [Idle EXCEPT !.at = "delete", !.found = {k}] \in Ready
       /\ \A val \in Values :
            [Idle EXCEPT !.at = "setex", !.key = k, !.val = val, !.tags = tags]
              \in Ready
  /\ \A g \in Tags : [Idle EXCEPT !.at = "smembers", !.tag = g] \in Ready
  BY DEF Idle, Ready, ReadyTask, TaskStates, Invalidating

\* The states a later step of a call puts a coroutine in.
LEMMA ReadyGoes ==
  ASSUME NEW w \in Ready
  PROVE  /\ w.at \in {"setex", "sadd"} => [w EXCEPT !.at = "row"] \in Ready
         /\ w.at = "setex" => [w EXCEPT !.at = "sadd"] \in Ready
         /\ w.at = "get" => [w EXCEPT !.at = "got"] \in Ready
         /\ w.at = "got" => [w EXCEPT !.at = "fetch"] \in Ready
         /\ [w EXCEPT !.at = "purge"] \in Ready
         /\ \A val \in Values \cup {None} :
              w.at = "get" => [w EXCEPT !.at = "got", !.val = val] \in Ready
         /\ \A val \in Values :
              /\ w.at = "got" => [w EXCEPT !.at = "backfill", !.val = val] \in Ready
              /\ w.at = "fetch" => [w EXCEPT !.at = "fetched", !.val = val] \in Ready
         /\ \A found \in SUBSET Keys :
              /\ [w EXCEPT !.found = found, !.at = "delete"] \in Ready
              /\ [w EXCEPT !.found = found, !.at = "purge"] \in Ready
  BY DEF Ready, ReadyTask, TaskStates, Invalidating

Rest ==
  /\ l2 \in [Keys -> Values \cup {None}]
  /\ tagidx \in [Tags -> SUBSET Keys] /\ unlisted \subseteq Keys
  /\ l3 \in [Keys -> [val : Values, tags : SUBSET Tags] \cup {None}]
  /\ origin \in [Keys -> Values]
  /\ faults \in 0..MaxFaults
  /\ quiet \in BOOLEAN

\* The invariant by variables, as the steps below establish it.
LEMMA InvParts ==
  CacheInv <=> l1 \in [Procs -> Sound] /\ task \in [Tasks -> Ready] /\ Rest
  BY DEF CacheInv, Rest, TypeOK, Sound, Ready

\* A step that starts or continues the call of one coroutine.
LEMMA TaskReady ==
  ASSUME CacheInv, NEW t \in Tasks, NEW w \in Ready,
         task' = [task EXCEPT ![t] = w]
  PROVE  task' \in [Tasks -> Ready]
  BY DEF CacheInv

\* The L1 of a coroutine's process, before and after it is replaced.
LEMMA L1Sound ==
  ASSUME CacheInv, NEW t \in Tasks
  PROVE  /\ Own(t) \in Sound
         /\ \A c \in Sound : InL1(t, c) => l1' \in [Procs -> Sound]
  BY CacheAssumption DEF CacheAssumption, CacheInv, Own, InL1

\* Empty caches and idle coroutines satisfy the invariant.
LEMMA InvInit == Init => CacheInv
<1> SUFFICES ASSUME Init PROVE CacheInv
  OBVIOUS
<1>1. 0 \in Values /\ 0 \in 0..MaxFaults
  BY CacheAssumption DEF CacheAssumption
<1> QED
  BY <1>1, EmptySound, ReadyStates, InvParts DEF Init, Rest

\* A call that begins keeps the invariant.
LEMMA CallsKeep ==
  ASSUME CacheInv, NEW t \in Tasks, NEW k \in Keys, NEW tags \in SUBSET Tags,
         get(t, k, tags) \/ set(t, k, tags) \/ refresh(t, k)
         \/ invalidate_key(t, k)
  PROVE  CacheInv'
<1>0. Own(t) \in Sound /\ origin[k] \in Values /\ Rest
  BY L1Sound, InvParts DEF Rest
<1>1. CASE get(t, k, tags)
  <2>1. l1' \in [Procs -> Sound]
    BY <1>0, <1>1, L1Sound, LookedSound DEF get
  <2>2. task' \in [Tasks -> Ready]
    BY <1>1, TaskReady, ReadyStates DEF get, CacheInv
  <2>3. Rest'
    BY <1>0, <1>1 DEF get, Calls, Rest
  <2> QED  BY <2>1, <2>2, <2>3, InvParts DEF CacheInv, Rest, TypeOK, Sound, Ready
<1>2. CASE set(t, k, tags)
  <2>1. l1' \in [Procs -> Sound]
    BY <1>0, <1>2, L1Sound, PutSound DEF set, Sets
  <2>2. task' \in [Tasks -> Ready]
    BY <1>0, <1>2, TaskReady, ReadyStates DEF set, Sets
  <2>3. Rest'
    BY <1>0, <1>2 DEF set, Calls, Rest
  <2> QED  BY <2>1, <2>2, <2>3 DEF CacheInv, Rest, TypeOK, Sound, Ready
<1>3. CASE refresh(t, k)
  <2>1. l1' \in [Procs -> Sound]
    BY <1>3 DEF refresh, CacheInv
  <2>2. task' \in [Tasks -> Ready]
    BY <1>3, TaskReady, ReadyStates DEF refresh
  <2>3. Rest'
    BY <1>0, <1>3 DEF refresh, Calls, Rest
  <2> QED  BY <2>1, <2>2, <2>3 DEF CacheInv, Rest, TypeOK, Sound, Ready
<1>4. CASE invalidate_key(t, k)
  <2>1. l1' \in [Procs -> Sound]
    BY <1>0, <1>4, L1Sound, RemoveAllSound DEF invalidate_key, Remove
  <2>2. task' \in [Tasks -> Ready]
    BY <1>4, TaskReady, ReadyStates DEF invalidate_key
  <2>3. Rest'
    BY <1>0, <1>4 DEF invalidate_key, Invalidates, Rest
  <2> QED  BY <2>1, <2>2, <2>3 DEF CacheInv, Rest, TypeOK, Sound, Ready
<1> QED  BY <1>1, <1>2, <1>3, <1>4

\* Every step of a call under way keeps the invariant.
LEMMA ContinueKeeps ==
  ASSUME CacheInv, NEW t \in Tasks, Continue(t)
  PROVE  CacheInv'
<1> DEFINE w == task[t]
<1>0. /\ w \in Ready /\ Rest /\ Own(t) \in Sound
      /\ l1 \in [Procs -> Sound] /\ task \in [Tasks -> Ready]
  BY L1Sound, InvParts
<1>a. w.tags \in SUBSET Tags /\ w.val \in Values \cup {None}
      /\ w.found \in SUBSET Keys
  BY <1>0 DEF Ready, TaskStates
<1>b. w.at \notin Invalidating \cup {"idle"} => w.key \in Keys
  BY <1>0 DEF Ready, ReadyTask
<1>c. w.at \in {"backfill", "fetched", "setex", "sadd", "row"} => w.val \in Values
  BY <1>0 DEF Ready, ReadyTask
<1>d. w.at = "smembers" => w.tag \in Tags
  BY <1>0 DEF Ready, ReadyTask
<1>e. /\ \A k \in Keys : l2[k] \in Values \cup {None} /\ origin[k] \in Values
      /\ \A k \in Keys : l3[k] # None => l3[k].val \in Values
  BY <1>0 DEF Rest
<1>f. \A g \in Tags : tagidx[g] \in SUBSET Keys
  BY <1>0 DEF Rest
<1>1. CASE RedisGet(t)
  <2>0. w.key \in Keys
    BY <1>1, <1>b, <1>c DEF RedisGet, At, Invalidating
  <2>1. l1' \in [Procs -> Sound]
    BY <1>1, <1>0 DEF RedisGet
  <2>2. task' \in [Tasks -> Ready]
    BY <1>1, <1>0, <1>e, <2>0, ReadyGoes, TaskReady DEF RedisGet, At
  <2>3. Rest'
    BY <1>1, <1>0 DEF RedisGet, Rest
  <2> QED  BY <2>1, <2>2, <2>3 DEF CacheInv, Rest, TypeOK, Sound, Ready
<1>2. CASE L2Hit(t)
  <2>0. w.key \in Keys
    BY <1>2, <1>b, <1>c DEF L2Hit, At, Invalidating
  <2>1. l1' \in [Procs -> Sound]
    BY <1>2, <1>a, <1>0, <2>0, PutSound, L1Sound DEF L2Hit
  <2>2. task' \in [Tasks -> Ready]
    BY <1>2, ReadyStates, TaskReady DEF L2Hit, Ends
  <2>3. Rest'
    BY <1>2, <1>0 DEF L2Hit, Rest
  <2> QED  BY <2>1, <2>2, <2>3 DEF CacheInv, Rest, TypeOK, Sound, Ready
<1>3. CASE L3Hit(t)
  <2>0. w.key \in Keys
    BY <1>3, <1>b, <1>c DEF L3Hit, At, Invalidating
  <2>1. l1' \in [Procs -> Sound]
    BY <1>3, <1>a, <1>0, <1>e, <2>0, PutSound, L1Sound DEF L3Hit
  <2>2. task' \in [Tasks -> Ready]
    BY <1>3, <1>0, <1>e, <2>0, ReadyGoes, TaskReady DEF L3Hit, At
  <2>3. Rest'
    BY <1>3, <1>0 DEF L3Hit, Rest
  <2> QED  BY <2>1, <2>2, <2>3 DEF CacheInv, Rest, TypeOK, Sound, Ready
<1>4. CASE Backfill(t)
  <2>0. w.key \in Keys /\ w.val \in Values
    BY <1>4, <1>b, <1>c DEF Backfill, At, Invalidating
  <2>1. l1' \in [Procs -> Sound]
    BY <1>4, <1>0 DEF Backfill
  <2>2. task' \in [Tasks -> Ready]
    BY <1>4, ReadyStates, TaskReady DEF Backfill, Ends
  <2>3. Rest'
    BY <1>4, <1>0, <2>0 DEF Backfill, Rest
  <2> QED  BY <2>1, <2>2, <2>3 DEF CacheInv, Rest, TypeOK, Sound, Ready
<1>5. CASE Miss(t)
  <2>1. l1' \in [Procs -> Sound]
    BY <1>5, <1>0 DEF Miss
  <2>2. task' \in [Tasks -> Ready]
    BY <1>5, <1>0, ReadyStates, ReadyGoes, TaskReady DEF Miss, Missed, Ends, Goes, At
  <2>3. Rest'
    BY <1>5, <1>0 DEF Miss, Rest
  <2> QED  BY <2>1, <2>2, <2>3 DEF CacheInv, Rest, TypeOK, Sound, Ready
<1>6. CASE Fetch(t)
  <2>0. w.key \in Keys
    BY <1>6, <1>b, <1>c DEF Fetch, At, Invalidating
  <2>1. l1' \in [Procs -> Sound]
    BY <1>6, <1>0 DEF Fetch
  <2>2. task' \in [Tasks -> Ready]
    <3>1. CASE Ends(t)
      BY <3>1, ReadyStates, TaskReady DEF Ends
    <3>2. CASE task' = [task EXCEPT ![t].at = "fetched",
                                    ![t].val = origin[task[t].key]]
      <4> DEFINE v == [w EXCEPT !.at = "fetched", !.val = origin[w.key]]
      <4>1. w.at = "fetch" /\ origin[w.key] \in Values
        BY <1>6, <1>e, <2>0 DEF Fetch, At
      <4>2. v \in Ready
        BY <1>0, <4>1, ReadyGoes
      <4>3. task' = [task EXCEPT ![t] = v]
        BY <1>0, <3>2
      <4> HIDE DEF v
      <4> QED  BY <4>2, <4>3, TaskReady
    <3> QED  BY <1>6, <3>1, <3>2 DEF Fetch
  <2>3. Rest'
    BY <1>6, <1>0 DEF Fetch, Rest
  <2> QED  BY <2>1, <2>2, <2>3 DEF CacheInv, Rest, TypeOK, Sound, Ready
<1>7. CASE Store(t)
  <2>0. w.key \in Keys /\ w.val \in Values
    BY <1>7, <1>b, <1>c DEF Store, At, Invalidating
  <2>1. l1' \in [Procs -> Sound]
    BY <1>7, <1>a, <1>0, <2>0, PutSound, L1Sound DEF Store, Sets
  <2>2. task' \in [Tasks -> Ready]
    BY <1>7, <1>a, <2>0, ReadyStates, TaskReady DEF Store, Sets
  <2>3. Rest'
    BY <1>7, <1>0 DEF Store, Rest
  <2> QED  BY <2>1, <2>2, <2>3 DEF CacheInv, Rest, TypeOK, Sound, Ready
<1>8. CASE Setex(t)
  <2>0. w.key \in Keys /\ w.val \in Values
    BY <1>8, <1>b, <1>c DEF Setex, At, Invalidating
  <2>1. l1' \in [Procs -> Sound]
    BY <1>8, <1>0 DEF Setex
  <2>2. task' \in [Tasks -> Ready]
    BY <1>8, <1>0, ReadyGoes, TaskReady DEF Setex, Goes, At
  <2>3. Rest'
    BY <1>8, <1>0, <2>0 DEF Setex, Rest
  <2> QED  BY <2>1, <2>2, <2>3 DEF CacheInv, Rest, TypeOK, Sound, Ready
<1>9. CASE Sadd(t)
  <2>0. w.key \in Keys
    BY <1>9, <1>b, <1>c DEF Sadd, At, Invalidating
  <2>1. l1' \in [Procs -> Sound]
    BY <1>9, <1>0 DEF Sadd
  <2>2. task' \in [Tasks -> Ready]
    BY <1>9, <1>0, ReadyGoes, TaskReady DEF Sadd, Goes, At
  <2>3. Rest'
    BY <1>9, <1>0, <2>0 DEF Sadd, Rest
  <2> QED  BY <2>1, <2>2, <2>3 DEF CacheInv, Rest, TypeOK, Sound, Ready
<1>10. CASE WriteRow(t)
  <2>0. w.key \in Keys /\ w.val \in Values
    BY <1>10, <1>b, <1>c DEF WriteRow, At, Invalidating
  <2>1. l1' \in [Procs -> Sound]
    BY <1>10, <1>0 DEF WriteRow
  <2>2. task' \in [Tasks -> Ready]
    BY <1>10, ReadyStates, TaskReady DEF WriteRow, Ends
  <2>3. Rest'
    BY <1>10, <1>0, <1>a, <2>0 DEF WriteRow, Rest
  <2> QED  BY <2>1, <2>2, <2>3 DEF CacheInv, Rest, TypeOK, Sound, Ready
<1>11. CASE Smembers(t)
  <2>0. w.tag \in Tags
    BY <1>11, <1>d DEF Smembers, At
  <2>1. l1' \in [Procs -> Sound]
    BY <1>11, <1>0 DEF Smembers
  <2>2. task' \in [Tasks -> Ready]
    BY <1>11, <1>0, <1>f, <2>0, ReadyGoes, TaskReady DEF Smembers
  <2>3. Rest'
    BY <1>11, <1>0 DEF Smembers, Rest
  <2> QED  BY <2>1, <2>2, <2>3 DEF CacheInv, Rest, TypeOK, Sound, Ready
<1>12. CASE Delete(t)
  <2>1. l1' \in [Procs -> Sound]
    BY <1>12, <1>0 DEF Delete
  <2>2. task' \in [Tasks -> Ready]
    BY <1>12, <1>0, ReadyGoes, TaskReady DEF Delete, Goes
  <2>3. Rest'
    BY <1>12, <1>0 DEF Delete, Rest
  <2> QED  BY <2>1, <2>2, <2>3 DEF CacheInv, Rest, TypeOK, Sound, Ready
<1>13. CASE Purge(t)
  <2>1. l1' \in [Procs -> Sound]
    BY <1>13, <1>0 DEF Purge
  <2>2. task' \in [Tasks -> Ready]
    BY <1>13, ReadyStates, TaskReady DEF Purge, Ends
  <2>3. Rest'
    BY <1>13, <1>0 DEF Purge, Rest
  <2> QED  BY <2>1, <2>2, <2>3 DEF CacheInv, Rest, TypeOK, Sound, Ready
<1> QED
  BY <1>1, <1>2, <1>3, <1>4, <1>5, <1>6, <1>7, <1>8, <1>9, <1>10, <1>11,
     <1>12, <1>13 DEF Continue

\* Failed commands, cancelled coroutines and restarts keep the invariant.
LEMMA FaultKeeps ==
  ASSUME CacheInv,
         (\E t \in Tasks : RedisFails(t) \/ PostgresFails(t) \/ Cancelled(t))
         \/ (\E p \in Procs : Restart(p))
  PROVE  CacheInv'
<1>0. Rest /\ l1 \in [Procs -> Sound] /\ task \in [Tasks -> Ready]
  BY InvParts
<1>1. ASSUME Fault PROVE faults' \in 0..MaxFaults /\ quiet' \in BOOLEAN
  <2>1. faults \in 0..MaxFaults /\ MaxFaults \in Nat
    BY <1>0, CacheAssumption DEF Rest, CacheAssumption
  <2>2. faults < MaxFaults /\ faults' = faults + 1
    BY <1>1 DEF Fault
  <2>3. faults' \in 0..MaxFaults
    BY <2>1, <2>2
  <2>4. quiet' \in BOOLEAN
    BY <1>1 DEF Fault
  <2> QED  BY <2>3, <2>4
<1>2. ASSUME NEW t \in Tasks, RedisFails(t) PROVE CacheInv'
  <2>1. l1' \in [Procs -> Sound]
    BY <1>0, <1>2 DEF RedisFails
  <2>2. task' \in [Tasks -> Ready]
    BY <1>0, <1>2, ReadyStates, ReadyGoes, TaskReady DEF RedisFails, Goes, Ends, At
  <2>3. l2' \in [Keys -> Values \cup {None}]
    <3>1. At(t, "setex") => task[t].key \in Keys /\ task[t].val \in Values
      BY <1>0 DEF Ready, ReadyTask, At, Invalidating
    <3> QED  BY <1>0, <1>2, <3>1 DEF RedisFails, Rest
  <2>4. Rest'
    BY <1>0, <1>1, <1>2, <2>3 DEF RedisFails, Rest
  <2> QED  BY <2>1, <2>2, <2>4 DEF CacheInv, Rest, TypeOK, Sound, Ready
<1>3. ASSUME NEW t \in Tasks, PostgresFails(t) \/ Cancelled(t) PROVE CacheInv'
  <2>1. l1' \in [Procs -> Sound]
    BY <1>0, <1>3 DEF PostgresFails, Cancelled
  <2>2. task' \in [Tasks -> Ready]
    BY <1>0, <1>3, ReadyStates, ReadyGoes, TaskReady
       DEF PostgresFails, Cancelled, Missed, Goes, Ends, At
  <2>3. Rest'
    BY <1>0, <1>1, <1>3 DEF PostgresFails, Cancelled, Rest
  <2> QED  BY <2>1, <2>2, <2>3 DEF CacheInv, Rest, TypeOK, Sound, Ready
<1>4. ASSUME NEW p \in Procs, Restart(p) PROVE CacheInv'
  <2>1. l1' \in [Procs -> Sound]
    BY <1>0, <1>4, EmptySound DEF Restart
  <2>2. task' \in [Tasks -> Ready]
    BY <1>0, <1>4, ReadyStates DEF Restart
  <2>3. Rest'
    BY <1>0, <1>1, <1>4 DEF Restart, Rest
  <2> QED  BY <2>1, <2>2, <2>3 DEF CacheInv, Rest, TypeOK, Sound, Ready
<1> QED  BY <1>2, <1>3, <1>4

\* Expiry and changes of the origin keep the invariant.
LEMMA TimeKeeps ==
  ASSUME CacheInv, NEW k \in Keys,
         ExpireL2(k) \/ ExpireL3(k) \/ Update(k)
         \/ \E p \in Procs : ExpireL1(p, k)
  PROVE  CacheInv'
<1>0. Rest /\ l1 \in [Procs -> Sound] /\ task \in [Tasks -> Ready]
  BY InvParts
<1>1. CASE ExpireL2(k) \/ ExpireL3(k)
  <2>1. l1' \in [Procs -> Sound] /\ task' \in [Tasks -> Ready]
    BY <1>0, <1>1 DEF ExpireL2, ExpireL3
  <2>2. Rest'
    BY <1>0, <1>1 DEF ExpireL2, ExpireL3, Rest
  <2> QED  BY <2>1, <2>2 DEF CacheInv, Rest, TypeOK, Sound, Ready
<1>2. CASE Update(k)
  <2>1. l1' \in [Procs -> Sound] /\ task' \in [Tasks -> Ready]
    BY <1>0, <1>2 DEF Update
  <2>2. origin[k] + 1 \in Values
    BY <1>0, <1>2, CacheAssumption DEF Update, Rest, CacheAssumption
  <2>3. Rest'
    BY <1>0, <1>2, <2>2 DEF Update, Rest
  <2> QED  BY <2>1, <2>3 DEF CacheInv, Rest, TypeOK, Sound, Ready
<1>3. ASSUME NEW p \in Procs, ExpireL1(p, k) PROVE CacheInv'
  <2>1. l1' \in [Procs -> Sound]
    BY <1>0, <1>3, ExpiredSound DEF ExpireL1
  <2>2. task' \in [Tasks -> Ready] /\ Rest'
    BY <1>0, <1>3 DEF ExpireL1, Rest
  <2> QED  BY <2>1, <2>2 DEF CacheInv, Rest, TypeOK, Sound, Ready
<1> QED  BY <1>1, <1>2, <1>3

\* A tag's set that Redis drops is a set of fewer keys.
LEMMA EvictKeeps ==
  ASSUME CacheInv, NEW g \in Tags, EvictTag(g)
  PROVE  CacheInv'
<1>0. Rest /\ l1 \in [Procs -> Sound] /\ task \in [Tasks -> Ready]
  BY InvParts
<1>1. l1' \in [Procs -> Sound] /\ task' \in [Tasks -> Ready]
  BY <1>0 DEF EvictTag
<1>2. Rest'
  BY <1>0 DEF EvictTag, Rest
<1> QED  BY <1>1, <1>2 DEF CacheInv, Rest, TypeOK, Sound, Ready

\* An invalidation by tag that begins keeps the invariant.
LEMMA TagKeeps ==
  ASSUME CacheInv, NEW t \in Tasks, NEW g \in Tags, invalidate_tag(t, g)
  PROVE  CacheInv'
<1>0. Own(t) \in Sound /\ Own(t).index[g] \in SUBSET Keys /\ Rest
  BY L1Sound, InvParts DEF Sound, Cache
<1>1. l1' \in [Procs -> Sound]
  BY <1>0, L1Sound, RemoveAllSound DEF invalidate_tag, RemoveTag
<1>2. task' \in [Tasks -> Ready]
  BY TaskReady, ReadyStates DEF invalidate_tag
<1>3. Rest'
  BY <1>0 DEF invalidate_tag, Invalidates, Rest
<1> QED  BY <1>1, <1>2, <1>3 DEF CacheInv, Rest, TypeOK, Sound, Ready

\* The invariant is inductive.
LEMMA InvStep == CacheInv /\ [Next]_vars => CacheInv'
<1> SUFFICES ASSUME CacheInv, [Next]_vars PROVE CacheInv'
  OBVIOUS
<1>1. CASE UNCHANGED vars
  BY <1>1 DEF vars, CacheInv, TypeOK
<1>2. \A k \in Keys : TagsOf[k] \in SUBSET Tags
  BY CacheAssumption DEF CacheAssumption
<1> QED  BY <1>1, <1>2, CallsKeep, ContinueKeeps, FaultKeeps, TimeKeeps, EvictKeeps,
         TagKeeps
         DEF Next

(* CacheInv holds in every reachable state.                                *)
LEMMA AlwaysCacheInv == Spec => []CacheInv
  BY InvInit, InvStep, PTL DEF Spec

(* The tiers, the tag indexes and the calls under way keep their types     *)
(* (get, set, invalidate, warm, the refresh loop and the faults of Redis). *)
THEOREM CacheTyped == Spec => []TypeOK
<1>1. CacheInv => TypeOK BY DEF CacheInv
<1>2. QED BY <1>1, AlwaysCacheInv, PTL

(* The tag index of each process lists exactly the entries that carry the  *)
(* tag, so that invalidate_tag of its L1 misses none (LRUCache).           *)
THEOREM IndexStaysExact == Spec => []IndexExact
<1>1. CacheInv => IndexExact BY DEF CacheInv, IndexExact, Sound
<1>2. QED BY <1>1, AlwaysCacheInv, PTL

-----------------------------------------------------------------------------
(* What an undisturbed invalidation removes.                               *)


\* As long as all is quiet, entries, rows and stores under way have exactly
\* the tags of their key.
L1Tags ==
  \A p \in Procs, k \in Keys :
    l1[p].data[k] # None => l1[p].data[k].tags = TagsOf[k]
RowTags == \A k \in Keys : l3[k] # None => l3[k].tags = TagsOf[k]
TaskTags ==
  \A t \in Tasks : task[t].at \notin Invalidating \cup {"idle"} =>
                     task[t].tags = TagsOf[task[t].key]

\* A key that has, or will have, a copy in Redis is in the sets of its tags,
\* unless it is about to be added to them or its row is about to go, or Redis
\* has dropped one of the sets.
ListedL2(k, g) ==
  l2[k] # None => k \in tagidx[g]
                  \/ \E t \in Tasks : At(t, "sadd") /\ task[t].key = k
ListedL3(k, g) ==
  l3[k] # None => k \in tagidx[g]
                  \/ \E t \in Tasks : At(t, "purge") /\ task[t].tag = g
ListedTask(t, k, g) ==
  task[t].at \in {"row", "backfill"} /\ task[t].key = k => k \in tagidx[g]
Listed ==
  \A k \in Keys \ unlisted : \A g \in TagsOf[k] :
    ListedL2(k, g) /\ ListedL3(k, g) /\ \A t \in Tasks : ListedTask(t, k, g)

\* An invalidation is alone, and has removed what it has passed.
Passed(t, k) ==
  /\ Own(t).data[k] = None
  /\ At(t, "delete") /\ l2[k] # None => k \in task[t].found \/ Hidden(t, k)
  /\ At(t, "purge") => l2[k] = None \/ Hidden(t, k)
Alone(t) == \A s \in Tasks \ {t} : At(s, "idle")
Progress ==
  \A t \in Tasks : task[t].at \in Invalidating =>
    Alone(t) /\ \A k \in Keys : Concerns(t, k) => Passed(t, k)

QuietParts == L1Tags /\ RowTags /\ TaskTags /\ Listed /\ Progress
QuietInv == quiet => QuietParts

-----------------------------------------------------------------------------
(* What the methods of LRUCache leave of the entries.                      *)

\* set leaves a key nothing, its old entry, or the new one with the new tags.
LEMMA PutData ==
  ASSUME NEW c \in Sound, NEW k \in Keys, NEW val \in Values,
         NEW tags \in SUBSET Tags, NEW j \in Keys
  PROVE  LET d == Put(c, k, val, tags)
         IN  d.data[j] # None =>
               IF j = k THEN d.data[j].tags = tags ELSE d.data[j] = c.data[j]
<1> DEFINE new == Stored(c, k, val, tags)
           e == [val |-> val, tags |-> tags, live |-> TRUE]
           a == Remove(c, k)
           gone == Oldest(new)
<1>1. new \in Sound /\ new.data = [a.data EXCEPT ![k] = e]
  BY StoredSound
<1>2. a \in Sound /\ \A i \in Keys : a.data[i] = IF i = k THEN None ELSE c.data[i]
  BY RemoveAllSound DEF Remove
<1>3. a.data \in [Keys -> Entry \cup {None}] /\ e.tags = tags
  BY <1>2 DEF Sound, Cache
<1>5. gone \in SUBSET Keys
  BY DEF Oldest, Kept
<1>7. Put(c, k, val, tags) \in {new, RemoveAll(new, gone)}
  BY DEF Put
<1> HIDE DEF e, a, new, gone
<1>4. new.data[j] = IF j = k THEN e ELSE c.data[j]
  BY <1>1, <1>2, <1>3
<1>6. RemoveAll(new, gone).data[j] \in {None, new.data[j]}
  <2>1. new \in Sound BY <1>1
  <2>2. RemoveAll(new, gone).data[j] = IF j \in gone THEN None ELSE new.data[j]
    BY <1>5, <2>1, RemoveAllSound
  <2>3. QED BY <2>2
<1>8. Put(c, k, val, tags).data[j] \in {None, new.data[j]}
  BY <1>6, <1>7
<1> QED  BY <1>3, <1>4, <1>8

\* get leaves every entry as it was or removes it.
LEMMA LookedData ==
  ASSUME NEW c \in Sound, NEW k \in Keys, NEW j \in Keys
  PROVE  /\ Looked(c, k).data[j] \in {None, c.data[j]}
         /\ Hit(c, k) => Looked(c, k).data[j] = c.data[j]
  BY NewestSound, RemoveAllSound DEF Looked, Remove

-----------------------------------------------------------------------------
(* The calls that store.                                                   *)

\* A step that leaves every entry of L1 with the tags of its key.
LEMMA PutTags ==
  ASSUME CacheInv, L1Tags, NEW t \in Tasks, NEW k \in Keys, NEW val \in Values,
         InL1(t, Put(Own(t), k, val, TagsOf[k]))
  PROVE  L1Tags'
<1>0. /\ l1 \in [Procs -> Sound] /\ Own(t) \in Sound /\ ProcOf[t] \in Procs
      /\ TagsOf[k] \in SUBSET Tags
  BY L1Sound, CacheAssumption DEF CacheInv, CacheAssumption
<1> SUFFICES ASSUME NEW p \in Procs, NEW j \in Keys, l1'[p].data[j] # None
             PROVE  l1'[p].data[j].tags = TagsOf[j]
  BY DEF L1Tags
<1>1. CASE p # ProcOf[t]
  BY <1>0, <1>1 DEF InL1, L1Tags
<1>2. CASE p = ProcOf[t]
  <2>1. l1'[p] = Put(Own(t), k, val, TagsOf[k])
    BY <1>0, <1>2 DEF InL1
  <2>2. IF j = k THEN l1'[p].data[j].tags = TagsOf[k]
        ELSE l1'[p].data[j] = Own(t).data[j]
    BY <1>0, <2>1, PutData
  <2> QED  BY <1>0, <1>2, <2>2 DEF L1Tags, Own
<1> QED  BY <1>1, <1>2

\* A coroutine goes on to w, inside no invalidation: what remains to be shown
\* of the sets of the tags.
StayListed(t, w) ==
  \A k \in Keys \ unlisted' : \A g \in TagsOf[k] :
    /\ k \in tagidx[g] \cup unlisted => k \in tagidx'[g]
    /\ l2'[k] # None => \/ l2[k] # None /\ (At(t, "sadd") => task[t].key # k)
                        \/ k \in tagidx'[g]
                        \/ w.at = "sadd" /\ w.key = k
    /\ l3'[k] # None => l3[k] # None \/ k \in tagidx'[g]
    /\ w.at \in {"row", "backfill"} /\ w.key = k => k \in tagidx'[g]

\* As many keys of Redis are listed as before, if the coroutine's own is.
LEMMA ListedStep ==
  ASSUME CacheInv, Listed, NEW t \in Tasks, NEW w \in Ready,
         task' = [task EXCEPT ![t] = w],
         \A s \in Tasks : task[s].at \notin Invalidating,
         StayListed(t, w)
  PROVE  Listed'
<1>0. task \in [Tasks -> Ready]
  BY DEF CacheInv
<1> SUFFICES ASSUME NEW k \in Keys \ unlisted', NEW g \in TagsOf[k],
                    k \notin tagidx'[g]
             PROVE  /\ ListedL2(k, g)' /\ ListedL3(k, g)'
                    /\ \A s \in Tasks : ListedTask(s, k, g)'
  BY DEF Listed, ListedL2, ListedL3, ListedTask
<1>1. /\ ListedL2(k, g) /\ ListedL3(k, g)
      /\ \A s \in Tasks : ListedTask(s, k, g)
  BY DEF Listed, StayListed
<1>2. l3[k] # None => k \in tagidx[g]
  BY <1>1 DEF ListedL3, At, Invalidating
<1>3. ListedL3(k, g)'
  BY <1>2 DEF ListedL3, StayListed
<1>4. ASSUME NEW s \in Tasks PROVE ListedTask(s, k, g)'
  BY <1>0, <1>1 DEF ListedTask, StayListed
<1>5. ListedL2(k, g)'
  <2> SUFFICES ASSUME l2'[k] # None, k \notin tagidx'[g]
               PROVE  \E s \in Tasks : At(s, "sadd")' /\ task'[s].key = k
    BY DEF ListedL2
  <2>0. (w.at = "sadd" /\ w.key = k)
        \/ (l2[k] # None /\ (At(t, "sadd") => task[t].key # k))
    BY DEF StayListed
  <2>1. CASE w.at = "sadd" /\ w.key = k
    BY <1>0, <2>1 DEF At
  <2>2. CASE l2[k] # None /\ (At(t, "sadd") => task[t].key # k)
    <3>1. PICK s \in Tasks : At(s, "sadd") /\ task[s].key = k
      BY <1>1, <2>2 DEF ListedL2, StayListed
    <3>2. s # t /\ task'[s] = task[s]
      BY <1>0, <2>2, <3>1 DEF At
    <3> QED  BY <3>1, <3>2 DEF At
  <2> QED  BY <2>0, <2>1, <2>2
<1> QED  BY <1>3, <1>4, <1>5

\* The other parts that speak of coroutines.
LEMMA TasksStep ==
  ASSUME CacheInv, TaskTags, NEW t \in Tasks, NEW w \in Ready,
         task' = [task EXCEPT ![t] = w],
         \A s \in Tasks : task[s].at \notin Invalidating,
         w.at \notin Invalidating,
         w.at # "idle" => w.tags = TagsOf[w.key]
  PROVE  TaskTags' /\ Progress'
<1>0. task \in [Tasks -> Ready]
  BY DEF CacheInv
<1>1. TaskTags'
  BY <1>0 DEF TaskTags
<1>2. Progress'
  BY <1>0 DEF Progress
<1> QED  BY <1>1, <1>2

\* Every step of a get, set or refresh under way keeps what is quiet quiet.
LEMMA QuietStore ==
  ASSUME CacheInv, QuietParts, NEW t \in Tasks, Continue(t),
         task[t].at \notin Invalidating
  PROVE  QuietParts'
<1> DEFINE w == task[t]
<1>0. /\ w \in Ready /\ Rest /\ Own(t) \in Sound
      /\ l1 \in [Procs -> Sound] /\ task \in [Tasks -> Ready]
      /\ L1Tags /\ RowTags /\ TaskTags /\ Listed /\ Progress
  BY L1Sound, InvParts DEF QuietParts
<1>1. w.at \notin Invalidating \cup {"idle"}
  BY DEF Continue, RedisGet, L2Hit, L3Hit, Backfill, Miss, Fetch, Store, Setex,
         Sadd, WriteRow, Smembers, Delete, Purge, At
<1>2. /\ w.key \in Keys /\ w.tags \in SUBSET Tags /\ w.tags = TagsOf[w.key]
      /\ w.val \in Values \cup {None}
  BY <1>0, <1>1 DEF Ready, ReadyTask, TaskStates, TaskTags
<1>3. \A s \in Tasks : task[s].at \notin Invalidating
  BY <1>0, <1>1 DEF Progress, Alone, At
<1>4. \A k \in Keys : TagsOf[k] \in SUBSET Tags
  BY CacheAssumption DEF CacheAssumption
<1>5. /\ w.at \in {"backfill", "fetched", "setex", "sadd", "row"} => w.val \in Values
      /\ l3[w.key] # None => l3[w.key].val \in Values
  BY <1>0, <1>2 DEF Ready, ReadyTask, Rest
<1>6. \A k \in Keys \ unlisted : \A g \in TagsOf[k] :
        /\ l3[k] # None => k \in tagidx[g]
        /\ w.at \in {"row", "backfill"} /\ w.key = k => k \in tagidx[g]
  BY <1>0, <1>3 DEF Listed, ListedL3, ListedTask, At, Invalidating
<1>i. Idle \in Ready /\ Idle.at = "idle"
  BY ReadyStates DEF Idle
<1> DEFINE Follows(v) ==
             /\ task' = [task EXCEPT ![t] = v]
             /\ v.at \notin Invalidating
             /\ v.at # "idle" => v.key = w.key /\ v.tags = w.tags
             /\ StayListed(t, v)
           Sent(at) == [w EXCEPT !.at = at]
           Told(at, val) == [w EXCEPT !.at = at, !.val = val]
<1>f. ASSUME NEW v \in Ready, Follows(v), L1Tags', RowTags' PROVE QuietParts'
  <2>1. v.at # "idle" => v.tags = TagsOf[v.key]
    BY <1>2, <1>f
  <2>2. TaskTags' /\ Progress' /\ Listed'
    BY <1>0, <1>3, <1>f, <2>1, TasksStep, ListedStep
  <2> QED  BY <1>f, <2>2 DEF QuietParts
<1>j. \A at \in {"got", "fetch", "sadd", "row"} :
        Sent(at).at = at /\ Sent(at).key = w.key /\ Sent(at).tags = w.tags
  BY <1>0 DEF Ready, TaskStates
<1>k. \A at \in {"got", "fetched", "backfill"}, val \in Values \cup {None} :
        /\ Told(at, val).at = at
        /\ Told(at, val).key = w.key /\ Told(at, val).tags = w.tags
  BY <1>0 DEF Ready, TaskStates
<1>7. CASE RedisGet(t)
  <2> DEFINE v == Told("got", l2[w.key])
  <2>1. task' = [task EXCEPT ![t] = v] /\ v \in Ready
    BY <1>0, <1>2, <1>7, ReadyGoes DEF RedisGet, At, Rest
  <2>2. v.at = "got" /\ v.key = w.key /\ v.tags = w.tags
    BY <1>0, <1>2, <1>k DEF Rest
  <2>3. UNCHANGED <<l1, l2, tagidx, unlisted, l3>> /\ ~At(t, "sadd")
    BY <1>7 DEF RedisGet, At
  <2> HIDE DEF v
  <2>4. StayListed(t, v)
    BY <2>2, <2>3 DEF StayListed
  <2>5. Follows(v)
    BY <2>1, <2>2, <2>4 DEF Invalidating
  <2>6. L1Tags' /\ RowTags'
    BY <1>0, <2>3 DEF L1Tags, RowTags
  <2> QED  BY <1>f, <2>1, <2>5, <2>6
<1>8. CASE L2Hit(t)
  <2>1. task' = [task EXCEPT ![t] = Idle] /\ ~At(t, "sadd")
        /\ UNCHANGED <<l2, tagidx, unlisted, l3>>
    BY <1>8 DEF L2Hit, Ends, At
  <2>2. StayListed(t, Idle)
    BY <1>i, <2>1 DEF StayListed
  <2>3. L1Tags'
    BY <1>0, <1>2, <1>8, PutTags DEF L2Hit
  <2>4. RowTags' /\ Follows(Idle)
    BY <1>0, <1>i, <2>1, <2>2 DEF RowTags, Invalidating
  <2> QED  BY <1>f, <1>i, <2>3, <2>4
<1>9. CASE L3Hit(t)
  <2> DEFINE val == l3[w.key].val
             v == Told("backfill", val)
  <2>0. val \in Values /\ At(t, "got") /\ l3[w.key] # None
    BY <1>5, <1>9 DEF L3Hit
  <2>1. task' = [task EXCEPT ![t] = v] /\ v \in Ready
    BY <1>0, <1>9, <2>0, ReadyGoes DEF L3Hit, At
  <2>2. v.at = "backfill" /\ v.key = w.key /\ v.tags = w.tags
    BY <1>k, <2>0
  <2>3. UNCHANGED <<l2, tagidx, unlisted, l3>> /\ ~At(t, "sadd")
    BY <1>9 DEF L3Hit, At
  <2> HIDE DEF v, val
  <2>4. StayListed(t, v)
    BY <1>6, <2>0, <2>2, <2>3 DEF StayListed
  <2>5. Follows(v)
    BY <2>1, <2>2, <2>4 DEF Invalidating
  <2>6. L1Tags'
    BY <1>0, <1>2, <1>9, <2>0, PutTags DEF L3Hit, val
  <2>7. RowTags'
    BY <1>0, <2>3 DEF RowTags
  <2> QED  BY <1>f, <2>1, <2>5, <2>6, <2>7
<1>10. CASE Backfill(t)
  <2>1. task' = [task EXCEPT ![t] = Idle] /\ At(t, "backfill")
        /\ l2' = [l2 EXCEPT ![w.key] = w.val] /\ UNCHANGED <<l1, tagidx, unlisted, l3>>
    BY <1>10 DEF Backfill, Ends
  <2>2. StayListed(t, Idle)
    BY <1>0, <1>6, <1>i, <2>1 DEF StayListed, At, Rest
  <2>3. L1Tags' /\ RowTags' /\ Follows(Idle)
    BY <1>0, <1>i, <2>1, <2>2 DEF L1Tags, RowTags, Invalidating
  <2> QED  BY <1>f, <1>i, <2>3
<1>11. CASE Miss(t)
  <2>1. \/ task' = [task EXCEPT ![t] = Idle]
        \/ task' = [task EXCEPT ![t] = Sent("fetch")] /\ Sent("fetch") \in Ready
    BY <1>0, <1>11, ReadyGoes DEF Miss, Missed, Ends, Goes, At
  <2>2. UNCHANGED <<l1, l2, tagidx, unlisted, l3>> /\ ~At(t, "sadd")
    BY <1>11 DEF Miss, At
  <2>3. StayListed(t, Idle) /\ StayListed(t, Sent("fetch"))
    BY <1>i, <1>j, <2>2 DEF StayListed
  <2>4. \E v \in Ready : Follows(v)
    BY <1>i, <1>j, <2>1, <2>3 DEF Invalidating
  <2>5. L1Tags' /\ RowTags'
    BY <1>0, <2>2 DEF L1Tags, RowTags
  <2> QED  BY <1>f, <2>4, <2>5
<1>12. CASE Fetch(t)
  <2> DEFINE v == Told("fetched", origin[w.key])
  <2>0. origin[w.key] \in Values
    BY <1>0, <1>2 DEF Rest
  <2>1. \/ task' = [task EXCEPT ![t] = v] /\ v \in Ready
        \/ task' = [task EXCEPT ![t] = Idle]
    BY <1>0, <1>12, <2>0, ReadyGoes DEF Fetch, Ends, At
  <2>2. v.at = "fetched" /\ v.key = w.key /\ v.tags = w.tags
    BY <1>k, <2>0
  <2>3. UNCHANGED <<l1, l2, tagidx, unlisted, l3>> /\ ~At(t, "sadd")
    BY <1>12 DEF Fetch, At
  <2> HIDE DEF v
  <2>4. StayListed(t, v) /\ StayListed(t, Idle)
    BY <1>i, <2>2, <2>3 DEF StayListed
  <2>5. \E u \in Ready : Follows(u)
    BY <1>i, <2>1, <2>2, <2>4 DEF Invalidating
  <2>6. L1Tags' /\ RowTags'
    BY <1>0, <2>3 DEF L1Tags, RowTags
  <2> QED  BY <1>f, <2>5, <2>6
<1>13. CASE Store(t)
  <2> DEFINE v == [Idle EXCEPT !.at = "setex", !.key = w.key, !.val = w.val,
                               !.tags = w.tags]
  <2>0. w.val \in Values
    BY <1>5, <1>13 DEF Store, At
  <2>1. task' = [task EXCEPT ![t] = v] /\ v \in Ready
    BY <1>2, <1>13, <2>0, ReadyStates DEF Store, Sets
  <2>2. v.at = "setex" /\ v.key = w.key /\ v.tags = w.tags
    BY DEF Idle
  <2>3. UNCHANGED <<l2, tagidx, unlisted, l3>> /\ ~At(t, "sadd")
    BY <1>13 DEF Store, At
  <2> HIDE DEF v
  <2>4. StayListed(t, v)
    BY <2>2, <2>3 DEF StayListed
  <2>5. Follows(v)
    BY <2>1, <2>2, <2>4 DEF Invalidating
  <2>6. L1Tags'
    BY <1>0, <1>2, <1>13, <2>0, PutTags DEF Store, Sets
  <2>7. RowTags'
    BY <1>0, <2>3 DEF RowTags
  <2> QED  BY <1>f, <2>1, <2>5, <2>6, <2>7
<1>14. CASE Setex(t)
  <2> DEFINE at == IF w.tags = {} THEN "row" ELSE "sadd"
             v == Sent(at)
  <2>0. at \in {"row", "sadd"} /\ At(t, "setex")
        /\ l2' = [l2 EXCEPT ![w.key] = w.val] /\ UNCHANGED <<l1, tagidx, unlisted, l3>>
    BY <1>14 DEF Setex
  <2>1. task' = [task EXCEPT ![t] = v] /\ v \in Ready
    BY <1>0, <1>14, <2>0, ReadyGoes DEF Setex, Goes, At
  <2>2. v.at = at /\ v.key = w.key /\ v.tags = w.tags
    BY <1>j, <2>0
  <2>3. at = "row" => TagsOf[w.key] = {}
    BY <1>2
  <2> HIDE DEF v, at
  <2>4. StayListed(t, v)
    BY <1>0, <1>2, <2>0, <2>2, <2>3 DEF StayListed, At, Rest
  <2>5. Follows(v)
    BY <2>0, <2>1, <2>2, <2>4 DEF Invalidating
  <2>6. L1Tags' /\ RowTags'
    BY <1>0, <2>0 DEF L1Tags, RowTags
  <2> QED  BY <1>f, <2>1, <2>5, <2>6
<1>15. CASE Sadd(t)
  <2> DEFINE v == Sent("row")
  <2>0. tagidx' = [g \in Tags |-> IF g \in w.tags THEN tagidx[g] \cup {w.key}
                                  ELSE tagidx[g]]
        /\ unlisted' = unlisted \ {w.key}
        /\ UNCHANGED <<l1, l2, l3>>
    BY <1>15 DEF Sadd
  <2>1. task' = [task EXCEPT ![t] = v] /\ v \in Ready
    BY <1>0, <1>15, ReadyGoes DEF Sadd, Goes, At
  <2>2. v.at = "row" /\ v.key = w.key /\ v.tags = w.tags
    BY <1>j
  <2>3. \A g \in Tags, k \in Keys :
          /\ k \in tagidx[g] => k \in tagidx'[g]
          /\ g \in TagsOf[w.key] /\ k = w.key => k \in tagidx'[g]
    BY <1>2, <2>0
  <2> HIDE DEF v
  <2>4. StayListed(t, v)
    BY <1>4, <2>0, <2>2, <2>3 DEF StayListed
  <2>5. Follows(v)
    BY <2>1, <2>2, <2>4 DEF Invalidating
  <2>6. L1Tags' /\ RowTags'
    BY <1>0, <2>0 DEF L1Tags, RowTags
  <2> QED  BY <1>f, <2>1, <2>5, <2>6
<1>16. CASE WriteRow(t)
  <2>0. At(t, "row") /\ UNCHANGED <<l1, l2, tagidx, unlisted>>
        /\ l3' = [l3 EXCEPT ![w.key] = [val |-> w.val, tags |-> w.tags]]
        /\ task' = [task EXCEPT ![t] = Idle]
    BY <1>16 DEF WriteRow, Ends
  <2>1. \A k \in Keys : l3'[k] = IF k = w.key THEN [val |-> w.val, tags |-> w.tags]
                                  ELSE l3[k]
    BY <1>0, <1>2, <2>0 DEF Rest
  <2>2. StayListed(t, Idle)
    BY <1>6, <1>i, <2>0, <2>1 DEF StayListed, At
  <2>3. L1Tags' /\ RowTags'
    BY <1>0, <1>2, <2>0, <2>1 DEF L1Tags, RowTags
  <2>4. Follows(Idle)
    BY <1>i, <2>0, <2>2 DEF Invalidating
  <2> QED  BY <1>f, <1>i, <2>3, <2>4
<1> QED
  BY <1>7, <1>8, <1>9, <1>10, <1>11, <1>12, <1>13, <1>14, <1>15, <1>16
     DEF Continue, Smembers, Delete, Purge, At, Invalidating

-----------------------------------------------------------------------------
(* The steps of an invalidation.                                           *)

\* So does every step of an invalidation.
LEMMA QuietPurge ==
  ASSUME CacheInv, QuietParts, NEW t \in Tasks,
         Smembers(t) \/ Delete(t) \/ Purge(t)
  PROVE  QuietParts'
<1> DEFINE w == task[t]
<1>0. /\ w \in Ready /\ Rest /\ task \in [Tasks -> Ready]
      /\ L1Tags /\ RowTags /\ TaskTags /\ Listed /\ Progress
  BY InvParts DEF QuietParts
<1>1. w.at \in Invalidating
  BY DEF Smembers, Delete, Purge, At, Invalidating
<1>2. \A s \in Tasks \ {t} : task[s].at = "idle"
  BY <1>0, <1>1 DEF Progress, Alone, At
<1>3. \A k \in Keys : Concerns(t, k) => Passed(t, k)
  BY <1>0, <1>1 DEF Progress
<1>4. \A k \in Keys : TagsOf[k] \in SUBSET Tags
  BY CacheAssumption DEF CacheAssumption
<1>5. \A k \in Keys \ unlisted : \A g \in TagsOf[k] :
        /\ l2[k] # None => k \in tagidx[g]
        /\ l3[k] # None => k \in tagidx[g] \/ (At(t, "purge") /\ w.tag = g)
  <2> SUFFICES ASSUME NEW k \in Keys \ unlisted, NEW g \in TagsOf[k]
               PROVE  /\ l2[k] # None => k \in tagidx[g]
                      /\ l3[k] # None => k \in tagidx[g] \/ (At(t, "purge") /\ w.tag = g)
    OBVIOUS
  <2>1. ListedL2(k, g) /\ ListedL3(k, g)
    BY <1>0 DEF Listed
  <2>2. \A s \in Tasks : ~At(s, "sadd") /\ (At(s, "purge") => s = t)
    BY <1>1, <1>2 DEF At, Invalidating
  <2> QED  BY <2>1, <2>2 DEF ListedL2, ListedL3
<1> DEFINE FewerRows == \A k \in Keys : l3'[k] # None => l3'[k] = l3[k]
           LeavesListed(v) ==
             \A k \in Keys \ unlisted : \A g \in TagsOf[k] :
               /\ l2'[k] # None => k \in tagidx'[g]
               /\ l3'[k] # None => \/ k \in tagidx'[g]
                                   \/ v.at = "purge" /\ v.tag = g
           OnTrack ==
             \A k \in Keys : Concerns(t, k)' => Concerns(t, k) /\ Passed(t, k)'
<1>6. ASSUME NEW v \in Ready, task' = [task EXCEPT ![t] = v], UNCHANGED <<l1, unlisted>>,
             v.at \in Invalidating \cup {"idle"},
             FewerRows, LeavesListed(v), v.at \in Invalidating => OnTrack
      PROVE  QuietParts'
  <2>1. task'[t] = v /\ \A s \in Tasks \ {t} : task'[s].at = "idle"
    BY <1>0, <1>2, <1>6
  <2>2. L1Tags' /\ RowTags'
    BY <1>0, <1>6 DEF L1Tags, RowTags
  <2>3. TaskTags'
    BY <1>6, <2>1 DEF TaskTags
  <2>4. \A k \in Keys \ unlisted : \A g \in TagsOf[k] :
          ListedL2(k, g)' /\ ListedL3(k, g)'
    BY <1>6, <2>1 DEF ListedL2, ListedL3, At
  <2>5. \A s \in Tasks : task'[s].at \notin {"row", "backfill"}
    BY <1>6, <2>1 DEF Invalidating
  <2>6. Listed'
    BY <1>6, <2>4, <2>5 DEF Listed, ListedTask
  <2>7. Progress'
    BY <1>6, <2>1 DEF Progress, Alone, At, Invalidating
  <2> QED  BY <2>2, <2>3, <2>6, <2>7 DEF QuietParts
<1> HIDE DEF FewerRows, LeavesListed, OnTrack
<1>7. CASE Smembers(t)
  <2> DEFINE found == tagidx[w.tag]
             at == IF found = {} THEN "purge" ELSE "delete"
             v == [w EXCEPT !.found = found, !.at = at]
  <2>1. At(t, "smembers") /\ UNCHANGED <<l1, l2, tagidx, unlisted, l3>>
    BY <1>7 DEF Smembers
  <2>2. w.tag \in Tags /\ found \in SUBSET Keys /\ w.tag # None
    BY <1>0, <2>1, CacheAssumption
       DEF At, Ready, ReadyTask, Rest, CacheAssumption
  <2>3. task' = [task EXCEPT ![t] = v] /\ v \in Ready
    BY <1>0, <1>7, <2>2, ReadyGoes DEF Smembers
  <2>4. v.at = at /\ v.tag = w.tag /\ v.found = found /\ task'[t] = v
    BY <1>0, <2>3 DEF Ready, TaskStates
  <2>5. at \in {"purge", "delete"} /\ (at = "purge" => found = {})
    OBVIOUS
  <2> HIDE DEF v, at
  <2>6. \A k \in Keys \ unlisted : \A g \in TagsOf[k] :
          /\ l2'[k] # None => k \in tagidx'[g]
          /\ l3'[k] # None => k \in tagidx'[g]
    BY <1>5, <2>1 DEF At
  <2>7. ASSUME NEW k \in Keys, Concerns(t, k)' PROVE Concerns(t, k) /\ Passed(t, k)'
    <3>1. w.tag \in TagsOf[k] /\ Concerns(t, k)
      BY <2>2, <2>4, <2>7 DEF Concerns
    <3>2. l2[k] # None => k \in found \/ Hidden(t, k)'
      BY <1>5, <2>1, <2>2, <2>4, <3>1 DEF Hidden
    <3>3. Own(t)'.data[k] = None
      BY <1>3, <2>1, <3>1 DEF Passed, Own
    <3> QED  BY <2>1, <2>4, <2>5, <3>1, <3>2, <3>3 DEF Passed, At
  <2>8. FewerRows /\ LeavesListed(v) /\ OnTrack
    BY <2>1, <2>6, <2>7 DEF FewerRows, LeavesListed, OnTrack
  <2> QED  BY <1>6, <2>1, <2>3, <2>4, <2>5, <2>8 DEF Invalidating
<1>8. CASE Delete(t)
  <2> DEFINE v == [w EXCEPT !.at = "purge"]
  <2>1. /\ At(t, "delete") /\ UNCHANGED <<l1, unlisted, l3>>
        /\ l2' = [k \in Keys |-> IF k \in w.found THEN None ELSE l2[k]]
        /\ tagidx' = [g \in Tags |-> IF g = w.tag THEN {} ELSE tagidx[g]]
    BY <1>8 DEF Delete
  <2>2. task' = [task EXCEPT ![t] = v] /\ v \in Ready
    BY <1>0, <1>8, ReadyGoes DEF Delete, Goes
  <2>3. v.at = "purge" /\ v.tag = w.tag /\ v.found = w.found /\ task'[t] = v
    BY <1>0, <2>2 DEF Ready, TaskStates
  <2> HIDE DEF v
  <2>4. ASSUME NEW k \in Keys, Concerns(t, k) PROVE l2'[k] = None \/ Hidden(t, k)
    BY <1>3, <2>1, <2>4 DEF Passed
  <2>5. ASSUME NEW k \in Keys, Concerns(t, k)' PROVE Concerns(t, k) /\ Passed(t, k)'
    <3>1. Concerns(t, k) /\ (Hidden(t, k) => Hidden(t, k)')
      BY <2>1, <2>3, <2>5 DEF Concerns, Hidden
    <3> QED  BY <1>3, <2>1, <2>3, <2>4, <3>1 DEF Passed, Own, At
  <2>6. ASSUME NEW k \in Keys \ unlisted, NEW g \in TagsOf[k]
        PROVE  /\ l2'[k] # None => k \in tagidx'[g]
               /\ l3'[k] # None => \/ k \in tagidx'[g]
                                   \/ v.at = "purge" /\ v.tag = g
    <3>1. g \in Tags /\ g # None
      BY <1>4, CacheAssumption DEF CacheAssumption
    <3>2. g = w.tag => l2'[k] = None
      BY <2>4, <3>1 DEF Concerns, Hidden
    <3>3. l2'[k] # None => l2[k] # None
      BY <2>1
    <3> QED  BY <1>5, <2>1, <2>3, <3>1, <3>2, <3>3 DEF At
  <2>7. FewerRows /\ LeavesListed(v) /\ OnTrack
    BY <2>1, <2>5, <2>6 DEF FewerRows, LeavesListed, OnTrack
  <2> QED  BY <1>6, <2>1, <2>2, <2>3, <2>7 DEF Invalidating
<1>9. CASE Purge(t)
  <2>1. /\ At(t, "purge") /\ UNCHANGED <<l1, l2, tagidx, unlisted>>
        /\ l3' = [k \in Keys |-> IF Doomed(t, k) THEN None ELSE l3[k]]
        /\ task' = [task EXCEPT ![t] = Idle]
    BY <1>9 DEF Purge, Ends
  <2>2. ASSUME NEW k \in Keys \ unlisted, NEW g \in TagsOf[k]
        PROVE  /\ l2'[k] # None => k \in tagidx'[g]
               /\ l3'[k] # None => k \in tagidx'[g]
    <3>1. g # None
      BY <1>4, CacheAssumption DEF CacheAssumption
    <3>2. l3[k] # None /\ w.tag = g => Doomed(t, k)
      BY <1>0, <3>1 DEF Doomed, RowTags
    <3> QED  BY <1>5, <2>1, <3>2
  <2>3. \A k \in Keys : l3'[k] # None => l3'[k] = l3[k]
    BY <2>1
  <2>4. Idle \in Ready /\ Idle.at = "idle"
    BY ReadyStates DEF Idle
  <2>5. FewerRows /\ LeavesListed(Idle)
    BY <2>2, <2>3 DEF FewerRows, LeavesListed
  <2> QED  BY <1>6, <2>1, <2>4, <2>5 DEF Invalidating
<1> QED  BY <1>7, <1>8, <1>9

-----------------------------------------------------------------------------
(* Calls begin, and time passes.                                           *)

\* All is quiet at first.
LEMMA QuietInit == Init => QuietInv
<1> SUFFICES ASSUME Init PROVE QuietParts
  BY DEF QuietInv
<1>1. L1Tags /\ RowTags
  BY DEF Init, Empty, L1Tags, RowTags
<1>2. \A t \in Tasks : task[t].at = "idle"
  BY DEF Init, Idle
<1>3. TaskTags /\ Progress
  BY <1>2 DEF TaskTags, Progress, Invalidating
<1>4. Listed
  BY <1>2 DEF Init, Listed, ListedL2, ListedL3, ListedTask
<1> QED  BY <1>1, <1>3, <1>4 DEF QuietParts

\* A call with the tags of its key begins while no invalidation is under way.
LEMMA QuietBegins ==
  ASSUME CacheInv, QuietParts, NEW t \in Tasks, NEW w \in Ready,
         task' = [task EXCEPT ![t] = w], At(t, "idle"),
         w.at \in {"get", "fetch", "setex"}, w.tags = TagsOf[w.key],
         \A s \in Tasks : task[s].at \notin Invalidating,
         L1Tags', UNCHANGED <<l2, tagidx, unlisted, l3>>
  PROVE  QuietParts'
<1>1. StayListed(t, w)
  BY DEF StayListed, At
<1>2. TaskTags' /\ Progress'
  BY TasksStep DEF QuietParts, Invalidating
<1>3. Listed'
  BY <1>1, ListedStep DEF QuietParts
<1> QED  BY <1>2, <1>3 DEF QuietParts, RowTags

\* get changes L1 only by removing an expired entry.
LEMMA QuietLooked ==
  ASSUME CacheInv, NEW t \in Tasks, NEW k \in Keys, InL1(t, Looked(Own(t), k))
  PROVE  \A p \in Procs, j \in Keys : l1'[p].data[j] \in {None, l1[p].data[j]}
<1>0. l1 \in [Procs -> Sound] /\ Own(t) \in Sound /\ ProcOf[t] \in Procs
  BY L1Sound, CacheAssumption DEF CacheInv, CacheAssumption
<1> SUFFICES ASSUME NEW p \in Procs, NEW j \in Keys
             PROVE  l1'[p].data[j] \in {None, l1[p].data[j]}
  OBVIOUS
<1>1. CASE p # ProcOf[t]
  BY <1>0, <1>1 DEF InL1
<1>2. CASE p = ProcOf[t]
  <2>1. l1'[p] = Looked(Own(t), k)
    BY <1>0, <1>2 DEF InL1
  <2> QED  BY <1>0, <1>2, <2>1, LookedData DEF Own
<1> QED  BY <1>1, <1>2

\* A get, set or refresh may begin, or get may be answered from L1.
LEMMA QuietCalls ==
  ASSUME CacheInv, QuietInv, quiet', NEW t \in Tasks, NEW k \in Keys,
         NEW tags \in SUBSET Tags,
         get(t, k, tags) \/ set(t, k, tags) \/ refresh(t, k)
  PROVE  QuietParts'
<1>0. /\ l1 \in [Procs -> Sound] /\ Own(t) \in Sound /\ Rest
      /\ \A s \in Tasks : ProcOf[s] \in Procs
  BY L1Sound, InvParts, CacheAssumption DEF CacheAssumption
<1>1. quiet /\ QuietParts /\ L1Tags
  BY DEF QuietInv, QuietParts, get, set, refresh, Calls
<1>2. CASE get(t, k, tags)
  <2>1. \A p \in Procs, j \in Keys : l1'[p].data[j] \in {None, l1[p].data[j]}
    BY <1>2, QuietLooked DEF get
  <2>2. L1Tags' /\ UNCHANGED <<l2, tagidx, unlisted, l3>> /\ At(t, "idle")
    BY <1>1, <1>2, <2>1 DEF L1Tags, get
  <2>3. CASE UNCHANGED task
    <3>1. Listed' /\ TaskTags' /\ RowTags'
      BY <1>1, <2>2, <2>3
         DEF QuietParts, Listed, ListedL2, ListedL3, ListedTask, TaskTags, RowTags, At
    <3>2. ASSUME NEW s \in Tasks, task[s].at \in Invalidating,
                 NEW j \in Keys, Concerns(s, j)
          PROVE  Passed(s, j)'
      <4>1. Passed(s, j)
        BY <1>1, <3>2 DEF QuietParts, Progress
      <4>2. Own(s)'.data[j] = None
        BY <1>0, <2>1, <4>1 DEF Passed, Own
      <4> QED  BY <2>2, <2>3, <4>1, <4>2 DEF Passed, Hidden, At
    <3>3. Progress'
      BY <1>1, <2>3, <3>2 DEF QuietParts, Progress, Alone, Concerns, At
    <3> QED  BY <2>2, <3>1, <3>3 DEF QuietParts
  <2>4. CASE ~UNCHANGED task
    <3> DEFINE w == [Idle EXCEPT !.at = "get", !.key = k, !.tags = tags]
    <3>1. task' = [task EXCEPT ![t] = w] /\ Calls(k, tags)
      BY <1>2, <2>4 DEF get
    <3>2. w \in Ready
      BY ReadyStates
    <3>3. w.at = "get" /\ w.key = k /\ w.tags = tags
      BY DEF Idle
    <3> HIDE DEF w
    <3>4. tags = TagsOf[k] /\ \A s \in Tasks : task[s].at \notin Invalidating
      BY <3>1 DEF Calls
    <3> QED  BY <1>1, <2>2, <3>1, <3>2, <3>3, <3>4, QuietBegins
  <2> QED  BY <2>3, <2>4
<1>3. CASE set(t, k, tags)
  <2> DEFINE w == [Idle EXCEPT !.at = "setex", !.key = k, !.val = origin[k],
                               !.tags = tags]
  <2>0. origin[k] \in Values
    BY <1>0 DEF Rest
  <2>1. task' = [task EXCEPT ![t] = w] /\ Calls(k, tags) /\ At(t, "idle")
        /\ InL1(t, Put(Own(t), k, origin[k], tags)) /\ UNCHANGED <<l2, tagidx, unlisted, l3>>
    BY <1>3 DEF set, Sets
  <2>2. w \in Ready
    BY <2>0, ReadyStates
  <2>3. w.at = "setex" /\ w.key = k /\ w.tags = tags
    BY DEF Idle
  <2> HIDE DEF w
  <2>4. tags = TagsOf[k] /\ \A s \in Tasks : task[s].at \notin Invalidating
    BY <2>1 DEF Calls
  <2>5. L1Tags'
    BY <1>1, <2>0, <2>1, <2>4, PutTags
  <2> QED  BY <1>1, <2>1, <2>2, <2>3, <2>4, <2>5, QuietBegins
<1>4. CASE refresh(t, k)
  <2> DEFINE w == [Idle EXCEPT !.at = "fetch", !.key = k]
  <2>1. task' = [task EXCEPT ![t] = w] /\ Calls(k, {}) /\ At(t, "idle")
        /\ UNCHANGED <<l1, l2, tagidx, unlisted, l3>>
    BY <1>4 DEF refresh
  <2>2. w \in Ready
    BY ReadyStates
  <2>3. w.at = "fetch" /\ w.key = k /\ w.tags = {}
    BY DEF Idle
  <2> HIDE DEF w
  <2>4. {} = TagsOf[k] /\ \A s \in Tasks : task[s].at \notin Invalidating
    BY <2>1 DEF Calls
  <2>5. L1Tags'
    BY <1>1, <2>1 DEF L1Tags
  <2> QED  BY <1>1, <2>1, <2>2, <2>3, <2>4, <2>5, QuietBegins
<1> QED  BY <1>2, <1>3, <1>4

\* An invalidation begins while every coroutine is idle, and removes from the
\* L1 of its process what it is to remove.
LEMMA QuietRemoves ==
  ASSUME CacheInv, QuietParts, NEW t \in Tasks, NEW w \in Ready,
         task' = [task EXCEPT ![t] = w], w.at \in {"smembers", "delete"},
         \A s \in Tasks : At(s, "idle"),
         NEW gone \in SUBSET Keys, InL1(t, RemoveAll(Own(t), gone)),
         \A k \in Keys : IF w.tag = None THEN k \in w.found => k \in gone
                         ELSE w.tag \in TagsOf[k] /\ Own(t).data[k] # None => k \in gone,
         UNCHANGED <<l2, tagidx, unlisted, l3>>, w.at = "delete" => w.tag = None
  PROVE  QuietParts'
<1>0. /\ l1 \in [Procs -> Sound] /\ Own(t) \in Sound /\ ProcOf[t] \in Procs
      /\ task \in [Tasks -> Ready]
  BY L1Sound, CacheAssumption DEF CacheInv, CacheAssumption
<1>1. task'[t] = w /\ \A s \in Tasks \ {t} : task'[s].at = "idle"
  BY <1>0 DEF At
<1>2. \A j \in Keys : l1'[ProcOf[t]].data[j] =
                        IF j \in gone THEN None ELSE Own(t).data[j]
  <2>1. l1'[ProcOf[t]] = RemoveAll(Own(t), gone)
    BY <1>0 DEF InL1
  <2> QED  BY <1>0, <2>1, RemoveAllSound
<1>3. \A p \in Procs : p # ProcOf[t] => l1'[p] = l1[p]
  BY <1>0 DEF InL1
<1>4. L1Tags'
  <2> SUFFICES ASSUME NEW p \in Procs, NEW j \in Keys, l1'[p].data[j] # None
               PROVE  l1'[p].data[j].tags = TagsOf[j]
    BY DEF L1Tags
  <2>1. l1'[p].data[j] = l1[p].data[j]
    BY <1>2, <1>3 DEF Own
  <2> QED  BY <2>1 DEF QuietParts, L1Tags
<1>5. RowTags' /\ TaskTags'
  BY <1>1 DEF QuietParts, RowTags, TaskTags, Invalidating
<1>6. Listed'
  <2> SUFFICES ASSUME NEW k \in Keys \ unlisted, NEW g \in TagsOf[k]
               PROVE  /\ ListedL2(k, g)' /\ ListedL3(k, g)'
                      /\ \A s \in Tasks : ListedTask(s, k, g)'
    BY DEF Listed
  <2>1. ListedL2(k, g) /\ ListedL3(k, g)
    BY DEF QuietParts, Listed
  <2>2. (l2[k] # None => k \in tagidx[g]) /\ (l3[k] # None => k \in tagidx[g])
    BY <2>1 DEF ListedL2, ListedL3, At
  <2> QED  BY <1>1, <2>2 DEF ListedL2, ListedL3, ListedTask
<1>7. ASSUME NEW k \in Keys, Concerns(t, k)' PROVE Passed(t, k)'
  <2>1. IF w.tag = None THEN k \in w.found ELSE w.tag \in TagsOf[k]
    BY <1>1, <1>7 DEF Concerns
  <2>2. l1'[ProcOf[t]].data[k] = None
    BY <1>2, <2>1
  <2> QED  BY <1>1, <2>1, <2>2 DEF Passed, Own, At
<1>8. Progress'
  BY <1>1, <1>7 DEF Progress, Alone, At, Invalidating
<1> QED  BY <1>4, <1>5, <1>6, <1>8 DEF QuietParts

\* An invalidation begins, by key or by tag.
LEMMA QuietInvalidates ==
  ASSUME CacheInv, QuietInv, quiet', NEW t \in Tasks,
         (\E k \in Keys : invalidate_key(t, k)) \/ (\E g \in Tags : invalidate_tag(t, g))
  PROVE  QuietParts'
<1>0. /\ QuietParts /\ Own(t) \in Sound
      /\ \A s \in Tasks : At(s, "idle")
  BY L1Sound DEF QuietInv, invalidate_key, invalidate_tag, Invalidates
<1>1. ASSUME NEW k \in Keys, invalidate_key(t, k) PROVE QuietParts'
  <2> DEFINE w == [Idle EXCEPT !.at = "delete", !.found = {k}]
             gone == {k}
  <2>1. task' = [task EXCEPT ![t] = w] /\ InL1(t, RemoveAll(Own(t), gone))
        /\ UNCHANGED <<l2, tagidx, unlisted, l3>>
    BY <1>1 DEF invalidate_key, Remove
  <2>2. w \in Ready
    BY ReadyStates
  <2>3. w.at = "delete" /\ w.tag = None /\ w.found = gone
    BY DEF Idle
  <2>4. gone \in SUBSET Keys
    OBVIOUS
  <2> HIDE DEF w, gone
  <2> QED  BY <1>0, <2>1, <2>2, <2>3, <2>4, QuietRemoves
<1>2. ASSUME NEW g \in Tags, invalidate_tag(t, g) PROVE QuietParts'
  <2> DEFINE w == [Idle EXCEPT !.at = "smembers", !.tag = g]
             gone == Own(t).index[g]
  <2>1. task' = [task EXCEPT ![t] = w] /\ InL1(t, RemoveAll(Own(t), gone))
        /\ UNCHANGED <<l2, tagidx, unlisted, l3>>
    BY <1>2 DEF invalidate_tag, RemoveTag
  <2>2. w \in Ready
    BY ReadyStates
  <2>3. w.at = "smembers" /\ w.tag = g /\ g # None
    BY CacheAssumption DEF Idle, CacheAssumption
  <2>4. gone \in SUBSET Keys
    BY <1>0 DEF Sound, Cache
  <2>5. \A k \in Keys : g \in TagsOf[k] /\ Own(t).data[k] # None => k \in gone
    <3>1. \A k \in Keys : Own(t).data[k] # None => Own(t).data[k].tags = TagsOf[k]
      BY <1>0, CacheAssumption DEF QuietParts, L1Tags, Own, CacheAssumption
    <3> QED  BY <1>0, <3>1 DEF Sound, Exact, Carries
  <2> HIDE DEF w, gone
  <2> QED  BY <1>0, <2>1, <2>2, <2>3, <2>4, <2>5, QuietRemoves
<1> QED  BY <1>1, <1>2

\* An entry expires or the origin changes: nothing is added anywhere.
LEMMA QuietTime ==
  ASSUME CacheInv, QuietParts, NEW k \in Keys,
         ExpireL2(k) \/ ExpireL3(k) \/ Update(k) \/ \E p \in Procs : ExpireL1(p, k)
  PROVE  QuietParts'
<1>0. /\ l1 \in [Procs -> Sound] /\ Rest
      /\ \A s \in Tasks : ProcOf[s] \in Procs
  BY InvParts, CacheAssumption DEF CacheAssumption
<1>1. UNCHANGED <<tagidx, unlisted, task>>
  BY DEF ExpireL1, ExpireL2, ExpireL3, Update
<1>2. \A p \in Procs, j \in Keys :
        /\ l1[p].data[j] = None => l1'[p].data[j] = None
        /\ l1'[p].data[j] # None => l1'[p].data[j].tags = l1[p].data[j].tags
  <2>1. ASSUME NEW p \in Procs, ExpireL1(p, k), NEW q \in Procs, NEW j \in Keys
        PROVE  /\ l1[q].data[j] = None => l1'[q].data[j] = None
               /\ l1'[q].data[j] # None => l1'[q].data[j].tags = l1[q].data[j].tags
    <3>1. CASE q # p
      BY <1>0, <2>1, <3>1 DEF ExpireL1
    <3>2. CASE q = p
      <4>1. l1'[q] = Expired(l1[q], k) /\ Hit(l1[q], k) /\ l1[q] \in Sound
        BY <1>0, <2>1, <3>2 DEF ExpireL1
      <4> QED  BY <4>1, ExpiredSound
    <3> QED  BY <3>1, <3>2
  <2>2. CASE UNCHANGED l1
    BY <2>2
  <2> QED  BY <2>1, <2>2 DEF ExpireL2, ExpireL3, Update
<1>3. \A j \in Keys : l2'[j] \in {None, l2[j]} /\ l3'[j] \in {None, l3[j]}
  BY <1>0 DEF ExpireL1, ExpireL2, ExpireL3, Update, Rest
<1>4. L1Tags' /\ RowTags'
  BY <1>2, <1>3 DEF QuietParts, L1Tags, RowTags
<1>5. Listed' /\ TaskTags'
  BY <1>1, <1>3 DEF QuietParts, Listed, ListedL2, ListedL3, ListedTask, TaskTags, At
<1>6. ASSUME NEW s \in Tasks, task[s].at \in Invalidating, NEW j \in Keys,
             Concerns(s, j)
      PROVE  Passed(s, j)'
  <2>1. Passed(s, j)
    BY <1>6 DEF QuietParts, Progress
  <2> QED  BY <1>0, <1>1, <1>2, <1>3, <2>1 DEF Passed, Hidden, Own, At
<1>7. Progress'
  BY <1>1, <1>6 DEF QuietParts, Progress, Alone, Concerns, At
<1> QED  BY <1>4, <1>5, <1>7 DEF QuietParts

\* Redis drops the set of a tag: the keys in it count as listed no more.
LEMMA QuietEvict ==
  ASSUME CacheInv, QuietParts, NEW e \in Tags, EvictTag(e)
  PROVE  QuietParts'
<1>1. /\ UNCHANGED <<l1, l2, l3, task>> /\ unlisted \subseteq unlisted'
      /\ \A k \in Keys \ unlisted', g \in Tags :
           k \in Keys \ unlisted /\ (k \in tagidx[g] => k \in tagidx'[g])
  BY InvParts DEF EvictTag, Rest
<1>2. \A k \in Keys : TagsOf[k] \in SUBSET Tags
  BY CacheAssumption DEF CacheAssumption
<1>3. Listed'
  <2> SUFFICES ASSUME NEW k \in Keys \ unlisted', NEW g \in TagsOf[k]
               PROVE  /\ ListedL2(k, g)' /\ ListedL3(k, g)'
                      /\ \A s \in Tasks : ListedTask(s, k, g)'
    BY DEF Listed
  <2>1. /\ ListedL2(k, g) /\ ListedL3(k, g)
        /\ \A s \in Tasks : ListedTask(s, k, g)
    BY <1>1, <1>2 DEF QuietParts, Listed
  <2>2. k \in tagidx[g] => k \in tagidx'[g]
    BY <1>1, <1>2
  <2> QED  BY <1>1, <2>1, <2>2 DEF ListedL2, ListedL3, ListedTask, At
<1>4. L1Tags' /\ RowTags' /\ TaskTags'
  BY <1>1 DEF QuietParts, L1Tags, RowTags, TaskTags
<1>5. Progress'
  BY <1>1 DEF QuietParts, Progress, Alone, Concerns, Passed, Hidden, Own, At
<1> QED  BY <1>3, <1>4, <1>5 DEF QuietParts

\* No step disturbs the quiet without giving it up.
LEMMA QuietStep == CacheInv /\ QuietInv /\ [Next]_vars => QuietInv'
<1> SUFFICES ASSUME CacheInv, QuietInv, [Next]_vars, quiet' PROVE QuietParts'
  BY DEF QuietInv
<1>1. CASE UNCHANGED vars
  BY <1>1 DEF vars, QuietInv, QuietParts, L1Tags, RowTags, TaskTags, Listed, ListedL2,
              ListedL3, ListedTask, Progress, Passed, Hidden, Alone, Concerns, At, Own
<1>2. ASSUME NEW t \in Tasks, Continue(t) PROVE QuietParts'
  <2>1. QuietParts
    BY <1>2 DEF QuietInv, Continue, RedisGet, L2Hit, L3Hit, Backfill, Miss, Fetch,
                Store, Setex, Sadd, WriteRow, Smembers, Delete, Purge
  <2>2. CASE Smembers(t) \/ Delete(t) \/ Purge(t)
    BY <2>1, <2>2, QuietPurge
  <2>3. CASE ~(Smembers(t) \/ Delete(t) \/ Purge(t))
    <3>1. task[t].at \notin Invalidating
      BY <1>2, <2>3 DEF Continue, RedisGet, L2Hit, L3Hit, Backfill, Miss, Fetch,
                        Store, Setex, Sadd, WriteRow, At, Invalidating
    <3> QED  BY <1>2, <2>1, <3>1, QuietStore
  <2> QED  BY <2>2, <2>3
<1>3. ASSUME NEW t \in Tasks, NEW k \in Keys, NEW tags \in {TagsOf[k], {}},
             get(t, k, tags) \/ set(t, k, tags) \/ refresh(t, k)
      PROVE  QuietParts'
  <2>1. tags \in SUBSET Tags
    BY CacheAssumption DEF CacheAssumption
  <2> QED  BY <1>3, <2>1, QuietCalls
<1>4. ASSUME NEW t \in Tasks,
             (\E k \in Keys : invalidate_key(t, k))
             \/ (\E g \in Tags : invalidate_tag(t, g))
      PROVE  QuietParts'
  BY <1>4, QuietInvalidates
<1>5. ASSUME NEW k \in Keys,
             ExpireL2(k) \/ ExpireL3(k) \/ Update(k)
             \/ \E p \in Procs : ExpireL1(p, k)
      PROVE  QuietParts'
  <2>1. QuietParts
    BY <1>5 DEF QuietInv, ExpireL1, ExpireL2, ExpireL3, Update
  <2> QED  BY <1>5, <2>1, QuietTime
<1>6. ASSUME NEW g \in Tags, EvictTag(g) PROVE QuietParts'
  <2>1. QuietParts
    BY <1>6 DEF QuietInv, EvictTag
  <2> QED  BY <1>6, <2>1, QuietEvict
<1>7. ASSUME NEW t \in Tasks, RedisFails(t) \/ PostgresFails(t) \/ Cancelled(t)
      PROVE  FALSE
  BY <1>7 DEF RedisFails, PostgresFails, Cancelled, Fault
<1>8. ASSUME NEW p \in Procs, Restart(p) PROVE FALSE
  BY <1>8 DEF Restart, Fault
<1> QED  BY <1>1, <1>2, <1>3, <1>4, <1>5, <1>6, <1>7, <1>8 DEF Next

-----------------------------------------------------------------------------
(* "drops every entry with that tag across all tiers": an invalidation     *)
(* that was not overlapped and met no fault, after calls that gave every   *)
(* key its tags, ends with no copy in the L1 of its process and in         *)
(* Postgres of any key it concerns, and with none in Redis unless it went  *)
(* by a tag whose set Redis had dropped since the key was stored.          *)
THEOREM InvalidationPurges == Spec => Purges
<1> DEFINE Purged ==
      \A t \in Tasks : \A k \in Keys :
        (quiet' /\ At(t, "purge") /\ task'[t].at = "idle" /\ Concerns(t, k))
          => /\ l1'[ProcOf[t]].data[k] = None /\ l3'[k] = None
             /\ ~Hidden(t, k) => l2'[k] = None
<1>1. CacheInv /\ QuietInv /\ [Next]_vars => Purged
  <2> SUFFICES ASSUME CacheInv, QuietInv, [Next]_vars, NEW t \in Tasks, NEW k \in Keys,
                      quiet', At(t, "purge"), task'[t].at = "idle", Concerns(t, k)
               PROVE  /\ l1'[ProcOf[t]].data[k] = None /\ l3'[k] = None
                      /\ ~Hidden(t, k) => l2'[k] = None
    BY DEF Purged
  <2>0. task \in [Tasks -> Ready] /\ task[t].at = "purge" /\ Rest
    BY InvParts DEF At
  <2>1. ~UNCHANGED task
    BY <2>0
  <2>2. \A s \in Tasks : s # t => \A v : task' # [task EXCEPT ![s] = v]
    BY <2>0
  <2>3. ASSUME NEW s \in Tasks, s # t PROVE ~Continue(s)
    <3>1. RedisGet(s) \/ L3Hit(s) \/ Fetch(s) => task'[t] = task[t]
      BY <2>0, <2>3 DEF RedisGet, L3Hit, Fetch, Ends
    <3>2. Setex(s) \/ Sadd(s) \/ Smembers(s) \/ Delete(s) => task'[t] = task[t]
      BY <2>0, <2>3 DEF Setex, Sadd, Smembers, Delete, Goes
    <3>3. L2Hit(s) \/ Backfill(s) \/ WriteRow(s) \/ Purge(s) => task'[t] = task[t]
      BY <2>0, <2>3 DEF L2Hit, Backfill, WriteRow, Purge, Ends
    <3>4. Miss(s) \/ Store(s) => task'[t] = task[t]
      BY <2>0, <2>3 DEF Miss, Missed, Store, Sets, Goes, Ends
    <3> QED  BY <2>0, <3>1, <3>2, <3>3, <3>4 DEF Continue
  <2>4. ASSUME NEW s \in Tasks, NEW j \in Keys, NEW tags
        PROVE  ~(get(s, j, tags) \/ set(s, j, tags) \/ refresh(s, j)
                 \/ invalidate_key(s, j))
    <3>1. CASE s = t
      BY <2>0, <3>1 DEF get, set, refresh, invalidate_key, At
    <3>2. CASE s # t
      BY <2>1, <2>2, <3>2 DEF get, set, Sets, refresh, invalidate_key
    <3> QED  BY <3>1, <3>2
  <2>5. ASSUME NEW s \in Tasks, NEW g \in Tags PROVE ~invalidate_tag(s, g)
    <3>1. CASE s = t
      BY <2>0, <3>1 DEF invalidate_tag, At
    <3>2. CASE s # t
      BY <2>2, <3>2 DEF invalidate_tag
    <3> QED  BY <3>1, <3>2
  <2>6. Purge(t)
    <3>1. Continue(t) => Purge(t)
      BY <2>0 DEF Continue, RedisGet, L2Hit, L3Hit, Backfill, Miss, Fetch,
         Store, Setex, Sadd, WriteRow, Smembers, Delete, At
    <3>2. Next
      BY <2>1 DEF vars
    <3>3. \A s \in Tasks : ~RedisFails(s) /\ ~PostgresFails(s) /\ ~Cancelled(s)
      BY DEF RedisFails, PostgresFails, Cancelled, Fault
    <3>4. \A p \in Procs : ~Restart(p)
      BY DEF Restart, Fault
    <3>5. \A j \in Keys : /\ ~ExpireL2(j) /\ ~ExpireL3(j) /\ ~Update(j)
                          /\ \A p \in Procs : ~ExpireL1(p, j)
      BY <2>1 DEF ExpireL1, ExpireL2, ExpireL3, Update
    <3>6. \A g \in Tags : ~EvictTag(g)
      BY <2>1 DEF EvictTag
    <3> QED  BY <2>3, <2>4, <2>5, <3>1, <3>2, <3>3, <3>4, <3>5, <3>6 DEF Next
  <2>7. QuietParts
    BY <2>6 DEF QuietInv, Purge
  <2>8. Passed(t, k)
    BY <2>0, <2>7 DEF QuietParts, Progress, Invalidating
  <2>9. l3'[k] = None
    <3>1. l3[k] # None => Doomed(t, k)
      BY <2>7 DEF QuietParts, RowTags, Concerns, Doomed
    <3> QED  BY <2>6, <3>1 DEF Purge
  <2> QED  BY <2>6, <2>8, <2>9 DEF Passed, Own, Purge
<1>2. Spec => [][Purged]_vars
  BY <1>1, InvInit, InvStep, QuietInit, QuietStep, PTL DEF Spec
<1> QED  BY <1>2 DEF Purges
=============================================================================
