---------------------------- MODULE SemanticCache ----------------------------
(***************************************************************************)
(* A search (ahme_engine.py) and the cache of its answers                  *)
(* (semantic_cache.py): one question of each user.  An answer is the set   *)
(* of the user's items it draws on.                                        *)
(***************************************************************************)
EXTENDS IngestPipeline

Asker(t) == Owner[Of(t)]
Answers(t) == {i \in Items : Owner[i] = Asker(t) /\ Has("chunks", i)}

SearchKeeps == UNCHANGED <<record, nextId, sqlite, rows, version, muddled, ops, faults>>

(* get: the versions are read in a transaction of their own.               *)
Search(t, i) ==
    /\ Begins(t)
    /\ job' = [job EXCEPT ![t] = [Idle EXCEPT !.op = "search", !.item = i,
                 !.plan = <<"search">>, !.at = 1, !.ver = version, !.began = version]]
    /\ UNCHANGED <<record, nextId, sqlite, rows, version, cache, muddled, faults>>

Hit(t) == cache[Asker(t)] # NoAnswer /\ cache[Asker(t)].ver = job[t].ver

(* An entry of the version read is served; it may have expired.            *)
CacheGet(t) ==
    /\ Doing(t, "get")
    /\ \/ Hit(t) /\ Raises(t)
       \/ Advances(t)
    /\ SearchKeeps /\ UNCHANGED cache

Retrieve(t) ==
    /\ Doing(t, "retrieve")
    /\ job' = [job EXCEPT ![t] = [Stepped(@) EXCEPT !.ans = Answers(t)]]
    /\ SearchKeeps /\ UNCHANGED cache

(* put: the versions are read again, after the retrieval.                  *)
ReadVersions(t) ==
    /\ Doing(t, "put?")
    /\ job' = [job EXCEPT ![t] = IF @.ans = {} THEN Idle
                                 ELSE [Stepped(@) EXCEPT !.ver = version]]
    /\ SearchKeeps /\ UNCHANGED cache

CachePut(t) ==
    LET j == job[t] IN
    /\ Doing(t, "store")
    /\ cache' = [cache EXCEPT ![Asker(t)] =
                   [ver |-> j.ver, began |-> j.began, ans |-> j.ans, late |-> j.late]]
    /\ Raises(t)
    /\ SearchKeeps

SearchStep(t) == CacheGet(t) \/ Retrieve(t) \/ ReadVersions(t) \/ CachePut(t)

(* Mutant of Invalidated: the answers of everybody but the user go.         *)
InvalidatedOthers(u) == [x \in Users |-> IF x = u THEN cache[x] ELSE NoAnswer]

(* POST /cache/invalidate, and the end of a deletion.                      *)
Invalidated(u) == [cache EXCEPT ![u] = NoAnswer]
=============================================================================
