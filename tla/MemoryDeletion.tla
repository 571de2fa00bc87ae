---------------------------- MODULE MemoryDeletion ----------------------------
(***************************************************************************)
(* The deletion of a memory (PrivacyService.delete_memory) and the review  *)
(* schedule, whose rows it removes.  "Propagate failure before canonical   *)
(* ownership is removed": the record goes last, so that a deletion that    *)
(* failed can be asked for again.                                          *)
(***************************************************************************)
EXTENDS SemanticCache

DeleteMemory(t, i) ==
    /\ Begins(t) /\ record[i] # Absent
    /\ StartsRewriting(t, "delete", i, <<"delete", Source[i] \in Pages>>)
    /\ UNCHANGED <<record, nextId, sqlite, rows, version, cache, faults>>

(* other_users_have_video                                                  *)
LooksForOthers(t) ==
    /\ Doing(t, "others")
    /\ job' = [job EXCEPT ![t] = [Stepped(@) EXCEPT !.shared =
                 \E j \in Items : /\ Source[j] = Source[Of(t)] /\ Owner[j] # Owner[Of(t)]
                                  /\ Has("registry", j) \/ record[j] # Absent]]
    /\ UNCHANGED <<record, nextId, sqlite, rows, version, cache, muddled, ops, faults>>

(* delete_canonical_memory, which another deletion may have done.          *)
Forgets(t) ==
    /\ Doing(t, "forget")
    /\ IF record[Of(t)].id = job[t].mid
       THEN record' = [record EXCEPT ![Of(t)] = Absent] /\ Advances(t)
       ELSE Raises(t) /\ UNCHANGED record
    /\ UNCHANGED <<nextId, sqlite, rows, version, cache, muddled, ops, faults>>

(* Searches under way keep what they retrieved.                            *)
Invalidates(t) ==
    LET u == Owner[Of(t)] IN
    /\ Doing(t, "invalidate")
    /\ cache' = Invalidated(u)
    /\ muddled' = muddled \ Ordered(t)
    /\ job' = [x \in Threads |->
                 IF x = t THEN Idle
                 ELSE IF job[x].op = "search" /\ Asker(x) = u THEN [job[x] EXCEPT !.late = TRUE]
                 ELSE job[x]]
    /\ UNCHANGED <<record, nextId, sqlite, rows, version, ops, faults>>

(* The deletion of the chunks, and in SQLite that of the lexical rows,     *)
(* swallow an exception and go on: these rows stay, the record goes.       *)
DropSwallowed(t) ==
    /\ job[t].op = "delete" /\ Doing(t, "drop")
    /\ Argument(t) = {"chunks"} \/ (Argument(t) = {"fts"} /\ sqlite)
    /\ Fault
    /\ job' = [job EXCEPT ![t] = [Stepped(job[t]) EXCEPT !.missed = job[t].missed \cup Argument(t)]]
    /\ muddled' = muddled \cup Touching(Of(t))
    /\ UNCHANGED <<record, nextId, sqlite, rows, version, cache, ops>>

(* record_result: only a registered item is reviewed.                      *)
RecordReview(t, i) ==
    /\ Begins(t) /\ Has("registry", i)
    /\ StartsRewriting(t, "review", i, <<"review">>)
    /\ UNCHANGED <<record, nextId, sqlite, rows, version, cache, faults>>

DeletionStep(t) == LooksForOthers(t) \/ Forgets(t) \/ Invalidates(t)
===============================================================================
