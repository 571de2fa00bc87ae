---------------------------- MODULE AccountErasure ----------------------------
(***************************************************************************)
(* The erasure of the leaver's account: the fence first, then one          *)
(* transaction per store, in order, and what is left over at the end only  *)
(* if every memory could be deleted.  A failure stops it; it may be asked  *)
(* for again, behind the fence that stays.  It refuses the local stores. *)
(***************************************************************************)
EXTENDS Migrations

CONSTANT MaxFaults
ASSUME MaxFaultsAssumption == MaxFaults \in Nat

VARIABLES
    er,     \* at: 0 at rest, else the step; errors: some memory was kept
    faults
erasureVars == <<er, faults>>

ErasureInit == er = [at |-> 0, errors |-> FALSE, done |-> FALSE] /\ faults = 0

-----------------------------------------------------------------------------
(* The stores in the order of the erasure, with the tables each deletes.   *)
SessionsErased == {"sessions"}
AgentsErased == {"agent_tool_calls", "agent_runs"}
TokensErased == {"connector_oauth_tokens"}
ImportsErased == {"import_run_items", "import_runs"}
CapturesErased == {"captures"}
FeedbackErased == {"answer_feedback", "feedback_credit_ledger", "output_preferences", "answer_interactions"}
UsageErased == {"model_route_usage"}
BusErased == {"webhook_subscriptions", "memory_events"}
GraphErased == {"kg_memory_entities", "kg_relations", "kg_entities"}
IntelligenceErased == {"learning_edges", "intelligence_events", "concept_capsules", "creator_profiles"}
HomeErased ==
    {"home_image_observations", "home_image_evidence", "home_physical_objects", "home_object_sightings"}
VectorsErased == {"vectors"}
(* Mutant of Residuals: a table is forgotten.                              *)
ResidualsWithoutQueue ==
    {"topic_memory_links", "ingest_agent_claims", "youtube_pipeline_runs",
     "youtube_connector_metrics", "browser_bookmarks", "content_url_index", "transcript_hash",
     "capsule_json", "memory_fts_documents", "semantic_cache", "memory_review_schedule",
     "topic_profiles", "ingest_agent_rules", "youtube_memories", "video_reflection",
     "video_registry", "users"}
Residuals ==
    {"topic_memory_links", "ingest_agent_claims", "youtube_retry_queue", "youtube_pipeline_runs",
     "youtube_connector_metrics", "browser_bookmarks", "content_url_index", "transcript_hash",
     "capsule_json", "memory_fts_documents", "semantic_cache", "memory_review_schedule",
     "topic_profiles", "ingest_agent_rules", "youtube_memories", "video_reflection",
     "video_registry", "users"}

(* delete_all_memories: every memory, and of the other stores what belongs *)
(* to one of them.                                                         *)
OfMemories ==
    {"vectors", "memory_fts_documents", "capsule_json", "memory_review_schedule", "video_registry",
     "video_reflection", "content_url_index", "youtube_memories", "kg_memory_entities",
     "kg_relations", "topic_memory_links", "semantic_cache"}

Steps ==
    <<SessionsErased, AgentsErased, TokensErased, ImportsErased, CapturesErased,
      {"memory_records"}, FeedbackErased, UsageErased, BusErased, GraphErased,
      IntelligenceErased, HomeErased, VectorsErased, Residuals>>
Memories == 6
Last == Len(Steps)

(* Steps that find none of the kind's tables change nothing; without all   *)
(* memories gone, the vectors and the residuals stay.                      *)
Concerns(n) == n = Memories \/ Steps[n] \cap DOMAIN store.tables # {}
After(n, errors) ==
    LET later == {k \in (n + 1)..Last : Concerns(k) /\ (errors => k < Last - 1)}
    IN IF later = {} THEN Last + 1 ELSE CHOOSE k \in later : \A j \in later : k <= j

-----------------------------------------------------------------------------
Erased(rows) ==
    /\ db' = db \ rows
    /\ settled' = {}
    /\ UNCHANGED <<store, seq, tx, pend, locks, overtaken, muddled, ops>>

(* The exclusive lock waits for all transactions that hold the shared one. *)
Fence ==
    /\ kind \notin DOMAIN Local
    /\ er.at = 0 /\ (~er.done \/ er.errors)
    /\ \A t \in Threads : ~Open(t)
    /\ Leaver \notin locks
    /\ fenced' = TRUE
    /\ er' = [at |-> After(0, FALSE), errors |-> FALSE, done |-> FALSE]
    /\ UNCHANGED <<store, db, seq, tx, pend, locks, overtaken, settled, muddled, ops, faults>>

(* The rows of the owner, in the tables of a step; children by the owner   *)
(* of their parents.  Foreign keys take the other children along.          *)
(* Mutant of Mine: children are looked up by the parent's id alone.        *)
MineByKey(n) == {r \in db : r.tab \in Steps[n] /\ (r.owner = Leaver \/ Table(r.tab).fk)}
Mine(n) == Rows(Leaver, Steps[n])

EraseStore ==
    /\ er.at \in (1..Last) \ {Memories}
    /\ Erased(Mine(er.at) \cup ChildrenOf(Mine(er.at), db))
    /\ er' = [er EXCEPT !.at = After(er.at, er.errors)]
    /\ UNCHANGED <<fenced, faults>>

(* A memory whose deletion fails is an error and stays; of what belongs to *)
(* memories some has lost its memory before.                               *)
EraseMemories ==
    /\ er.at = Memories
    /\ \E fails \in BOOLEAN, gone \in SUBSET Rows(Leaver, OfMemories \cup {"memory_records"}) :
       /\ IF fails THEN faults < MaxFaults ELSE Rows(Leaver, {"memory_records"}) \subseteq gone
       /\ faults' = IF fails THEN faults + 1 ELSE faults
       /\ Erased(gone \cup ChildrenOf(gone, db))
       /\ er' = [er EXCEPT !.errors = fails, !.at = After(Memories, fails)]
       /\ UNCHANGED fenced

Finish ==
    /\ er.at = Last + 1
    /\ er' = [er EXCEPT !.at = 0, !.done = TRUE]
    /\ UNCHANGED <<tableVars, faults>>

(* A store raises: the erasure ends there, and nothing says it is done.    *)
Raises ==
    /\ er.at \in 1..Last /\ faults < MaxFaults
    /\ er' = [er EXCEPT !.at = 0] /\ faults' = faults + 1
    /\ UNCHANGED tableVars

ErasureStep == Fence \/ EraseStore \/ EraseMemories \/ Finish \/ Raises
=============================================================================
