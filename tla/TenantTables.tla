----------------------------- MODULE TenantTables -----------------------------
(***************************************************************************)
(* The Postgres tables that hold users' data.  A kind is a group of tables *)
(* that one store keeps: what identifies a row of each table, the writes   *)
(* of the store, and the script of the migration that brings the rows of   *)
(* the old SQLite file over, where there is one.                           *)
(*                                                                         *)
(* A row is [tab, owner, id, key, ref, body].  Its id is a generated one   *)
(* where the table has such a primary key; its key stands for what the     *)
(* user means by it (a URL, a name); ref are the ids of its parent rows.   *)
(***************************************************************************)
EXTENDS Integers, Sequences

CONSTANT Leaver     \* the user whose requests run, and whose account is erased

Owners == {1, Leaver}
ASSUME LeaverAssumption == Leaver \in Nat /\ Leaver > 1

(* How rows of a table are told apart, and whose children they are.        *)
Both == {"id", "key"}
Told(unique, keys) == [unique |-> unique, parent |-> "", refs |-> {}, fk |-> FALSE, keys |-> keys]
Natural == Told({"key"}, {1})
Keyed == Told(Both, {1})
Plain == Told({"id"}, {1})
Child(unique, p, refs, fk) ==
    [unique |-> unique, parent |-> p, refs |-> refs, fk |-> fk, keys |-> {1}]

(* A write has a verb for each table it writes to.  Most have one verb:    *)
All(verb, tabs) == [tab \in tabs |-> verb]

(* A step of a script is <<verb, table, what its ON CONFLICT clause        *)
(* covers>>.                                                               *)
Skip(tab, covered) == <<"skip", tab, covered>>

-----------------------------------------------------------------------------
BookmarkTables == [browser_bookmarks |-> Natural]
BookmarkWrites == {[browser_bookmarks |-> "upsert"]}
BookmarkScript == <<Skip("browser_bookmarks", {"key"})>>

CaptureTables == [captures |-> Plain]
CaptureWrites == {[captures |-> "insert"], [captures |-> "update"]}
CaptureScript == <<Skip("captures", {"id"})>>

CapsuleTables == [concept_capsules |-> Keyed]
CapsuleWrites == {[concept_capsules |-> "upsert"]}
CapsuleScript == <<Skip("concept_capsules", Both)>>

CreatorTables == [creator_profiles |-> Keyed]
CreatorWrites == {[creator_profiles |-> "put"]}
CreatorScript == <<Skip("creator_profiles", Both)>>

EdgeTables == [learning_edges |-> Keyed]
EdgeWrites == {[learning_edges |-> "upsert"]}
EdgeScript == <<Skip("learning_edges", Both)>>

UrlTables == [content_url_index |-> Natural]
UrlWrites == {[content_url_index |-> "upsert"], [content_url_index |-> "drop"]}
UrlScript == <<Skip("content_url_index", {"key"}), <<"parity", "content_url_index", {}>>>>

FtsTables == [memory_fts_documents |-> Natural]
FtsWrites == {[memory_fts_documents |-> "upsert"], [memory_fts_documents |-> "drop"]}
FtsScript == <<Skip("memory_fts_documents", {"key"})>>

ImportTables == [import_runs |-> Plain,
                 import_run_items |-> Child({"key"}, "import_runs", {1}, TRUE)]
CreateRun == All("insert", {"import_runs", "import_run_items"})
UpdateRun == [import_runs |-> "update"]
UpdateItem == [import_run_items |-> "update"]
ImportWrites == {CreateRun, UpdateRun, UpdateItem}
ImportScript == <<Skip("import_runs", {"id"}), <<"with", "import_run_items", {}>>>>

(* The two halves of a row of ingest_artifacts, each NULL until written.   *)
ArtifactTables == [transcript_hash |-> Natural, capsule_json |-> Natural]
ArtifactWrites == {[transcript_hash |-> "upsert"], [capsule_json |-> "upsert"],
                   [capsule_json |-> "drop"]}
ArtifactScript == <<Skip("transcript_hash", {"key"}), Skip("capsule_json", {"key"})>>

ReviewTables == [video_registry |-> Natural,
                 memory_review_schedule |-> Child({"key"}, "video_registry", {1}, FALSE)]
ReviewWrites == {[memory_review_schedule |-> "upsert"], [memory_review_schedule |-> "drop"]}
ReviewScript == <<<<"needs", "memory_review_schedule", {"key"}>>>>

EventTables == [intelligence_events |-> Plain]
EventWrites == {[intelligence_events |-> "insert"]}
(* Mutants of EventScript: ids taken by other events are passed over, and  *)
(* the sequence is left where it was.                                      *)
EventScriptUnchecked == <<Skip("intelligence_events", {"id"}), <<"setval", "intelligence_events", {}>>>>
EventScriptNoSetval == <<<<"check", "intelligence_events", {}>>, Skip("intelligence_events", {"id"})>>
EventScript ==
    <<<<"check", "intelligence_events", {}>>, Skip("intelligence_events", {"id"}),
      <<"setval", "intelligence_events", {}>>>>

GraphTables == [kg_entities |-> Told(Both, {1, 2}),
                kg_relations |-> Child(Both, "kg_entities", {1, 2}, FALSE),
                kg_memory_entities |-> Child({"key"}, "kg_entities", {2}, FALSE)]
UpsertEntity == [kg_entities |-> "put"]
UpsertRelation == [kg_relations |-> "put"]
CloseRelation == UpsertRelation     \* of a relation that was read before
LinkMemory == [kg_memory_entities |-> "upsert"]
MergeEntities == [kg_entities |-> "merge"]
GraphWrites == {UpsertEntity, UpsertRelation, CloseRelation, LinkMemory, MergeEntities}
GraphScript ==
    <<<<"check", "kg_entities", {}>>, <<"check", "kg_relations", {}>>,
      <<"check", "kg_memory_entities", {}>>,
      Skip("kg_entities", {"id"}), Skip("kg_relations", {"id"}), Skip("kg_memory_entities", {"key"})>>

TopicTables == [topic_profiles |-> Keyed,
                topic_memory_links |-> Child({"key"}, "topic_profiles", {1}, TRUE)]
TopicWrites ==
    {[topic_profiles |-> "find", topic_memory_links |-> "upsert"], [topic_memory_links |-> "drop"]}
TopicScript == <<Skip("topic_profiles", Both), Skip("topic_memory_links", {"key"})>>

VideoTables == [video_registry |-> Natural, video_reflection |-> Natural]
VideoWrites == {All("upsert", {"video_registry", "video_reflection"}),
                [video_registry |-> "update"], All("drop", {"video_registry", "video_reflection"})}
VideoScript == <<Skip("video_registry", {"key"}), Skip("video_reflection", {"key"})>>

YouTubeTables == [youtube_memories |-> Keyed, youtube_pipeline_runs |-> Plain,
                  youtube_sqlite_migration_ledger |-> Natural,
                  youtube_retry_queue |-> Natural]
YouTubeWrites == {[youtube_memories |-> "replace"], [youtube_pipeline_runs |-> "insert"],
                  [youtube_retry_queue |-> "upsert"]}
YouTubeScript ==
    <<Skip("youtube_memories", {"key"}), <<"once", "youtube_pipeline_runs", {}>>,
      Skip("youtube_retry_queue", {"key"})>>

(* The metrics of the same store, migrated from files of one tenant only.  *)
MetricTables == [youtube_connector_metrics |-> Natural]
MetricWrites == {[youtube_connector_metrics |-> "find"]}
MetricScript == <<Skip("youtube_connector_metrics", {"key"})>>

(* Two cached answers, the second of them from before the versions that    *)
(* the target has: it is not worth taking over.                            *)
AnswerTables == [semantic_cache |-> Told({"key"}, {1, 2})]
PutAnswer == [semantic_cache |-> "upsert"]
DropAnswers == [semantic_cache |-> "drop"]
AnswerScript == <<Skip("semantic_cache", {"key"})>>
Incompatible(r) == r.tab = "semantic_cache" /\ r.key = 2

-----------------------------------------------------------------------------
(* Stores without a migration.                                             *)
MemoryTables == [memory_records |-> Keyed,
                 memory_lifecycle_events |-> Child({"id"}, "memory_records", {1}, TRUE),
                 memory_versions |-> Child({"id"}, "memory_records", {1}, TRUE),
                 memory_trust_history |-> Child({"id"}, "memory_records", {1}, TRUE)]
UpsertMemory == [memory_records |-> "revive", memory_lifecycle_events |-> "birth"]
UpdateLifecycle == [memory_records |-> "update", memory_lifecycle_events |-> "insert"]
AddVersion == [memory_versions |-> "insert"]
AppendTrust == [memory_trust_history |-> "insert"]
DeleteMemory == [memory_records |-> "drop"]
MemoryWrites == {UpsertMemory, UpdateLifecycle, AddVersion, AppendTrust, DeleteMemory}

AccountTables == [users |-> Keyed, sessions |-> Child({"id"}, "users", {1}, TRUE)]
EnsureUser == [users |-> "ignore"]
RegisterUser == [users |-> "insert"]
SetTimezone == [users |-> "update"]
OpenSession == [sessions |-> "insert"]
EndSessions == [sessions |-> "drop"]        \* by the user, or expired ones
AccountWrites == {EnsureUser, RegisterUser, SetTimezone, OpenSession, EndSessions}

TokenTables == [connector_oauth_tokens |-> Natural]
TokenWrites == {[connector_oauth_tokens |-> "upsert"], [connector_oauth_tokens |-> "update"]}

BusTables == [webhook_subscriptions |-> Plain, memory_events |-> Plain]
BusWrites == {[webhook_subscriptions |-> "insert"], [memory_events |-> "insert"],
              [webhook_subscriptions |-> "drop"]}

FeedbackTables == [answer_interactions |-> Natural,
                   answer_feedback |-> Child({"key"}, "answer_interactions", {1}, FALSE),
                   feedback_credit_ledger |-> Child({"key"}, "answer_interactions", {1}, FALSE),
                   output_preferences |-> Natural]
FeedbackWrites == {[answer_interactions |-> "upsert"],
    All("ignore", {"answer_feedback", "feedback_credit_ledger", "output_preferences"})}

UsageTables == [model_route_usage |-> Plain]
UsageWrites == {[model_route_usage |-> "insert"]}

HomeTables == [home_object_sightings |-> Natural, home_presence_events |-> Natural]
HomeWrites == {[home_object_sightings |-> "ignore"], [home_presence_events |-> "ignore"]}

ImageTables == [home_image_evidence |-> Natural, home_physical_objects |-> Natural,
                home_object_sightings |-> Natural, home_image_observations |-> Natural]
ImageWrites == {All("ignore", DOMAIN ImageTables), All("drop", DOMAIN ImageTables)}

RuleTables == [ingest_agent_rules |-> Plain,
               ingest_agent_claims |-> Child({"key"}, "ingest_agent_rules", {1}, TRUE)]
RuleWrites == {[ingest_agent_rules |-> "insert"], [ingest_agent_rules |-> "update"],
               [ingest_agent_claims |-> "ignore"], [ingest_agent_claims |-> "update"],
               [ingest_agent_claims |-> "drop"]}

(* The vector store, whose writes hold the lock of the fence from outside. *)
VectorTables == [vectors |-> Natural]
VectorWrites == {[vectors |-> "upsert"], [vectors |-> "drop"]}

AgentTables == [agent_runs |-> Plain,
                agent_tool_calls |-> Child({"id"}, "agent_runs", {1}, TRUE)]
=============================================================================
