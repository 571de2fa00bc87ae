------------------------------ MODULE LocalTables ------------------------------
(***************************************************************************)
(* The stores of the SQLite file, which serve a single process and its     *)
(* threads, and all stores.  Of the local ones no account is erased, their *)
(* tables have no foreign keys, and no row is locked: what a transaction   *)
(* reads before its first write may be changed meanwhile, from there on it *)
(* has the file to itself.                                                 *)
(***************************************************************************)
EXTENDS TenantTables, TLC

-----------------------------------------------------------------------------
LocalGraphTables ==
    [kg_entities |-> Told(Both, {1, 2}),
     kg_relations |-> Child({"id"}, "kg_entities", {1, 2}, FALSE),
     kg_memory_entities |-> Child({"key"}, "kg_entities", {2}, FALSE)]
UpsertLocalEntity == [kg_entities |-> "find"]
UpsertLocalRelation == [kg_relations |-> "find"]
CloseLocalRelation == UpsertLocalRelation   \* of a relation that was read before
LinkLocalMemory == [kg_memory_entities |-> "upsert"]
UnlinkLocalMemory == [kg_memory_entities |-> "drop"]
MergeLocalEntities == [kg_entities |-> "join"]
LocalGraphWrites ==
    {UpsertLocalEntity, UpsertLocalRelation, CloseLocalRelation, LinkLocalMemory,
     UnlinkLocalMemory, MergeLocalEntities}

LocalMemoryTables ==
    [memory_records |-> Keyed,
     memory_lifecycle_events |-> Child({"id"}, "memory_records", {1}, FALSE),
     memory_versions |-> Child({"id"}, "memory_records", {1}, FALSE),
     memory_trust_history |-> Child({"id"}, "memory_records", {1}, FALSE)]
UpsertLocalMemory == [memory_records |-> "revive", memory_lifecycle_events |-> "birth"]
UpdateLocalLifecycle == [memory_records |-> "update", memory_lifecycle_events |-> "insert"]
AddLocalVersion == [memory_versions |-> "insert"]
AppendLocalTrust == [memory_trust_history |-> "insert"]
DeleteLocalMemory == All("drop", DOMAIN LocalMemoryTables)
LocalMemoryWrites ==
    {UpsertLocalMemory, UpdateLocalLifecycle, AddLocalVersion, AppendLocalTrust, DeleteLocalMemory}

(* The tables of IntelligenceStore, one group for each part of the store.  *)
LocalTopicTables ==
    [topic_profiles |-> Keyed,
     topic_memory_links |-> Child({"key"}, "topic_profiles", {1}, FALSE)]
UpsertLocalTopic == [topic_profiles |-> "find", topic_memory_links |-> "upsert"]
UnlinkLocalTopic == [topic_memory_links |-> "drop"]

LocalInsightTables ==
    [learning_edges |-> Keyed, concept_capsules |-> Keyed, creator_profiles |-> Keyed,
     intelligence_events |-> Plain]
UpsertLocalEdge == [learning_edges |-> "find"]
UpsertLocalCapsule == [concept_capsules |-> "find"]
ReplaceCreatorStats == [creator_profiles |-> "find"]
UpsertLocalCreator == [creator_profiles |-> "find"]
RecordLocalEvent == [intelligence_events |-> "insert"]
LocalInsightWrites ==
    {UpsertLocalEdge, UpsertLocalCapsule, ReplaceCreatorStats, UpsertLocalCreator, RecordLocalEvent}

LocalVideoTables == [video_registry |-> Natural, video_reflection |-> Natural]
UpsertLocalVideo == [video_registry |-> "find", video_reflection |-> "upsert"]
DeleteLocalVideo == All("drop", DOMAIN LocalVideoTables)
DeleteItem == DeleteLocalVideo      \* of the registry client, if it is there
RecordUse == [video_registry |-> "update"]
LocalVideoWrites == {UpsertLocalVideo, DeleteLocalVideo, DeleteItem, RecordUse}

(* The schedule looks its video up in the registry.                        *)
LocalReviewTables ==
    [video_registry |-> Natural,
     memory_review_schedule |-> Child({"key"}, "video_registry", {1}, FALSE)]
RecordLocalReview == [memory_review_schedule |-> "upsert"]
DeleteLocalReview == [memory_review_schedule |-> "drop"]

LocalAccountTables ==
    [users |-> Keyed, sessions |-> Child({"id"}, "users", {1}, FALSE)]
EnsureLocalUser == [users |-> "ignore"]
CreateUser == [users |-> "insert"]
UpdateTimezone == [users |-> "update"]
CreateSession == [sessions |-> "insert"]
RevokeSessions == [sessions |-> "drop"]
LocalAccountWrites == {EnsureLocalUser, CreateUser, UpdateTimezone, CreateSession, RevokeSessions}

LocalYouTubeTables ==
    [youtube_memories |-> Keyed, pipeline_runs |-> Plain, connector_retry_queue |-> Plain]
ReplaceYouTubeMemory == [youtube_memories |-> "replace"]
RecordStage == [pipeline_runs |-> "insert"]
EnqueueLocalRetry == [connector_retry_queue |-> "find"]
DeleteYouTubeMemory == [youtube_memories |-> "drop"]
LocalYouTubeWrites == {ReplaceYouTubeMemory, RecordStage, EnqueueLocalRetry, DeleteYouTubeMemory}

(* Pages that were saved: the index of their URLs, captures of them and    *)
(* bookmarks for them.                                                     *)
LocalPageTables ==
    [content_url_index |-> Natural, captures |-> Plain, browser_bookmarks |-> Natural]
RegisterUrl == [content_url_index |-> "upsert"]
DeleteReference == [content_url_index |-> "drop"]
CreateCapture == [captures |-> "insert"]
SyncSnapshot == [browser_bookmarks |-> "upsert"]
LocalPageWrites == {RegisterUrl, DeleteReference, CreateCapture, SyncSnapshot}

(* The runtime of the agents keeps its tables itself.                      *)
LocalAgentTables ==
    [agent_runs |-> Plain, agent_tool_calls |-> Child({"id"}, "agent_runs", {1}, FALSE)]

-----------------------------------------------------------------------------
Store(tables, writes, script) == [tables |-> tables, writes |-> writes, script |-> script]

Shared ==
  [bookmarks |-> Store(BookmarkTables, BookmarkWrites, BookmarkScript),
   captures  |-> Store(CaptureTables, CaptureWrites, CaptureScript),
   capsules  |-> Store(CapsuleTables, CapsuleWrites, CapsuleScript),
   creators  |-> Store(CreatorTables, CreatorWrites, CreatorScript),
   edges     |-> Store(EdgeTables, EdgeWrites, EdgeScript),
   urls      |-> Store(UrlTables, UrlWrites, UrlScript),
   fts       |-> Store(FtsTables, FtsWrites, FtsScript),
   imports   |-> Store(ImportTables, ImportWrites, ImportScript),
   artifacts |-> Store(ArtifactTables, ArtifactWrites, ArtifactScript),
   reviews   |-> Store(ReviewTables, ReviewWrites, ReviewScript),
   events    |-> Store(EventTables, EventWrites, EventScript),
   graph     |-> Store(GraphTables, GraphWrites, GraphScript),
   topics    |-> Store(TopicTables, TopicWrites, TopicScript),
   videos    |-> Store(VideoTables, VideoWrites, VideoScript),
   youtube   |-> Store(YouTubeTables, YouTubeWrites, YouTubeScript),
   metrics   |-> Store(MetricTables, MetricWrites, MetricScript),
   memories  |-> Store(MemoryTables, MemoryWrites, <<>>),
   accounts  |-> Store(AccountTables, AccountWrites, <<>>),
   tokens    |-> Store(TokenTables, TokenWrites, <<>>),
   bus       |-> Store(BusTables, BusWrites, <<>>),
   feedback  |-> Store(FeedbackTables, FeedbackWrites, <<>>),
   usage     |-> Store(UsageTables, UsageWrites, <<>>),
   home      |-> Store(HomeTables, HomeWrites, <<>>),
   images    |-> Store(ImageTables, ImageWrites, <<>>),
   rules     |-> Store(RuleTables, RuleWrites, <<>>),
   answers   |-> Store(AnswerTables, {PutAnswer, DropAnswers}, AnswerScript),
   vectors   |-> Store(VectorTables, VectorWrites, <<>>),
   agents    |-> Store(AgentTables, {}, <<>>)]

Local ==
  [local_graph    |-> Store(LocalGraphTables, LocalGraphWrites, <<>>),
   local_memories |-> Store(LocalMemoryTables, LocalMemoryWrites, <<>>),
   local_topics   |-> Store(LocalTopicTables, {UpsertLocalTopic, UnlinkLocalTopic}, <<>>),
   local_insight  |-> Store(LocalInsightTables, LocalInsightWrites, <<>>),
   local_videos   |-> Store(LocalVideoTables, LocalVideoWrites, <<>>),
   local_reviews  |-> Store(LocalReviewTables, {RecordLocalReview, DeleteLocalReview}, <<>>),
   local_accounts |-> Store(LocalAccountTables, LocalAccountWrites, <<>>),
   local_youtube  |-> Store(LocalYouTubeTables, LocalYouTubeWrites, <<>>),
   local_pages    |-> Store(LocalPageTables, LocalPageWrites, <<>>),
   local_agents   |-> Store(LocalAgentTables, {}, <<>>)]

Kind == [k \in DOMAIN Shared \cup DOMAIN Local |-> IF k \in DOMAIN Local THEN Local[k] ELSE Shared[k]]

(* Migrations for one tenant at a time: its id must be given, or all that  *)
(* the file says of the owner of a video must say it is this one.          *)
ProvenTenant == {"artifacts"}
OneTenant == {"urls", "fts", "metrics"} \cup ProvenTenant

-----------------------------------------------------------------------------
(* The id of a row: generated, or given by the key.                        *)
IdOf(table, key, generated) == IF "id" \in table.unique THEN generated ELSE key

(* In the graph, a memory of the leaver is linked to both entities.        *)
Linked(rows) ==
    rows \cup {[l EXCEPT !.ref = {e.id}] :
        l \in {r \in rows : r.tab = "kg_memory_entities" /\ r.owner = Leaver},
        e \in {r \in rows : r.tab = "kg_entities" /\ r.owner = Leaver}}
(* The rows that a kind's tables have for every owner, as the SQLite file  *)
(* holds them, or as the target holds them when there is no migration.     *)
OldRows(k) ==
    LET tables == Kind[k].tables
        OldId(tab, o, key) == IdOf(tables[tab], key, IF key = 1 THEN o ELSE o + Leaver)
    IN Linked(UNION {
        {[tab |-> tab, owner |-> o, id |-> OldId(tab, o, key), key |-> key, body |-> "old",
          ref |-> {OldId(tables[tab].parent, o, p) : p \in tables[tab].refs}] :
            o \in Owners, key \in tables[tab].keys}
        : tab \in DOMAIN tables \ {"youtube_sqlite_migration_ledger"}})

(* r is in the way of s, by one of the given ways of telling rows apart.   *)
Meets(r, s, ways) ==
    /\ r.tab = s.tab
    /\ \/ "id" \in ways /\ r.id = s.id
       \/ "key" \in ways /\ r.owner = s.owner /\ r.key = s.key /\ r.ref = s.ref
================================================================================
