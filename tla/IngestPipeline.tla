---------------------------- MODULE IngestPipeline ----------------------------
(***************************************************************************)
(* What an ingest does to the stores (ingest_service.py for videos,        *)
(* connector_ingest_service.py for pages), call by call: IngestCalls shows *)
(* the same ingests from the outside.                                      *)
(*                                                                         *)
(* The derived stores are one set of rows.  In the SQLite profile the      *)
(* lexical index, the capsule JSON and the transcript hashes are keyed by  *)
(* the source alone, so the copies of different users share them.          *)
(***************************************************************************)
EXTENDS MemoryRecords

VARIABLES
    sqlite,   \* the storage profile: SQLite, else Postgres
    rows,     \* <<store, key>>: what the derived stores hold
    version,  \* memory_index_version
    cache,    \* semantic_cache: the answer kept for each user's question
    muddled   \* history: items whose stores a failure or a race may have mixed up

storeVars == <<sqlite, rows, version, cache, muddled>>

Stores == {"yt", "chunks", "vectors", "capsule", "fts", "hash", "registry",
           "links", "topics", "review", "url"}

Shared(store) == sqlite /\ store \in {"capsule", "fts", "hash"}
Row(store, i) == <<store, IF Shared(store) THEN Source[i] ELSE i>>
Has(store, i) == Row(store, i) \in rows

Content == {"chunks", "vectors", "capsule", "fts", "registry"}

(* Stored, searchable and owned.                                           *)
Whole(i) == record[i] # Absent /\ \A s \in Content : Has(s, i)

NoAnswer == [ver |-> 0, began |-> 0, ans |-> {}, late |-> FALSE]
Users == {Owner[i] : i \in Items}

StoresInit(saved) ==
    /\ sqlite \in BOOLEAN
    /\ rows = {Row(s, i) : s \in Stores \ {"review"}, i \in {x \in saved : Source[x] \notin Pages}}
                \cup {Row(s, i) : s \in Stores \ {"review", "yt", "hash"},
                                  i \in {x \in saved : Source[x] \in Pages}}
    /\ version = 1
    /\ cache = [u \in Users |-> NoAnswer]
    /\ muddled = {}

-----------------------------------------------------------------------------
(* The history of mix-ups.  Ingests and deletions of items that share rows *)
(* touch each other.                                                       *)

Touching(i) == {j \in Items : j = i \/ (sqlite /\ Source[j] = Source[i])}
Rewriting(t) == job[t].op \in {"ingest", "mark", "delete", "review"}
Beside(t, i) == {x \in Threads \ {t} : Rewriting(x) /\ Of(x) \in Touching(i)}

(* A deletion beside an ingest, or beside a deletion of another's copy,    *)
(* leaves the rows of either.                                              *)
MixUp(t, op, i) ==
    IF \E x \in Beside(t, i) : IF op = "delete" THEN job[x].op # "delete" \/ Of(x) # i
                                             ELSE job[x].op = "delete"
    THEN muddled \cup Touching(i) ELSE muddled

StartsRewriting(t, op, i, plan) ==
    /\ muddled' = MixUp(t, op, i)
    /\ job' = [x \in Threads |->
                 CASE x = t -> [Idle EXCEPT !.op = op, !.item = i, !.plan = plan, !.at = 1,
                                  !.mid = IF op = "delete" THEN record[i].id ELSE 0,
                                  !.alone = Beside(t, i) = {}]
                   [] x \in Beside(t, i) -> [job[x] EXCEPT !.alone = FALSE]
                   [] OTHER -> job[x]]

(* A rewrite that ran alone to its last step, and missed nothing that it   *)
(* should remove, puts its item in order again.                            *)
Ordered(t) ==
    IF /\ job[t].op \in {"ingest", "delete"} /\ LastCall(job[t])
       /\ job[t].alone /\ job[t].missed = {}
    THEN {Of(t)} ELSE {}

Marked(i) == record[i].state \in {"trusted", "verified"}

-----------------------------------------------------------------------------
(* A video: skipped when it is registered or has chunks, which only makes  *)
(* sure of its record; else its metadata are kept and its transcript read. *)
IngestVideo(t, i, force) ==
    /\ Begins(t) /\ Source[i] \notin Pages
    /\ IF ~force /\ (Has("registry", i) \/ Has("chunks", i))
       THEN /\ ~Marked(i)
            /\ StartsRewriting(t, "mark", i, <<"mark">>) /\ UNCHANGED rows
       ELSE /\ StartsRewriting(t, "ingest", i,
                 <<"read", IF force THEN "refetch" ELSE "transcript">>)
            /\ rows' = rows \cup {Row("yt", i)}
    /\ UNCHANGED <<record, nextId, sqlite, version, cache, faults>>

(* The transcript.  It does not change while the server runs (it is kept   *)
(* in _TRANSCRIPT_CACHE), so a stored hash means "unchanged".  Otherwise   *)
(* the video may be a duplicate, have no transcript or not be embedded.    *)
ReadTranscript(t) ==
    LET i == Of(t) IN
    /\ Doing(t, "transcript") \/ Doing(t, "refetch")
    /\ \/ Raises(t)
       \/ /\ Doing(t, "transcript") /\ Has("hash", i)
          /\ job' = [job EXCEPT ![t] = IF Marked(i) THEN Idle
                                       ELSE [@ EXCEPT !.op = "mark", !.plan = <<"mark">>]]
       \/ /\ Doing(t, "refetch") \/ ~Has("hash", i)
          /\ \E trusted \in BOOLEAN :
                job' = [job EXCEPT ![t].plan = <<"video", sqlite, trusted>>]
    /\ UNCHANGED <<record, nextId, sqlite, rows, version, cache, muddled, ops, faults>>

(* A page: skipped when its URL is registered, whatever its record says.   *)
IngestPage(t, i, force) ==
    /\ Begins(t) /\ Source[i] \in Pages
    /\ force \/ ~Has("url", i)
    /\ \E trusted \in BOOLEAN : StartsRewriting(t, "ingest", i, <<"page", sqlite, trusted>>)
    /\ UNCHANGED <<record, nextId, sqlite, rows, version, cache, faults>>

-----------------------------------------------------------------------------
(* The store calls of the plans.                                           *)

Adds(t) ==
    /\ Doing(t, "add")
    /\ rows' = rows \cup {Row(s, Of(t)) : s \in Argument(t)}
    /\ muddled' = muddled \ Ordered(t)
    /\ Advances(t)
    /\ UNCHANGED <<record, nextId, sqlite, version, cache, ops, faults>>

(* Topics and the URL of a video are best effort.                          *)
AddsNothing(t) ==
    /\ Doing(t, "add")
    /\ Argument(t) = {"topics"} \/ (Argument(t) = {"url"} /\ Source[Of(t)] \notin Pages)
    /\ muddled' = muddled \ Ordered(t)
    /\ Advances(t)
    /\ UNCHANGED <<record, nextId, sqlite, rows, version, cache, ops, faults>>

(* A deletion keeps the shared rows that another owner needs.              *)
Kept(t, store) == job[t].op = "delete" /\ Shared(store) /\ job[t].shared

Drops(t) ==
    /\ Doing(t, "drop")
    /\ rows' = rows \ {Row(s, Of(t)) : s \in {x \in Argument(t) : ~Kept(t, x)}}
    /\ Advances(t)
    /\ UNCHANGED <<record, nextId, sqlite, version, cache, muddled, ops, faults>>

(* bump_index_version: SQLite reads the version and then writes it; one    *)
(* statement of Postgres does both and the invalidation.                   *)
Bumps(t) ==
    /\ Doing(t, "bump")
    /\ IF sqlite
       THEN IF ~job[t].read
            THEN /\ job' = [job EXCEPT ![t].read = TRUE, ![t].ver = version]
                 /\ UNCHANGED <<version, cache>>
            ELSE version' = job[t].ver + 1 /\ Advances(t) /\ UNCHANGED cache
       ELSE /\ version' = version + 1 /\ Advances(t)
            /\ cache' = [u \in Users |-> NoAnswer]
    /\ UNCHANGED <<record, nextId, sqlite, rows, muddled, ops, faults>>

Wipes(t) ==
    /\ Doing(t, "wipe")
    /\ cache' = [u \in Users |-> NoAnswer]
    /\ Advances(t)
    /\ UNCHANGED <<record, nextId, sqlite, rows, version, muddled, ops, faults>>

PipelineStep(t) ==
    \/ Adds(t) \/ AddsNothing(t) \/ Drops(t) \/ Bumps(t) \/ Wipes(t)
    \/ RecordStep(t) /\ UNCHANGED <<storeVars, ops, faults>>

(* A store call raises: the ingest or the deletion ends where it is.       *)
CallRaises(t) ==
    /\ job[t].op \notin {"idle", "search"} /\ Fault
    /\ Raises(t)
    /\ muddled' = IF job[t].op \in {"ingest", "delete"} THEN muddled \cup Touching(Of(t)) ELSE muddled
    /\ UNCHANGED <<record, nextId, sqlite, rows, version, cache, ops>>
===============================================================================
