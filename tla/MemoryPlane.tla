----------------------------- MODULE MemoryPlane -----------------------------
(***************************************************************************)
(* The saved memories: ingests, searches, deletions and the users' own     *)
(* changes, on one pool of threads over the same stores.                   *)
(***************************************************************************)
EXTENDS MemoryDeletion

vars == <<recordVars, storeVars>>

TypeOK ==
    /\ record \in [Items -> [id : Nat, state : States \cup {"none"}]]
    /\ nextId \in Nat /\ ops \in 0..MaxOps /\ faults \in 0..MaxFaults
    /\ \A t \in Threads :
          /\ DOMAIN job[t] = DOMAIN Idle
          /\ job[t].op \in {"idle", "ingest", "mark", "delete", "review", "search", "state"}
          /\ IF job[t] = Idle THEN job[t].op = "idle"
             ELSE job[t].plan \in Names /\ job[t].at \in DOMAIN Plan[job[t].plan]
          /\ \A k \in DOMAIN job[t].path : job[t].path[k] \in {"to"} \X States
    /\ sqlite \in BOOLEAN
    /\ rows \subseteq Stores \X (Items \cup {Source[i] : i \in Items})
    /\ version \in Nat /\ muddled \subseteq Items
    /\ cache \in [Users -> [ver : Nat, began : Nat, ans : SUBSET Items, late : BOOLEAN]]

Init == \E saved \in Starts : RecordsInit(saved) /\ StoresInit(saved)

UserRequest(t) ==
    \E i \in Items :
       \/ archive(t, i) /\ UNCHANGED storeVars
       \/ revive(t, i) /\ UNCHANGED storeVars
       \/ merge(t, i) /\ UNCHANGED storeVars
       \/ Search(t, i)
       \/ DeleteMemory(t, i)
       \/ RecordReview(t, i)

IngestRequest(t) ==
    \E i \in Items, force \in BOOLEAN : IngestVideo(t, i, force) \/ IngestPage(t, i, force)

(* The server stops: its threads are gone, and nothing resumes their work. *)
Crash ==
    /\ Fault
    /\ \E t \in Threads : job[t] # Idle
    /\ job' = [t \in Threads |-> Idle]
    /\ muddled' = muddled \cup UNION {Touching(Of(t)) : t \in {x \in Threads : Rewriting(x)}}
    /\ UNCHANGED <<record, nextId, sqlite, rows, version, cache, ops>>

Next ==
    \/ \E t \in Threads :
          \/ UserRequest(t) \/ IngestRequest(t)
          \/ PipelineStep(t) \/ ReadTranscript(t)
          \/ SearchStep(t) \/ DeletionStep(t) \/ DropSwallowed(t) \/ CallRaises(t)
    \/ Crash

Spec == Init /\ [][Next]_vars

-----------------------------------------------------------------------------
(* No ingest or deletion is under way on the item or on what it shares     *)
(* rows with, and none was mixed up with another or with a failure since   *)
(* the last one that was not.                                              *)
Settled(i) ==
    Touching(i) \cap muddled = {} /\ \A t \in Threads : ~(Rewriting(t) /\ Of(t) \in Touching(i))

(* What a user has as a memory is there to be found, in every store; the   *)
(* exception is a video whose transcript was known from before, deleted or *)
(* another user's, which is given a record and nothing else.               *)
SettledMemoriesAreWhole ==
    \A i \in Items : record[i] # Absent /\ Settled(i) =>
       Whole(i) \/ (~Has("registry", i) /\ Has("hash", i))

(* A deleted memory leaves nothing to be found, but the lexical rows and   *)
(* the capsule of a source that another user still has.                    *)
SettledDeletionsLeaveNothing ==
    \A i \in Items : record[i] = Absent /\ Settled(i) =>
       /\ \A s \in Stores \ {"yt", "hash", "fts", "capsule"} : ~Has(s, i)
       /\ \A s \in {"fts", "capsule"} : Has(s, i) => \E j \in Touching(i) : record[j] # Absent

(* A deletion that no other rewrite of the memory overlaps, first or       *)
(* repeated after a failure, gives up the record only when nothing else of *)
(* the memory is left that it should remove.  The exception is what a      *)
(* failure it swallowed has left (DropSwallowed): the chunks, and in       *)
(* SQLite the lexical rows.                                                *)
OwnershipGoesLast ==
    [][\A t \in Threads, i \in Items :
          /\ job[t].op = "delete" /\ job[t].alone /\ Of(t) = i
          /\ record[i] # Absent /\ record'[i] = Absent
          => \A s \in Stores \ ({"hash"} \cup job[t].missed) : ~Shared(s) => ~Has(s, i)']_vars

(* In Postgres, an answer of the current version whose search began under  *)
(* that version misses no memory that is completely stored.  A deleted     *)
(* memory is in no cached answer, but one that was being put together      *)
(* while the memory was deleted.                                           *)
AnswersAreCurrent ==
    \A i \in Items :
       LET e == cache[Owner[i]] IN
       Settled(i) =>
          /\ ~sqlite /\ e.ver = version /\ e.began = version /\ Has("registry", i) => i \in e.ans
          /\ i \in e.ans /\ record[i] = Absent => e.late

(* "Ensure a skipped/already-indexed item has a trusted memory record":     *)
(* a record that is made for an item because it is indexed already finds   *)
(* the item's chunks.                                                      *)
AlreadyIndexedIsIndexed ==
    [][\A t \in Threads, i \in Items :
          /\ job[t].op = "mark" /\ job[t].alone /\ Of(t) = i /\ i \notin muddled
          /\ record[i] = Absent /\ record'[i] # Absent
          => Has("chunks", i)]_vars
===============================================================================
