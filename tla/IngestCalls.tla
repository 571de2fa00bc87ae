----------------------------- MODULE IngestCalls -----------------------------
(***************************************************************************)
(* An ingest as its callers see it: the import threads, the captures, the  *)
(* ingest agent and the retry requests all end in ingest_single_url        *)
(* (app/services/ingest_service.py) or, for pages, in ingest_url           *)
(* (connector_ingest_service.py).  A call takes time, so it is a begin and *)
(* an end; IngestPipeline opens it up.                                     *)
(*                                                                         *)
(* What the calls leave behind and the callers read is kept here: how much *)
(* of a source is stored, the cross-connector URL index, and the queue of  *)
(* failed YouTube ingests (connector_retry_queue).                         *)
(***************************************************************************)
EXTENDS Naturals, Sequences, FiniteSets

CONSTANTS
    Urls,          \* the URLs users submit
    Canon,         \* the canonical URL of a URL, which identifies the source
    Videos,        \* the URLs that are YouTube videos
    Callers,       \* threads that call an ingest
    None,
    UniqueRetries, \* Postgres: UNIQUE(user_id, connector_id, external_id)
    MaxAttempts,   \* max_attempts, which every caller leaves at 5
    MaxFaults      \* bound: crashes and failing store calls

ASSUME CanonAssumption == Canon \in [Urls -> Urls]
ASSUME VideosAssumption == Videos \subseteq Urls
ASSUME CallersAssumption == None \notin Urls \cup Callers
ASSUME AttemptsAssumption == MaxAttempts \in Nat \ {0, 1} /\ MaxFaults \in Nat

VARIABLES
    stored,    \* how much of a source the stores hold
    urlIndex,  \* content_url_index: canonical URLs registered as saved
    queue,     \* rows of the retry queue, in id order
    calls,     \* the ingest call each caller is in
    faults     \* faults so far

callVars == <<stored, urlIndex, queue, calls, faults>>

NoCall  == [at |-> "none", url |-> None, force |-> FALSE, res |-> None, row |-> 0, seen |-> 0]
Results == {"success", "skipped", "failed"}
Retry(u, n, s) == [url |-> u, attempts |-> n, state |-> s]
Rows    == [url : Urls, attempts : Nat, state : {"live", "dead", "gone"}]

CallsTypeOK ==
    /\ stored \in [Urls -> {"no", "part", "full"}]
    /\ urlIndex \subseteq Urls
    /\ queue \in Seq(Rows)
    /\ calls \in [Callers -> [at : {"none", "running", "enqueue", "done"},
                              url : Urls \cup {None}, force : BOOLEAN,
                              res : Results \cup {None}, row : Nat, seen : Nat]]
    /\ faults \in 0..MaxFaults

CallsInit ==
    /\ stored = [u \in Urls |-> "no"]
    /\ urlIndex = {}
    /\ queue = <<>>
    /\ calls = [c \in Callers |-> NoCall]
    /\ faults = 0

Fault == faults < MaxFaults /\ faults' = faults + 1

-----------------------------------------------------------------------------
(* The retry queue.  enqueue_retry looks for a row that is not dead and    *)
(* then, in a statement of its own, updates or inserts one.                *)

LiveRows(u)  == {i \in 1..Len(queue) : queue[i].url = u /\ queue[i].state = "live"}
KeptRows(u)  == {i \in 1..Len(queue) : queue[i].url = u /\ queue[i].state # "gone"}

(* The row the SELECT returns, 0 for none, and the attempts read from it.  *)
FoundRow(i, u) == IF LiveRows(u) = {} THEN i = 0 ELSE i \in LiveRows(u)
SeenIn(i) == IF i = 0 THEN 0 ELSE queue[i].attempts

(* Mutant of CountAttempt: the row is counted up but never marked dead.    *)
CountNeverDead(i, seen) ==
    IF queue[i].state = "gone" THEN queue
    ELSE [queue EXCEPT ![i].attempts = seen + 1]

(* The UPDATE, by id, from the attempts read before: meanwhile the row may *)
(* have been counted up, marked dead or deleted.                           *)
CountAttempt(i, seen) ==
    IF queue[i].state = "gone" THEN queue
    ELSE [queue EXCEPT ![i] = Retry(queue[i].url, seen + 1,
                                    IF seen + 1 >= MaxAttempts THEN "dead" ELSE "live")]

AtLeastOne(n) == IF n = 0 THEN 1 ELSE n

(* The INSERT.  In Postgres it does nothing when a row, dead or not, has   *)
(* the video already.                                                      *)
InsertRetry(u, n) ==
    IF UniqueRetries /\ KeptRows(u) # {} THEN queue
    ELSE Append(queue, Retry(u, AtLeastOne(n), "live"))

-----------------------------------------------------------------------------
(* "Already indexed": a video by the registry and the chunks, before       *)
(* anything is fetched, a page by the URL index, after its metadata.       *)
Known(u) == IF u \in Videos THEN stored[Canon[u]] # "no" ELSE Canon[u] \in urlIndex

Skips(u) == {"skipped"} \cup (IF u \in Videos THEN {} ELSE {"failed"})

BeginCall(c, u, force) ==
    /\ calls[c].at = "none"
    /\ IF ~force /\ Known(u)
       THEN \E res \in Skips(u) :
               calls' = [calls EXCEPT ![c] = [NoCall EXCEPT !.at = "done", !.url = u, !.res = res]]
       ELSE calls' = [calls EXCEPT ![c] =
                        [NoCall EXCEPT !.at = "running", !.url = u, !.force = force]]

TakeAnswer(c) == calls' = [calls EXCEPT ![c] = NoCall]

Ended(c, r) == calls' = [calls EXCEPT ![c].at = "done", ![c].res = r]

(* Stored and, best effort for a video, registered in the URL index.       *)
CallSucceeds(c) ==
    LET u == Canon[calls[c].url] IN
    /\ calls[c].at = "running"
    /\ stored' = [stored EXCEPT ![u] = "full"]
    /\ \/ urlIndex' = urlIndex \cup {u}
       \/ calls[c].url \in Videos /\ UNCHANGED urlIndex
    /\ Ended(c, "success")
    /\ UNCHANGED <<queue, faults>>

(* A duplicate by content or title, or an unchanged transcript.            *)
CallSkips(c) ==
    /\ calls[c].at = "running" /\ ~calls[c].force
    /\ Ended(c, "skipped")
    /\ UNCHANGED <<stored, urlIndex, queue, faults>>

(* No metadata, no text, no embedding, or an exception between the writes  *)
(* of the stores, which may have been completed or not.                    *)
CallFails(c) ==
    LET u == Canon[calls[c].url] IN
    /\ calls[c].at = "running"
    /\ \E s \in {stored[u], "part", "full"} : stored' = [stored EXCEPT ![u] = s]
    /\ Ended(c, "failed")
    /\ UNCHANGED <<urlIndex, queue, faults>>

(* The transcript could not be fetched for a reason that may pass: the     *)
(* video is put on the retry queue.                                        *)
CallMissesTranscript(c) ==
    /\ calls[c].at = "running" /\ calls[c].url \in Videos
    /\ \E i \in 0..Len(queue) :
          /\ FoundRow(i, Canon[calls[c].url])
          /\ calls' = [calls EXCEPT ![c] =
                          [at |-> "enqueue", url |-> @.url, force |-> @.force, res |-> None,
                           row |-> i, seen |-> SeenIn(i)]]
    /\ UNCHANGED <<stored, urlIndex, queue, faults>>

CallEnqueues(c) ==
    LET k == calls[c] IN
    /\ k.at = "enqueue"
    /\ queue' = IF k.row # 0 THEN CountAttempt(k.row, k.seen)
                ELSE InsertRetry(Canon[k.url], 0)
    /\ Ended(c, "failed")
    /\ UNCHANGED <<stored, urlIndex, faults>>

CallStep(c) ==
    \/ CallSucceeds(c)
    \/ CallSkips(c)
    \/ CallFails(c)
    \/ CallMissesTranscript(c)
    \/ CallEnqueues(c)
=============================================================================
