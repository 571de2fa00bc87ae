------------------------------ MODULE JobQueue ------------------------------
(***************************************************************************)
(* The background job queue of the single-process SQLite deployment:       *)
(* JobStore (app/db/job_store.py), the worker threads of JobWorker         *)
(* (app/services/job_worker.py) and the job-control requests of            *)
(* app/api/routes/jobs.py.                                                 *)
(*                                                                         *)
(* One action is one SQLite transaction.  claim_next_item, heartbeat_item, *)
(* complete_item and create_playlist_job are one transaction each;         *)
(* set_paused, cancel_job, retry_failed and delete_job read the job row on *)
(* a connection of its own and write in a LATER transaction, so each of    *)
(* them is two actions and anything may run in between.                    *)
(*                                                                         *)
(* Left out: titles, urls, timestamps other than "has this lease run       *)
(* out?", the job_events log, and background_jobs.lease_owner/lease_until, *)
(* which no code reads.                                                    *)
(***************************************************************************)
EXTENDS Naturals, FiniteSets

CONSTANTS
    Jobs,         \* playlist jobs that may be created (uuid4: never reused)
    Items,        \* job_items.id, the AUTOINCREMENT row id of an item
    JobOf,        \* the job an item belongs to
    Workers,      \* worker ids (uuid4 per thread and per process start)
    StartOf,      \* the server start a worker thread belongs to: 1, 2, ...
    Clients,      \* concurrently served job-control requests
    LegacyItems,  \* items left 'processing' by a release without leases
    None,
    MaxFaults,    \* bound: crashes, missed heartbeats and store errors
    MaxRequests   \* bound: job-control requests

ASSUME ItemsAssumption == Items \subseteq Nat /\ IsFiniteSet(Items)
ASSUME JobOfAssumption == JobOf \in [Items -> Jobs]
ASSUME LegacyAssumption == LegacyItems \subseteq Items
ASSUME WorkersAssumption == None \notin Workers \cup Items
ASSUME StartOfAssumption == StartOf \in [Workers -> Nat]
ASSUME BoundsAssumption == MaxFaults \in Nat /\ MaxRequests \in Nat

VARIABLES
    status,   \* background_jobs.status, plus "absent" and "deleted"
    paused,   \* background_jobs.paused
    tally,    \* background_jobs.{queued,processing,completed,skipped,failed}
    istat,    \* job_items.status, plus "none" when there is no row
    lease,    \* job_item_leases.worker_id, or None when there is no row
    lapsed,   \* lease_until <= now (updated_at too old, if there is no row)
    wpc,      \* where a worker thread is
    witem,    \* the item it claimed
    wres,     \* the status it is about to report
    starts,   \* how often the server process was started
    req,      \* the request each client has read the job row for
    faults,   \* faults so far, at most MaxFaults
    asks      \* requests so far, at most MaxRequests

jobVars    == <<status, paused, tally>>
itemVars   == <<istat, lease, lapsed>>
workerVars == <<wpc, witem, wres>>
vars       == <<jobVars, itemVars, workerVars, starts, req, faults, asks>>

Outcomes == {"completed", "skipped", "failed"}
Tallies  == {"queued", "processing"} \cup Outcomes
Statuses == {"absent", "queued", "running", "completed", "cancelled", "deleted"}
Ops      == {"pause", "resume", "cancel", "retry", "delete"}
NoReq    == [op |-> "idle", job |-> None]
Requests == [op : Ops, job : Jobs] \cup {NoReq}

ItemsOf(j)   == {i \in Items : JobOf[i] = j}
InState(j,s) == {i \in ItemsOf(j) : istat[i] = s}
HasRow(j)    == status[j] \notin {"absent", "deleted"}
Busy         == {"claimed", "ingesting", "reporting", "rescuing"}

TypeOK ==
    /\ status \in [Jobs -> Statuses]
    /\ paused \in [Jobs -> BOOLEAN]
    /\ tally  \in [Jobs -> [Tallies -> Nat]]
    /\ istat  \in [Items -> Tallies \cup {"none", "cancelled"}]
    /\ lease  \in [Items -> Workers \cup {None}]
    /\ lapsed \in [Items -> BOOLEAN]
    /\ wpc    \in [Workers -> {"off", "idle", "dead"} \cup Busy]
    /\ witem  \in [Workers -> Items \cup {None}]
    /\ wres   \in [Workers -> Outcomes \cup {None}]
    /\ starts \in Nat
    /\ req    \in [Clients -> Requests]
    /\ faults \in 0..MaxFaults
    /\ asks   \in 0..MaxRequests

-----------------------------------------------------------------------------
(* The database an upgraded deployment starts from: no job, or jobs whose  *)
(* legacy items were being processed when the old release stopped.         *)

LegacyJobs == {JobOf[i] : i \in LegacyItems}

Init ==
    /\ status = [j \in Jobs |-> IF j \in LegacyJobs THEN "running" ELSE "absent"]
    /\ paused = [j \in Jobs |-> FALSE]
    /\ istat  = [i \in Items |-> IF i \in LegacyItems THEN "processing"
                                 ELSE IF JobOf[i] \in LegacyJobs THEN "queued"
                                 ELSE "none"]
    /\ tally  = [j \in Jobs |-> [s \in Tallies |-> Cardinality(InState(j, s))]]
    /\ lease  = [i \in Items |-> None]
    /\ lapsed = [i \in Items |-> FALSE]
    /\ wpc    = [w \in Workers |-> "off"]
    /\ witem  = [w \in Workers |-> None]
    /\ wres   = [w \in Workers |-> None]
    /\ starts = 0
    /\ req    = [c \in Clients |-> NoReq]
    /\ faults = 0
    /\ asks   = 0

(* create_playlist_job.  Row ids grow, so the items of a job are inserted  *)
(* when every smaller id has been.                                         *)
CreateJob(j) ==
    /\ status[j] = "absent"
    /\ \A i \in ItemsOf(j), k \in Items :
          k < i /\ JobOf[k] # j => status[JobOf[k]] # "absent"
    /\ status' = [status EXCEPT ![j] = "queued"]
    /\ tally'  = [tally EXCEPT ![j]["queued"] = Cardinality(ItemsOf(j))]
    /\ istat'  = [i \in Items |-> IF JobOf[i] = j THEN "queued" ELSE istat[i]]
    /\ UNCHANGED <<paused, lease, lapsed, workerVars, starts, req, faults, asks>>

-----------------------------------------------------------------------------
(* claim_next_item                                                         *)

(* Mutant of Expired: the claim query looks for queued items only.         *)
NeverExpired(i) == FALSE

Active(j)    == status[j] \in {"queued", "running"} /\ ~paused[j]
Expired(i)   == istat[i] = "processing" /\ lapsed[i]
Claimable(i) == Active(JobOf[i]) /\ (istat[i] = "queued" \/ Expired(i))

(* ORDER BY CASE WHEN processing THEN 0 ELSE 1 END, id                     *)
ClaimsBefore(i, k) == \/ Expired(i) /\ ~Expired(k)
                      \/ (Expired(i) <=> Expired(k)) /\ i < k
NextToClaim(i) == /\ Claimable(i)
                  /\ \A k \in Items \ {i} : Claimable(k) => ClaimsBefore(i, k)

(* MAX(0, n - 1)                                                           *)
Less1(n) == IF n = 0 THEN 0 ELSE n - 1

TakeLease(w, i) ==
    /\ istat'  = [istat  EXCEPT ![i] = "processing"]
    /\ lease'  = [lease  EXCEPT ![i] = w]
    /\ lapsed' = [lapsed EXCEPT ![i] = FALSE]
    /\ status' = [status EXCEPT ![JobOf[i]] = "running"]
    /\ wpc'    = [wpc    EXCEPT ![w] = "claimed"]
    /\ witem'  = [witem  EXCEPT ![w] = i]
    /\ UNCHANGED <<starts, paused, wres, req, faults, asks>>

ClaimQueued(w, i) ==
    /\ wpc[w] = "idle"
    /\ NextToClaim(i) /\ ~Expired(i)
    /\ TakeLease(w, i)
    /\ tally' = [tally EXCEPT ![JobOf[i]]["processing"] = @ + 1,
                              ![JobOf[i]]["queued"] = Less1(@)]

(* Mutant of ReclaimExpired: a takeover counts the item as a new claim.    *)
ReclaimCountsTwice(w, i) ==
    /\ wpc[w] = "idle"
    /\ NextToClaim(i) /\ Expired(i)
    /\ TakeLease(w, i)
    /\ tally' = [tally EXCEPT ![JobOf[i]]["processing"] = @ + 1]

ReclaimExpired(w, i) ==
    /\ wpc[w] = "idle"
    /\ NextToClaim(i) /\ Expired(i)
    /\ TakeLease(w, i)
    /\ UNCHANGED tally

-----------------------------------------------------------------------------
(* _process_item and its heartbeat thread                                  *)

Idle(w) ==
    /\ wpc'   = [wpc   EXCEPT ![w] = "idle"]
    /\ witem' = [witem EXCEPT ![w] = None]
    /\ wres'  = [wres  EXCEPT ![w] = None]

GoTo(w, pc, result) ==
    /\ wpc'  = [wpc  EXCEPT ![w] = pc]
    /\ wres' = [wres EXCEPT ![w] = result]
    /\ UNCHANGED witem

(* get_job_execution_context; a job deleted meanwhile raises KeyError,     *)
(* which _loop logs and drops.                                             *)
LoadContext(w) ==
    /\ wpc[w] = "claimed"
    /\ IF HasRow(JobOf[witem[w]]) THEN GoTo(w, "ingesting", None) ELSE Idle(w)
    /\ UNCHANGED <<starts, jobVars, itemVars, req, faults, asks>>

(* ingest_single_url returns a result: skipped, success or failure.        *)
IngestReturns(w, r) ==
    /\ wpc[w] = "ingesting"
    /\ GoTo(w, "reporting", r)
    /\ UNCHANGED <<starts, jobVars, itemVars, req, faults, asks>>

(* Mutant of IngestRaises: the except branch reports "error".              *)
RaisesUnknownStatus(w) ==
    /\ wpc[w] = "ingesting"
    /\ GoTo(w, "rescuing", "error")
    /\ UNCHANGED <<starts, jobVars, itemVars, req, faults, asks>>

(* ingest_single_url raises: the except branch reports "failed".           *)
IngestRaises(w) ==
    /\ wpc[w] = "ingesting"
    /\ GoTo(w, "rescuing", "failed")
    /\ UNCHANGED <<starts, jobVars, itemVars, req, faults, asks>>

(* Mutant of Owns: complete_item checks that the item is in progress, not  *)
(* whose it is.                                                            *)
OwnsAnything(w, i) == istat[i] = "processing"

Owns(w, i)   == lease[i] = w /\ istat[i] = "processing"
Unfinished(j) == InState(j, "queued") \cup InState(j, "processing")

(* Mutant of LastOpen: only queued items are counted as remaining.         *)
LastQueued(i) == InState(JobOf[i], "queued") \ {i} = {}
(* No other item of the job is queued or being processed.                  *)
LastOpen(i) == Unfinished(JobOf[i]) \ {i} = {}

(* Mutant of Finalize: the job is completed even if it was cancelled.      *)
FinalizeResurrects(i, r) ==
    LET j == JobOf[i] IN
    /\ istat' = [istat EXCEPT ![i] = r]
    /\ lease' = [lease EXCEPT ![i] = None]
    /\ tally' = [tally EXCEPT ![j]["processing"] = Less1(@), ![j][r] = @ + 1]
    /\ lapsed' = [lapsed EXCEPT ![i] = FALSE]
    /\ status' = IF LastOpen(i)
                 THEN [status EXCEPT ![j] = "completed"] ELSE status

(* complete_item with a worker_id, for its owner: the item, its lease, the *)
(* counters and, with the last open item, the job.                         *)
Finalize(i, r) ==
    LET j == JobOf[i] IN
    /\ istat' = [istat EXCEPT ![i] = r]
    /\ lease' = [lease EXCEPT ![i] = None]
    /\ tally' = [tally EXCEPT ![j]["processing"] = Less1(@), ![j][r] = @ + 1]
    /\ lapsed' = [lapsed EXCEPT ![i] = FALSE]
    /\ status' = IF LastOpen(i) /\ status[j] # "cancelled"
                 THEN [status EXCEPT ![j] = "completed"] ELSE status

Report(w) ==
    /\ wpc[w] \in {"reporting", "rescuing"}
    /\ Owns(w, witem[w])
    /\ Finalize(witem[w], wres[w])
    /\ Idle(w)
    /\ UNCHANGED <<starts, paused, req, faults, asks>>

(* complete_item returns False: the late result is discarded.              *)
DiscardStale(w) ==
    /\ wpc[w] \in {"reporting", "rescuing"}
    /\ ~Owns(w, witem[w])
    /\ Idle(w)
    /\ UNCHANGED <<starts, jobVars, itemVars, req, faults, asks>>

(* complete_item raises (the database stays locked): the except branch     *)
(* reports "failed"; if that raises too, _loop drops the exception and the *)
(* claim is left to expire.                                                *)
ReportRaises(w) ==
    /\ wpc[w] \in {"reporting", "rescuing"}
    /\ faults < MaxFaults /\ faults' = faults + 1
    /\ IF wpc[w] = "reporting" THEN GoTo(w, "rescuing", "failed") ELSE Idle(w)
    /\ UNCHANGED <<starts, jobVars, itemVars, req, asks>>

(* heartbeat_item.  It renews a lease that has run out as long as nobody   *)
(* took the item over.                                                     *)
Heartbeat(w) ==
    /\ wpc[w] \in Busy \ {"claimed"}
    /\ Owns(w, witem[w]) /\ lapsed[witem[w]]
    /\ lapsed' = [lapsed EXCEPT ![witem[w]] = FALSE]
    /\ UNCHANGED <<jobVars, istat, lease, workerVars, starts, req, faults, asks>>

(* Time passes.  The lease of an item somebody is still heartbeating runs  *)
(* out only if the heartbeats are missed (a fault).                        *)
Tended(i) == \E w \in Workers : wpc[w] \in Busy /\ witem[w] = i /\ lease[i] = w

LeaseRunsOut(i) ==
    /\ istat[i] = "processing" /\ ~lapsed[i] /\ ~Tended(i)
    /\ lapsed' = [lapsed EXCEPT ![i] = TRUE]
    /\ UNCHANGED <<jobVars, istat, lease, workerVars, starts, req, faults, asks>>

HeartbeatsMissed(i) ==
    /\ istat[i] = "processing" /\ ~lapsed[i] /\ Tended(i)
    /\ faults < MaxFaults /\ faults' = faults + 1
    /\ lapsed' = [lapsed EXCEPT ![i] = TRUE]
    /\ UNCHANGED <<jobVars, istat, lease, workerVars, starts, req, asks>>

(* The server process dies with its worker threads and open requests; the  *)
(* next one starts threads with fresh worker ids.                          *)
Crash ==
    /\ \E w \in Workers : wpc[w] \in {"idle"} \cup Busy
    /\ faults < MaxFaults /\ faults' = faults + 1
    /\ wpc' = [w \in Workers |-> IF wpc[w] = "off" THEN "off" ELSE "dead"]
    /\ witem' = [w \in Workers |-> None]
    /\ wres'  = [w \in Workers |-> None]
    /\ req'   = [c \in Clients |-> NoReq]
    /\ UNCHANGED <<starts, jobVars, itemVars, asks>>

StartServer ==
    /\ \A w \in Workers : wpc[w] \in {"off", "dead"}
    /\ \E w \in Workers : StartOf[w] = starts + 1
    /\ starts' = starts + 1
    /\ wpc' = [w \in Workers |-> IF StartOf[w] = starts + 1 THEN "idle" ELSE wpc[w]]
    /\ UNCHANGED <<jobVars, itemVars, witem, wres, req, faults, asks>>

-----------------------------------------------------------------------------
(* Job-control requests: the read, the early returns, then the write.      *)

(* A resume of a finished job, a cancel of a finished job and a retry of a *)
(* cancelled job end at the read.                                          *)
Refused(op, j) ==
    \/ op = "resume" /\ status[j] \in {"completed", "cancelled"}
    \/ op = "cancel" /\ status[j] \in {"completed", "cancelled"}
    \/ op = "retry"  /\ status[j] = "cancelled"

ReadJob(c, op, j) ==
    /\ req[c] = NoReq /\ asks < MaxRequests
    /\ HasRow(j) /\ ~Refused(op, j)
    /\ req'  = [req EXCEPT ![c] = [op |-> op, job |-> j]]
    /\ asks' = asks + 1
    /\ UNCHANGED <<jobVars, itemVars, workerVars, starts, faults>>

Writing(c, ops) == req[c].op \in ops /\ req' = [req EXCEPT ![c] = NoReq]

(* The row is gone: every statement of the write matches nothing.          *)
WriteNothing(c) ==
    /\ Writing(c, Ops) /\ ~HasRow(req[c].job)
    /\ UNCHANGED <<jobVars, itemVars, workerVars, starts, faults, asks>>

SetPaused(c) ==
    /\ Writing(c, {"pause", "resume"}) /\ HasRow(req[c].job)
    /\ paused' = [paused EXCEPT ![req[c].job] = (req[c].op = "pause")]
    /\ UNCHANGED <<status, tally, itemVars, workerVars, starts, faults, asks>>

CancelJob(c) ==
    LET j == req[c].job IN
    /\ Writing(c, {"cancel"}) /\ HasRow(j)
    /\ istat' = [i \in Items |-> IF i \in InState(j, "queued")
                                 THEN "cancelled" ELSE istat[i]]
    /\ status' = [status EXCEPT ![j] = "cancelled"]
    /\ paused' = [paused EXCEPT ![j] = TRUE]
    /\ tally'  = [tally EXCEPT ![j]["queued"] = 0]
    /\ UNCHANGED <<lease, lapsed, workerVars, starts, faults, asks>>

RetryFailed(c) ==
    LET j == req[c].job IN
    /\ Writing(c, {"retry"}) /\ HasRow(j)
    /\ istat' = [i \in Items |-> IF i \in InState(j, "failed")
                                 THEN "queued" ELSE istat[i]]
    /\ status' = [status EXCEPT ![j] = "queued"]
    /\ paused' = [paused EXCEPT ![j] = FALSE]
    /\ tally'  = [tally EXCEPT
                    ![j]["failed"] = 0,
                    ![j]["queued"] = Cardinality(InState(j, "queued")
                                                 \cup InState(j, "failed"))]
    /\ UNCHANGED <<lease, lapsed, workerVars, starts, faults, asks>>

DeleteJob(c) ==
    LET j == req[c].job IN
    /\ Writing(c, {"delete"}) /\ HasRow(j)
    /\ status' = [status EXCEPT ![j] = "deleted"]
    /\ paused' = [paused EXCEPT ![j] = FALSE]
    /\ tally'  = [tally EXCEPT ![j] = [s \in Tallies |-> 0]]
    /\ istat'  = [i \in Items |-> IF JobOf[i] = j THEN "none" ELSE istat[i]]
    /\ lease'  = [i \in Items |-> IF JobOf[i] = j THEN None ELSE lease[i]]
    /\ lapsed' = [i \in Items |-> IF JobOf[i] = j THEN FALSE ELSE lapsed[i]]
    /\ UNCHANGED <<workerVars, starts, faults, asks>>

-----------------------------------------------------------------------------
WorkerStep(w) ==
    \/ \E i \in Items : ClaimQueued(w, i) \/ ReclaimExpired(w, i)
    \/ LoadContext(w)
    \/ \E r \in Outcomes : IngestReturns(w, r)
    \/ IngestRaises(w)
    \/ Report(w)
    \/ DiscardStale(w)

ClientStep(c) ==
    \/ WriteNothing(c)
    \/ SetPaused(c)
    \/ CancelJob(c)
    \/ RetryFailed(c)
    \/ DeleteJob(c)

Next ==
    \/ \E j \in Jobs : CreateJob(j)
    \/ \E w \in Workers : WorkerStep(w)
    \/ \E w \in Workers : ReportRaises(w) \/ Heartbeat(w)
    \/ \E i \in Items : LeaseRunsOut(i) \/ HeartbeatsMissed(i)
    \/ Crash
    \/ StartServer
    \/ \E c \in Clients : \E op \in Ops, j \in Jobs : ReadJob(c, op, j)
    \/ \E c \in Clients : ClientStep(c)

Spec == Init /\ [][Next]_vars

(* Worker threads keep running (each store transaction and each ingest     *)
(* call ends), time passes, and a supervisor restarts a dead server.       *)
(* Nothing is assumed of the clients.                                      *)
Fairness ==
    /\ \A w \in Workers : WF_vars(WorkerStep(w))
    /\ \A i \in Items : WF_vars(LeaseRunsOut(i))
    /\ WF_vars(StartServer)

FairSpec == Spec /\ Fairness

-----------------------------------------------------------------------------
(* Properties                                                              *)

(* The progress counters users poll (background_jobs.queued, processing,   *)
(* completed, skipped, failed) count the job's items exactly: no           *)
(* interleaving of claims, takeovers, late completions, cancels, retries   *)
(* and crashes double-counts or loses one, and MAX(0, n - 1) never clamps. *)
CountersMatch ==
    \A j \in Jobs : \A s \in Tallies : tally[j][s] = Cardinality(InState(j, s))

(* A job shown as completed has no item queued or in progress, and a       *)
(* cancelled one has nothing left to claim, also when the transaction that *)
(* closed it ran after other transactions than the read it was based on.   *)
ClosedJobsHaveNoQueue ==
    \A j \in Jobs :
        /\ status[j] = "completed" => Unfinished(j) = {}
        /\ status[j] = "cancelled" => InState(j, "queued") = {}

(* The items keep the promises of WorkLedger.                              *)
Ledger == INSTANCE WorkLedger WITH
    state   <- [i \in Items |-> IF status[JobOf[i]] = "deleted" THEN "gone"
                                ELSE istat[i]],
    holder  <- lease,
    overdue <- lapsed,
    task    <- witem

KeepsLedger == Ledger!Spec

(* "in-flight finish without resurrecting" (docs/V1_6_PLAYLIST_WATCH_LATER *)
(* .md:58): a cancelled job stays cancelled until it is deleted.           *)
CancelIsFinal ==
    [][\A j \in Jobs : status[j] = "cancelled"
                         => status'[j] \in {"cancelled", "deleted"}]_vars

(* Work is not lost: an item of an active job is eventually settled, or    *)
(* its job stops being active (paused, cancelled, deleted), through        *)
(* crashes, lost leases and failed reports.                                *)
Open(i) == Active(JobOf[i]) /\ istat[i] \in {"queued", "processing"}

OpenItemsGetSettled == \A i \in Items : Open(i) ~> ~Open(i)
=============================================================================
