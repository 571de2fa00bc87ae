----------------------------- MODULE PgJobQueue -----------------------------
(***************************************************************************)
(* The background job queue of the Postgres deployment                     *)
(* (app/db/postgres_job_claims.py, postgres_job_controls.py,               *)
(* postgres_job_mutations.py, postgres_job_repository.py) with the account *)
(* erasure fence (account_erasure_fence.py) and the job erasure that       *)
(* follows it (postgres_job_privacy.py).  One tenant.                      *)
(*                                                                         *)
(* Unlike JobQueue, where SQLite runs one writing transaction at a time,   *)
(* here transactions overlap, so one action is one SQL STATEMENT under     *)
(* READ COMMITTED:                                                         *)
(*   - a statement sees what was committed when it started, waits for the  *)
(*     row locks it needs, and then looks again at the rows it locked, but *)
(*     not at the other rows its WHERE clause read;                        *)
(*   - row locks are held until the transaction ends, so its writes are    *)
(*     applied here all at once, by its last statement;                    *)
(*   - sessions waiting for each other in a cycle are a deadlock, and      *)
(*     Postgres aborts one of them.                                        *)
(* A statement that locks several rows locks them at once.  A session that *)
(* waits for its first row lock blocks nobody: it is shown as not having   *)
(* started, unless what it saw before it waited matters (a claim, a        *)
(* report).  The checks a facade method makes on a row before it calls the *)
(* store are left out: the store repeats them under the row lock.          *)
(***************************************************************************)
EXTENDS Naturals, FiniteSets

CONSTANTS
    Jobs, Items, JobOf,   \* as in JobQueue
    Workers, Clients,     \* worker threads, concurrently served requests
    Asked,                \* bound: the requests that are made, and "erase"
    Results,              \* bound: the outcomes an ingest may have
    MaxAsked,             \* bound: requests
    MaxFaults,            \* bound: leases that run out and workers that die
    None

ASSUME ItemsAssumption == Items \subseteq Nat /\ IsFiniteSet(Items)
ASSUME JobOfAssumption == JobOf \in [Items -> Jobs]
ASSUME AskedAssumption == Asked \subseteq {"create", "pause", "resume", "cancel",
                                           "retry", "delete", "erase"}
ASSUME ResultsAssumption == Results \subseteq {"completed", "skipped", "failed"}
ASSUME BoundsAssumption == MaxAsked \in Nat /\ MaxFaults \in Nat
ASSUME NoneAssumption  == None \notin Workers \cup Items \cup Jobs

VARIABLES
    status, paused, tally,   \* background_jobs, as committed
    istat,                   \* job_items.status, as committed
    lease,                   \* job_item_leases.worker_id, as committed
    late,                    \* there is a lease and lease_until <= now
    fenced,                  \* the tenant is in account_erasure_fences
    erased,                  \* its jobs were erased
    wpc, witem,              \* what a worker thread is doing, and its item
    txn,                     \* the open transaction of each session
    lock,                    \* the session holding each row lock
    asks, faults             \* requests and faults so far

jobVars  == <<status, paused, tally>>
itemVars == <<istat, lease, late>>
dbVars   == <<jobVars, itemVars, fenced, erased>>
workVars == <<wpc, witem>>
bounds   == <<asks, faults>>
vars     == <<dbVars, workVars, txn, lock, bounds>>

Outcomes == {"completed", "skipped", "failed"}
Tallies  == {"queued", "processing"} \cup Outcomes
Statuses == {"absent", "queued", "running", "completed", "cancelled", "deleted"}
Requests == {"create", "pause", "resume", "cancel", "retry", "delete"}

ItemsOf(j)    == {i \in Items : JobOf[i] = j}
InState(j, s) == {i \in ItemsOf(j) : istat[i] = s}
Unfinished(j) == InState(j, "queued") \cup InState(j, "processing")
HasRow(j)     == status[j] \notin {"absent", "deleted"}
Live(j)       == status[j] \in {"queued", "running"}

-----------------------------------------------------------------------------
(* Sessions, transactions and locks                                        *)

Main(w)   == <<"main", w>>      \* a worker thread's own connection
Beat(w)   == <<"beat", w>>      \* its heartbeat thread's
Client(c) == <<"client", c>>    \* a request's
Eraser    == <<"eraser", None>> \* the erasure's
Sessions  == {Main(w) : w \in Workers} \cup {Beat(w) : w \in Workers}
               \cup {Client(c) : c \in Clients} \cup {Eraser}
ASSUME NoneIsNoSession == None \notin Sessions

JobRow(j)   == <<"job", j>>
ItemRow(i)  == <<"item", i>>
LeaseRow(i) == <<"lease", i>>
Rows == {JobRow(j) : j \in Jobs} \cup {ItemRow(i) : i \in Items}
          \cup {LeaseRow(i) : i \in Items}

(* What a claim's statement saw when it started.                           *)
NoSnapshot == [queued |-> {}, expired |-> {}, late |-> {}]
(* A transaction whose next statement is step, on a job and an item.       *)
Open(op, step, j, i) == [op |-> op, step |-> step, job |-> j, item |-> i,
                         result |-> None, seen |-> NoSnapshot]
NoTxn == Open("none", 0, None, None)

InTxn(s, op, step) == txn[s].op = op /\ txn[s].step = step

(* The rows the next statement of s locks.                                 *)
StatementRows(s) ==
    LET i == txn[s].item
        j == txn[s].job
        LiveJob == IF Live(j) THEN {JobRow(j)} ELSE {}
        TheJob  == IF HasRow(j) THEN {JobRow(j)} ELSE {}
        MyLease == IF lease[i] = s[2] THEN {LeaseRow(i)} ELSE {}
        ItemsIn(st) == {ItemRow(k) : k \in InState(j, st)}
        Leases(K) == {LeaseRow(k) : k \in {n \in K : lease[n] # None}}
        Existing(K) == {ItemRow(k) : k \in {n \in K : istat[n] # "none"}}
    IN  CASE InTxn(s, "claim", 2)    -> {LeaseRow(i)}
          [] InTxn(s, "claim", 3)    -> LiveJob
          [] InTxn(s, "beat", 2)     -> {ItemRow(i)}
          [] InTxn(s, "beat", 3)     -> LiveJob
          [] InTxn(s, "complete", 1) -> {ItemRow(i)}
          [] InTxn(s, "complete", 2) -> MyLease
          [] InTxn(s, "complete", 3) -> TheJob
          [] InTxn(s, "cancel", 2)   -> ItemsIn("queued")
          [] InTxn(s, "retry", 2)    -> ItemsIn("failed")
          [] InTxn(s, "delete", 2)   -> Leases(ItemsOf(j))
          [] InTxn(s, "delete", 3)   -> Existing(ItemsOf(j))
          [] InTxn(s, "erase", 2)    -> Existing(Items)
          [] InTxn(s, "erase", 3)    -> {JobRow(k) : k \in {n \in Jobs : HasRow(n)}}
          [] OTHER -> {}

WaitsFor(s) == {lock[r] : r \in StatementRows(s)} \ {None, s}
MayRun(s)   == WaitsFor(s) = {}

Locking(s, R) == lock' = [r \in Rows |-> IF r \in R THEN s ELSE lock[r]]

(* A transaction starts; its first statement locks the rows of R.          *)
Begin(s, t, R) ==
    /\ txn[s] = NoTxn /\ \A r \in R : lock[r] = None
    /\ txn' = [txn EXCEPT ![s] = t]
    /\ Locking(s, R)
    /\ UNCHANGED dbVars

(* A statement that is not the last one takes its locks and changes        *)
(* nothing others can see.                                                 *)
Statement(s) ==
    /\ Locking(s, StatementRows(s))
    /\ txn' = [txn EXCEPT ![s].step = @ + 1]
    /\ UNCHANGED dbVars

(* Commit or rollback.                                                     *)
End(s) ==
    /\ txn'  = [txn EXCEPT ![s] = NoTxn]
    /\ lock' = [r \in Rows |-> IF lock[r] = s THEN None ELSE lock[r]]

Init ==
    /\ status = [j \in Jobs |-> "absent"]
    /\ paused = [j \in Jobs |-> FALSE]
    /\ tally  = [j \in Jobs |-> [t \in Tallies |-> 0]]
    /\ istat  = [i \in Items |-> "none"]
    /\ lease  = [i \in Items |-> None]
    /\ late   = [i \in Items |-> FALSE]
    /\ fenced = FALSE
    /\ erased = FALSE
    /\ wpc    = [w \in Workers |-> "idle"]
    /\ witem  = [w \in Workers |-> None]
    /\ txn    = [s \in Sessions |-> NoTxn]
    /\ lock   = [r \in Rows |-> None]
    /\ asks   = 0
    /\ faults = 0

-----------------------------------------------------------------------------
(* claim_next_item                                                         *)

Expired(i)  == istat[i] = "processing" /\ late[i]
Eligible(j) == Live(j) /\ ~paused[j]
Idle(w)     == wpc' = [wpc EXCEPT ![w] = "idle"] /\ witem' = [witem EXCEPT ![w] = None]
Less1(n)    == IF n = 0 THEN 0 ELSE n - 1

(* The query starts: the items it can see, and which leases have run out.  *)
BeginClaim(w) ==
    LET open == {i \in Items : Eligible(JobOf[i])}
        seen == [queued  |-> {i \in open : istat[i] = "queued"},
                 expired |-> {i \in open : Expired(i)},
                 late    |-> {i \in open : late[i]}]
    IN  /\ wpc[w] = "idle" /\ ~fenced
        /\ seen.queued \cup seen.expired # {}
        /\ Begin(Main(w), [Open("claim", 1, None, None) EXCEPT !.seen = seen], {})
        /\ UNCHANGED <<workVars, bounds>>

(* FOR UPDATE OF ji SKIP LOCKED LIMIT 1, in the order of the query.  An    *)
(* item that changed since it was seen is looked at again, its lease is    *)
(* not: only the item row is locked.                                       *)
StillClaimable(seen, i) ==
    /\ lock[ItemRow(i)] = None
    /\ \/ istat[i] = "queued"
       \/ istat[i] = "processing" /\ i \in seen.late

SeenFirst(seen, i, k) ==
    \/ i \in seen.expired /\ k \notin seen.expired
    \/ (i \in seen.expired <=> k \in seen.expired) /\ i < k

ClaimItem(w, i) ==
    LET seen == txn[Main(w)].seen
        Claimable == {k \in seen.queued \cup seen.expired : StillClaimable(seen, k)}
    IN  /\ InTxn(Main(w), "claim", 1)
        /\ i \in Claimable /\ \A k \in Claimable \ {i} : SeenFirst(seen, i, k)
        /\ txn' = [txn EXCEPT ![Main(w)] = Open("claim", 2, JobOf[i], i)]
        /\ lock' = [lock EXCEPT ![ItemRow(i)] = Main(w)]
        /\ UNCHANGED <<dbVars, workVars, bounds>>

ClaimNothing(w) ==
    LET seen == txn[Main(w)].seen IN
    /\ InTxn(Main(w), "claim", 1)
    /\ \A i \in seen.queued \cup seen.expired : ~StillClaimable(seen, i)
    /\ End(Main(w))
    /\ UNCHANGED <<dbVars, workVars, bounds>>

ClaimLease(w) ==
    /\ InTxn(Main(w), "claim", 2) /\ MayRun(Main(w))
    /\ Statement(Main(w))
    /\ UNCHANGED <<workVars, bounds>>

(* Mutant of ClaimJob: a takeover is counted like a first claim.           *)
ClaimCountsTwice(w) ==
    LET i == txn[Main(w)].item
        j == txn[Main(w)].job
    IN  /\ InTxn(Main(w), "claim", 3) /\ MayRun(Main(w))
        /\ End(Main(w))
        /\ istat' = [istat EXCEPT ![i] = "processing"]
        /\ lease' = [lease EXCEPT ![i] = w]
        /\ late'  = [late  EXCEPT ![i] = FALSE]
        /\ status' = IF Live(j) THEN [status EXCEPT ![j] = "running"] ELSE status
        /\ tally' = IF Live(j) THEN [tally EXCEPT ![j]["processing"] = @ + 1,
                                                  ![j]["queued"] = Less1(@)]
                               ELSE tally
        /\ wpc'   = [wpc   EXCEPT ![w] = "working"]
        /\ witem' = [witem EXCEPT ![w] = i]
        /\ UNCHANGED <<paused, fenced, erased, bounds>>

(* The job is counted only if the statement finds it queued or running.    *)
ClaimJob(w) ==
    LET i == txn[Main(w)].item
        j == txn[Main(w)].job
    IN  /\ InTxn(Main(w), "claim", 3) /\ MayRun(Main(w))
        /\ End(Main(w))
        /\ istat' = [istat EXCEPT ![i] = "processing"]
        /\ lease' = [lease EXCEPT ![i] = w]
        /\ late'  = [late  EXCEPT ![i] = FALSE]
        /\ status' = IF Live(j) THEN [status EXCEPT ![j] = "running"] ELSE status
        /\ tally' = IF Live(j) /\ istat[i] = "queued"
                    THEN [tally EXCEPT ![j]["processing"] = @ + 1,
                                       ![j]["queued"] = Less1(@)]
                    ELSE tally
        /\ wpc'   = [wpc   EXCEPT ![w] = "working"]
        /\ witem' = [witem EXCEPT ![w] = i]
        /\ UNCHANGED <<paused, fenced, erased, bounds>>

-----------------------------------------------------------------------------
(* _process_item: the context, the ingest, complete_item                   *)

(* get_job_execution_context raises KeyError for a deleted job.            *)
ContextGone(w) ==
    /\ wpc[w] = "working" /\ txn[Main(w)] = NoTxn /\ ~HasRow(JobOf[witem[w]])
    /\ Idle(w)
    /\ UNCHANGED <<dbVars, txn, lock, bounds>>

Owns(w, i) == lease[i] = w /\ istat[i] = "processing"

(* Mutant of BeginComplete: the except branch reports "error".             *)
BeginCompleteUnknown(w, r) ==
    LET i == witem[w] IN
    /\ wpc[w] = "working" \/ (wpc[w] = "rescuing" /\ r = "failed")
    /\ ~fenced /\ Owns(w, i)
    /\ Begin(Main(w), [Open("complete", 1, JobOf[i], i) EXCEPT
                          !.result = IF wpc[w] = "rescuing" THEN "error" ELSE r], {})
    /\ UNCHANGED <<workVars, bounds>>

(* The ingest ended, or raised ("rescuing": the except branch), and the    *)
(* UPDATE of the item starts for a worker whose lease it sees.             *)
BeginComplete(w, r) ==
    LET i == witem[w] IN
    /\ wpc[w] = "working" \/ (wpc[w] = "rescuing" /\ r = "failed")
    /\ ~fenced /\ Owns(w, i)
    /\ Begin(Main(w), [Open("complete", 1, JobOf[i], i) EXCEPT !.result = r], {})
    /\ UNCHANGED <<workVars, bounds>>

(* complete_item returns False: fenced, deleted, or no longer the holder.  *)
DiscardStale(w) ==
    /\ wpc[w] \in {"working", "rescuing"} /\ txn[Main(w)] = NoTxn
    /\ fenced \/ ~Owns(w, witem[w])
    /\ Idle(w)
    /\ UNCHANGED <<dbVars, txn, lock, bounds>>

(* Once the item is locked its own columns are checked again.              *)
RowStill(i) == istat[i] = "processing"

CompleteItem(w) ==
    /\ InTxn(Main(w), "complete", 1) /\ MayRun(Main(w))
    /\ IF RowStill(txn[Main(w)].item)
       THEN Statement(Main(w)) /\ UNCHANGED workVars
       ELSE End(Main(w)) /\ Idle(w) /\ UNCHANGED dbVars
    /\ UNCHANGED bounds

CompleteLease(w) ==
    /\ InTxn(Main(w), "complete", 2) /\ MayRun(Main(w))
    /\ Statement(Main(w))
    /\ UNCHANGED <<workVars, bounds>>

(* Mutant of LastOpen: only queued items are counted as remaining.         *)
LastQueued(i) == InState(JobOf[i], "queued") \ {i} = {}
(* No other item of the job is queued or being processed.                  *)
LastOpen(i) == Unfinished(JobOf[i]) \ {i} = {}

CompleteJob(w) ==
    LET i == txn[Main(w)].item
        j == txn[Main(w)].job
        r == txn[Main(w)].result
    IN  /\ InTxn(Main(w), "complete", 3) /\ MayRun(Main(w))
        /\ End(Main(w)) /\ Idle(w)
        /\ istat' = [istat EXCEPT ![i] = r]
        /\ lease' = [lease EXCEPT ![i] = IF @ = w THEN None ELSE @]
        /\ late'  = [late EXCEPT ![i] = lease[i] # w /\ @]
        /\ tally' = [tally EXCEPT ![j]["processing"] = Less1(@), ![j][r] = @ + 1]
        /\ status' = IF LastOpen(i) /\ status[j] # "cancelled"
                     THEN [status EXCEPT ![j] = "completed"] ELSE status
        /\ UNCHANGED <<paused, fenced, erased, bounds>>

-----------------------------------------------------------------------------
(* heartbeat_item: the lease, the item, the job                            *)

BeatLease(w) ==
    LET i == witem[w] IN
    /\ wpc[w] \in {"working", "rescuing"} /\ ~fenced /\ Owns(w, i)
    /\ Begin(Beat(w), Open("beat", 2, JobOf[i], i), {LeaseRow(i)})
    /\ UNCHANGED <<workVars, bounds>>

BeatItem(w) ==
    /\ InTxn(Beat(w), "beat", 2) /\ MayRun(Beat(w))
    /\ Statement(Beat(w))
    /\ UNCHANGED <<workVars, bounds>>

BeatJob(w) ==
    /\ InTxn(Beat(w), "beat", 3) /\ MayRun(Beat(w))
    /\ End(Beat(w))
    /\ late' = [late EXCEPT ![txn[Beat(w)].item] = FALSE]
    /\ UNCHANGED <<jobVars, istat, lease, fenced, erased, workVars, bounds>>

(* Time passes.                                                            *)
LeaseRunsOut(i) ==
    /\ lease[i] # None /\ ~late[i]
    /\ faults < MaxFaults /\ faults' = faults + 1
    /\ late' = [late EXCEPT ![i] = TRUE]
    /\ UNCHANGED <<jobVars, istat, lease, fenced, erased, workVars, txn, lock, asks>>

-----------------------------------------------------------------------------
(* Requests.  Every one but delete checks the fence and holds it off until *)
(* it commits.                                                             *)

Ask(c, op) ==
    /\ op \in Asked
    /\ op # "delete" => ~fenced
    /\ asks < MaxAsked /\ asks' = asks + 1

(* The INSERTs; nobody sees the rows before they are committed.            *)
BeginCreate(c, j) ==
    /\ Ask(c, "create")
    /\ status[j] = "absent" /\ \A s \in Sessions : txn[s].job # j
    /\ Begin(Client(c), Open("create", 1, j, None), {})
    /\ UNCHANGED <<workVars, faults>>

CreateJob(c) ==
    LET j == txn[Client(c)].job IN
    /\ InTxn(Client(c), "create", 1)
    /\ End(Client(c))
    /\ status' = [status EXCEPT ![j] = "queued"]
    /\ tally'  = [tally EXCEPT ![j]["queued"] = Cardinality(ItemsOf(j))]
    /\ istat'  = [i \in Items |-> IF JobOf[i] = j THEN "queued" ELSE istat[i]]
    /\ UNCHANGED <<paused, lease, late, fenced, erased, workVars, bounds>>

(* Mutant of Refused: a retry does not look at the locked row.             *)
RetryNotRefused(op, j) ==
    \/ ~HasRow(j)
    \/ op \in {"resume", "cancel"} /\ status[j] \in {"completed", "cancelled"}

(* With the job row locked: nothing happens to a missing job, a finished   *)
(* one is neither resumed nor cancelled, a cancelled one not retried.      *)
Refused(op, j) ==
    \/ ~HasRow(j)
    \/ op \in {"resume", "cancel"} /\ status[j] \in {"completed", "cancelled"}
    \/ op = "retry" /\ status[j] = "cancelled"

LockJob(c, op, j) ==
    /\ Ask(c, op) /\ op \in {"cancel", "retry", "delete"}
    /\ ~Refused(op, j)
    /\ Begin(Client(c), Open(op, 2, j, None), {JobRow(j)})
    /\ UNCHANGED <<workVars, faults>>

SetPaused(c, op, j) ==
    /\ Ask(c, op) /\ op \in {"pause", "resume"}
    /\ ~Refused(op, j)
    /\ txn[Client(c)] = NoTxn /\ lock[JobRow(j)] = None
    /\ paused' = [paused EXCEPT ![j] = (op = "pause")]
    /\ UNCHANGED <<status, tally, itemVars, fenced, erased, workVars, txn, lock, faults>>

CancelJob(c) ==
    LET j == txn[Client(c)].job IN
    /\ InTxn(Client(c), "cancel", 2) /\ MayRun(Client(c))
    /\ End(Client(c))
    /\ istat' = [i \in Items |-> IF i \in InState(j, "queued")
                                 THEN "cancelled" ELSE istat[i]]
    /\ status' = [status EXCEPT ![j] = "cancelled"]
    /\ paused' = [paused EXCEPT ![j] = TRUE]
    /\ tally'  = [tally EXCEPT ![j]["queued"] = 0]
    /\ UNCHANGED <<lease, late, fenced, erased, workVars, bounds>>

RetryFailed(c) ==
    LET j == txn[Client(c)].job IN
    /\ InTxn(Client(c), "retry", 2) /\ MayRun(Client(c))
    /\ End(Client(c))
    /\ istat' = [i \in Items |-> IF i \in InState(j, "failed")
                                 THEN "queued" ELSE istat[i]]
    /\ status' = [status EXCEPT ![j] = "queued"]
    /\ paused' = [paused EXCEPT ![j] = FALSE]
    /\ tally'  = [tally EXCEPT
                    ![j]["failed"] = 0,
                    ![j]["queued"] = Cardinality(InState(j, "queued")
                                                 \cup InState(j, "failed"))]
    /\ UNCHANGED <<lease, late, fenced, erased, workVars, bounds>>

DeleteLeases(c) ==
    /\ InTxn(Client(c), "delete", 2) /\ MayRun(Client(c))
    /\ Statement(Client(c))
    /\ UNCHANGED <<workVars, bounds>>

(* The jobs of J, their items and their leases are gone.                   *)
Drop(J) ==
    /\ status' = [j \in Jobs |-> IF j \in J /\ HasRow(j) THEN "deleted" ELSE status[j]]
    /\ paused' = [j \in Jobs |-> j \notin J /\ paused[j]]
    /\ tally'  = [j \in Jobs |-> IF j \in J THEN [t \in Tallies |-> 0] ELSE tally[j]]
    /\ istat'  = [i \in Items |-> IF JobOf[i] \in J THEN "none" ELSE istat[i]]
    /\ lease'  = [i \in Items |-> IF JobOf[i] \in J THEN None ELSE lease[i]]
    /\ late'   = [i \in Items |-> JobOf[i] \notin J /\ late[i]]

DeleteJob(c) ==
    /\ InTxn(Client(c), "delete", 3) /\ MayRun(Client(c))
    /\ End(Client(c))
    /\ Drop({txn[Client(c)].job})
    /\ UNCHANGED <<fenced, erased, workVars, bounds>>

-----------------------------------------------------------------------------
(* Erasing the account: the fence, then the jobs                           *)

(* Mutant of Writers: a creation checks the fence without holding it off.  *)
WritersButCreations == {s \in Sessions : txn[s].op \notin {"none", "create", "delete", "erase"}}

(* Transactions that hold the tenant's advisory lock in shared mode.       *)
Writers == {s \in Sessions : txn[s].op \notin {"none", "delete", "erase"}}

Fence ==
    /\ "erase" \in Asked
    /\ ~fenced /\ Writers = {}
    /\ fenced' = TRUE
    /\ UNCHANGED <<jobVars, itemVars, erased, workVars, txn, lock, bounds>>

EraseLeases ==
    /\ fenced /\ ~erased
    /\ Begin(Eraser, Open("erase", 2, None, None),
             {LeaseRow(i) : i \in {k \in Items : lease[k] # None}})
    /\ UNCHANGED <<workVars, bounds>>

EraseItems ==
    /\ InTxn(Eraser, "erase", 2) /\ MayRun(Eraser)
    /\ Statement(Eraser)
    /\ UNCHANGED <<workVars, bounds>>

EraseJobs ==
    /\ InTxn(Eraser, "erase", 3) /\ MayRun(Eraser)
    /\ End(Eraser)
    /\ Drop(Jobs)
    /\ erased' = TRUE
    /\ UNCHANGED <<fenced, workVars, bounds>>

-----------------------------------------------------------------------------
(* Failures                                                                *)

(* Sessions each of which waits for the next one, in a cycle.              *)
Deadlocked(s) ==
    LET N == Cardinality(Sessions)
        Ahead[n \in 0..N] ==
            IF n = 0 THEN WaitsFor(s)
            ELSE Ahead[n - 1] \cup UNION {WaitsFor(t) : t \in Ahead[n - 1]}
    IN  WaitsFor(s) # {} /\ s \in Ahead[N]

(* Postgres aborts one of them.  For a worker thread the error of an       *)
(* aborted claim ends in _loop; that of an aborted report in the except    *)
(* branch, which reports "failed", or, from there, in _loop.  Heartbeats   *)
(* and requests just fail.                                                 *)
Abort(s) ==
    /\ Deadlocked(s)
    /\ End(s)
    /\ IF s[1] = "main" /\ txn[s].op = "complete"
       THEN IF wpc[s[2]] = "working"
            THEN wpc' = [wpc EXCEPT ![s[2]] = "rescuing"] /\ UNCHANGED witem
            ELSE Idle(s[2])
       ELSE UNCHANGED workVars
    /\ UNCHANGED <<dbVars, bounds>>

(* A worker process dies: its transactions are rolled back.                *)
WorkerDies(w) ==
    /\ wpc[w] # "dead"
    /\ faults < MaxFaults /\ faults' = faults + 1
    /\ wpc'   = [wpc EXCEPT ![w] = "dead"]
    /\ witem' = [witem EXCEPT ![w] = None]
    /\ txn'   = [txn EXCEPT ![Main(w)] = NoTxn, ![Beat(w)] = NoTxn]
    /\ lock'  = [r \in Rows |-> IF lock[r] \in {Main(w), Beat(w)} THEN None ELSE lock[r]]
    /\ UNCHANGED <<dbVars, asks>>

-----------------------------------------------------------------------------
WorkerStep(w) ==
    \/ BeginClaim(w) \/ ClaimNothing(w) \/ ClaimLease(w) \/ ClaimJob(w)
    \/ \E i \in Items : ClaimItem(w, i)
    \/ ContextGone(w) \/ DiscardStale(w)
    \/ \E r \in Results \cup {"failed"} : BeginComplete(w, r)
    \/ CompleteItem(w) \/ CompleteLease(w) \/ CompleteJob(w)

BeatStep(w) == BeatLease(w) \/ BeatItem(w) \/ BeatJob(w)

ClientStep(c) ==
    \/ CreateJob(c) \/ CancelJob(c) \/ RetryFailed(c)
    \/ DeleteLeases(c) \/ DeleteJob(c)

EraserStep == Fence \/ EraseLeases \/ EraseItems \/ EraseJobs

Next ==
    \/ \E w \in Workers : WorkerStep(w) \/ BeatStep(w)
    \/ \E c \in Clients : ClientStep(c)
    \/ EraserStep
    \/ \E s \in Sessions : Abort(s)
    \/ \E c \in Clients, j \in Jobs :
          \/ BeginCreate(c, j)
          \/ \E op \in Requests : LockJob(c, op, j) \/ SetPaused(c, op, j)
    \/ \E w \in Workers : WorkerDies(w)
    \/ \E i \in Items : LeaseRunsOut(i)

Spec == Init /\ [][Next]_vars

-----------------------------------------------------------------------------
(* Properties                                                              *)

Ops == {"none", "claim", "complete", "beat", "erase"} \cup Requests

Snapshots ==
    [queued : SUBSET Items, expired : SUBSET Items, late : SUBSET Items]

Transactions ==
    [op : Ops, step : 0..3, job : Jobs \cup {None}, item : Items \cup {None},
     result : Outcomes \cup {None}, seen : Snapshots]

TypeOK ==
    /\ status \in [Jobs -> Statuses]
    /\ paused \in [Jobs -> BOOLEAN]
    /\ tally  \in [Jobs -> [Tallies -> Nat]]
    /\ istat  \in [Items -> Tallies \cup {"none", "cancelled"}]
    /\ lease  \in [Items -> Workers \cup {None}]
    /\ late   \in [Items -> BOOLEAN]
    /\ fenced \in BOOLEAN /\ erased \in BOOLEAN
    /\ wpc    \in [Workers -> {"idle", "working", "rescuing", "dead"}]
    /\ witem  \in [Workers -> Items \cup {None}]
    /\ txn    \in [Sessions -> Transactions]
    /\ lock   \in [Rows -> Sessions \cup {None}]
    /\ asks   \in 0..MaxAsked
    /\ faults \in 0..MaxFaults

(* The committed progress counters count the committed items exactly,      *)
(* although a claim, a report, a cancel and a retry each read and write    *)
(* them in statements of overlapping transactions.                         *)
CountersMatch ==
    \A j \in Jobs : \A s \in Tallies : tally[j][s] = Cardinality(InState(j, s))

(* A job is marked completed by the report of its last open item, also     *)
(* when two workers report the last two at once: it is never completed     *)
(* with an item open, and never left running with none; a cancelled job    *)
(* has nothing left to claim.                                              *)
JobsCloseWithTheirItems ==
    \A j \in Jobs :
        /\ status[j] = "completed" => Unfinished(j) = {}
        /\ status[j] = "running"   => Unfinished(j) # {}
        /\ status[j] = "cancelled" => InState(j, "queued") = {}

(* What was ingested, or skipped as known, is not handed out or reported   *)
(* again, even through a claim query that saw the item before it changed   *)
(* or a late report accepted from a worker that lost its lease; and        *)
(* "in-flight finish without resurrecting" (docs/V1_6_PLAYLIST_WATCH_LATER *)
(* .md:58): a cancelled job stays cancelled until it is deleted.           *)
EndsAreFinal ==
    [][/\ \A i \in Items : istat[i] \in {"completed", "skipped"}
                              => istat'[i] \in {istat[i], "none"}
       /\ \A j \in Jobs : status[j] = "cancelled"
                             => status'[j] \in {"cancelled", "deleted"}]_vars

(* After an erasure nothing recreates the tenant's jobs: no transaction    *)
(* that passed the fence check is still open when the fence goes up.       *)
ErasedStaysErased == erased => \A j \in Jobs : ~HasRow(j)

(* "preventing a worker whose lease was reclaimed from reporting a late    *)
(* success or failure" (app/db/postgres_job_claims.py:272-274): whoever    *)
(* settles an item holds its lease, so the lease goes with it.             *)
SettledByHolder ==
    [][\A i \in Items : istat[i] = "processing" /\ istat'[i] \in Outcomes
                           => lease'[i] = None]_vars
=============================================================================
