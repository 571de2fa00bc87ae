------------------------------ MODULE TenantPlane ------------------------------
(***************************************************************************)
(* The users' rows, in Postgres or in the SQLite file: the live writes of  *)
(* every store, the migrations of the old rows to Postgres and the erasure *)
(* of an account, at once.                                                 *)
(***************************************************************************)
EXTENDS AccountErasure, AgentRuntime

vars == <<tableVars, migVars, erasureVars, agentVars>>

Bodies == {"old", "live", "claimed", "awaiting_approval", "running", "completed", "failed"}
TypeOK ==
    /\ kind \in DOMAIN Kind /\ store = [name |-> kind, tables |-> Kind[kind].tables]
    /\ seq \in Nat /\ ops \in 0..MaxOps
    /\ \A r \in db \cup pend :
          /\ r.tab \in DOMAIN store.tables /\ r.owner \in Owners
          /\ r.id \in Nat /\ r.key \in {1, 2} /\ r.ref \subseteq Nat /\ r.body \in Bodies
    /\ \A r, s \in db \cup pend : r = s \/ ~Meets(r, s, Table(r.tab).unique)
    /\ \A t \in Threads :
          /\ DOMAIN tx[t] = DOMAIN Idle
          /\ Open(t) => tx[t].write \in Kind[kind].writes
          /\ agent[t].at \in {"idle", "approve", "call", "tool", "completed", "failed"}
    /\ locks \subseteq Owners /\ settled \subseteq Owners
    /\ fenced \in BOOLEAN /\ overtaken \in BOOLEAN /\ muddled \in BOOLEAN
    /\ mig.at \in {"none", "lock", "replay"} /\ mig.step \in 0..(Len(Script) + 1)
    /\ runs \in 0..MaxRuns /\ faults \in 0..MaxFaults
    /\ er.at \in 0..(Last + 1) /\ er.errors \in BOOLEAN /\ er.done \in BOOLEAN

(* The leaver has a run that waits for approval; the neighbour has one     *)
(* with its tool call.                                                     *)
Awaiting(rows) ==
    {r \in rows : r.owner # Leaver}
        \cup WithStatus({r \in rows : r.owner = Leaver /\ r.tab = "agent_runs"}, "awaiting_approval")

Init ==
    /\ \E k \in DOMAIN Kind : \E rows \in Targets(k) :
          TablesInit(k, IF k \in {"agents", "local_agents"} THEN Awaiting(rows) ELSE rows)
    /\ MigrationInit /\ ErasureInit /\ AgentInit

(* A process dies, or a statement raises: an open transaction is rolled    *)
(* back, a request ends where it is.                                       *)
Crash ==
    /\ faults < MaxFaults /\ faults' = faults + 1
    /\ \/ \E t \in Threads :
             /\ Open(t) /\ tx' = [tx EXCEPT ![t] = Idle]
             /\ UNCHANGED <<store, db, seq, pend, locks, fenced, overtaken, settled, muddled, ops,
                            migVars, agentVars>>
       \/ (\E t \in Threads : Ends(t)) /\ UNCHANGED migVars
       \/ mig.at # "none" /\ Rollback /\ UNCHANGED agentVars
    /\ UNCHANGED er

Next ==
    \/ \E t \in Threads : LiveStep(t) /\ UNCHANGED <<migVars, erasureVars, agentVars>>
    \/ \E t \in Threads : AgentStep(t) /\ UNCHANGED <<migVars, erasureVars>>
    \/ MigrationStep /\ UNCHANGED <<erasureVars, agentVars>>
    \/ ErasureStep /\ UNCHANGED <<migVars, agentVars>>
    \/ Crash

Spec == Init /\ [][Next]_vars

-----------------------------------------------------------------------------
(* Tables that no step of the erasure lists: the migration ledger, kept on *)
(* purpose, and the presence events of the home agent, which are not.      *)
Unlisted == {"youtube_sqlite_migration_ledger", "home_presence_events"}

(* "Account erasure removes classified residual tenant data": an erasure   *)
(* that ended without errors has left no row of the leaver, and no write   *)
(* or migration, begun before or after, brings one back.                   *)
ErasedTenantsStayErased ==
    er.done /\ ~er.errors => \A r \in db \cup pend : r.owner = Leaver => r.tab \in Unlisted

(* From the fence on, also over failed and repeated erasures, a leaver's   *)
(* rows are only removed, never written;                                   *)
LeaverOnlyGoes == fenced => {r \in db' : r.owner = Leaver} \subseteq db

(* and the erasure removes nothing of a neighbour, not by way of the       *)
(* parents of a row or of a foreign key either.                            *)
ErasureIsExact ==
    [][/\ LeaverOnlyGoes
       /\ er' # er => {r \in db : r.owner # Leaver} \subseteq db']_vars

-----------------------------------------------------------------------------
(* The target has the row: under its id, or under what the user means by   *)
(* it, or the ledger has it.                                               *)
Arrived(r, rows) ==
    IF r.tab = "youtube_pipeline_runs" THEN Claim(r) \in rows
    ELSE \E s \in rows : Meets(s, r, Table(r.tab).unique) /\ s.owner = r.owner

(* A migration that finishes has brought every row of its source over, or  *)
(* found it there, but for what was deleted or taken while it ran.  Run    *)
(* again with nothing written since, it adds nothing.                      *)
MigrationsAreFaithful ==
    [][Finishing /\ mig' = NoRun =>
          /\ faults' = faults /\ ~overtaken =>
                \A r \in Source(mig.sel, Scripted) : Arrived(r, db')
          /\ mig.sel \subseteq settled => db' = db]_vars

(* However often it is run and whatever was deleted between, each stage of *)
(* the old file is copied once.                                            *)
StagesMigrateOnce ==
    kind = "youtube" => \A r \in OldRows("youtube") : r.tab = "youtube_pipeline_runs" =>
       Cardinality({s \in db \cup pend :
                       s.tab = r.tab /\ s.owner = r.owner /\ s.body = "old"}) <= 1

(* "Keep the next live record_event() insert safely above the migrated     *)
(* maximum id": no event is lost to an id that is taken, unless the        *)
(* sequence was moved while an event was being recorded.                   *)
EventsAreRecorded ==
    [][\A t \in Threads :
          kind = "events" /\ Open(t) /\ tx'[t] = Idle /\ faults' = faults /\ ~muddled
             => db' # db]_vars

-----------------------------------------------------------------------------
Orphans(rows) ==
    {[c EXCEPT !.body = ""] : c \in
        {x \in rows : \E p \in x.ref :
            ~\E r \in rows : r.tab = Table(x.tab).parent /\ r.owner = x.owner /\ r.id = p}}

Unborn(rows) ==
    {[m EXCEPT !.body = ""] : m \in
        {x \in rows :
            /\ x.tab = "memory_records"
            /\ ~\E r \in rows : r.tab = "memory_lifecycle_events" /\ r.owner = x.owner /\ x.id \in r.ref}}

(* A row loses its parent, or is written without one, and a memory is      *)
(* there without the event of its creation, only by a transaction that     *)
(* another one overtook.                                                   *)
OrphansNeedARace ==
    [][\/ db' = db \/ er' # er
       \/ Finishing /\ overtaken
       \/ \E t \in Threads : Open(t) /\ tx[t].crossed /\ tx'[t] = Idle
       \/ Orphans(db') \cup Unborn(db') \subseteq Orphans(db) \cup Unborn(db)]_vars

-----------------------------------------------------------------------------
RunsWith(status) == {r \in Runs : r.owner = Leaver /\ r.body = status}

(* A run's tool is called once, however often it is asked for, but for     *)
(* approvals that overlap.                                                 *)
OneCallPerRun ==
    \A r \in Runs \ {x \in Runs : x.id \in doubled} : r.owner = Leaver =>
       Cardinality({c \in Calls : r.id \in c.ref}) <= 1

(* What a run says of its end, its call says as well; and a run is left    *)
(* running only by a failure or the fence.                                 *)
RunsTellTheTruth ==
    /\ \A status \in {"completed", "failed"} : \A r \in RunsWith(status) :
          r.id \in doubled \/ \E c \in Calls : c.ref = {r.id} /\ c.body = status
    /\ \A r \in RunsWith("running") : faults > 0 \/ fenced \/ \E t \in Threads : Serves(t, r.id)
================================================================================
