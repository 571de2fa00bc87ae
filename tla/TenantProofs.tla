----------------------------- MODULE TenantProofs -----------------------------
(***************************************************************************)
(* Proofs about the erasure fence, and about the rows of the tables and    *)
(* what tells them apart, for any number of threads, writes, migrations    *)
(* and failures, and whichever user leaves.                                *)
(***************************************************************************)
EXTENDS TenantPlane, FiniteSetTheorems, TLAPS

(* A row has an owner, and keeps it when it is copied.                     *)
IsRow(r) ==
    r = [tab |-> r.tab, owner |-> r.owner, id |-> r.id, key |-> r.key, body |-> r.body, ref |-> r.ref]
IsMigration(m) ==
    m = [at |-> m.at, sel |-> m.sel, step |-> m.step, left |-> m.left, known |-> m.known]

(* The fence and the locks exclude each other: behind the fence no write   *)
(* is open, and a migration that replays rows holds the locks of all their *)
(* owners.                                                                 *)
FenceInv ==
    /\ IsMigration(mig)
    /\ \A r \in mig.left : IsRow(r) /\ r.owner \in mig.sel
    /\ \A r \in pend : r.owner \in mig.sel
    /\ mig.at = "replay" => mig.sel \subseteq locks
    /\ mig.at # "replay" => pend = {}
    /\ fenced => Leaver \notin locks /\ \A t \in Threads : ~Open(t)

(* The rows of the old file are rows.                                      *)
LEMMA OldRowsAreRows == ASSUME NEW k, NEW r \in OldRows(k) PROVE IsRow(r)
<1> DEFINE tables == Kind[k].tables
           OldId(tab, o, key) == IdOf(tables[tab], key, IF key = 1 THEN o ELSE o + Leaver)
           Row(tab, o, key) ==
             [tab |-> tab, owner |-> o, id |-> OldId(tab, o, key), key |-> key, body |-> "old",
              ref |-> {OldId(tables[tab].parent, o, p) : p \in tables[tab].refs}]
           plain == UNION {{Row(tab, o, key) : o \in Owners, key \in tables[tab].keys}
                           : tab \in DOMAIN tables \ {"youtube_sqlite_migration_ledger"}}
<1>1. OldRows(k) = Linked(plain)
  BY DEF OldRows
<1>2. \A tab, o, key : IsRow(Row(tab, o, key))
  BY DEF IsRow
<1> HIDE DEF Row
<1>3. \A q \in plain : IsRow(q)
  BY <1>2
<1> HIDE DEF plain
<1>4. CASE r \in plain
  BY <1>3, <1>4
<1>5. CASE \E l \in plain, e \in plain : r = [l EXCEPT !.ref = {e.id}]
  <2>1. PICK l \in plain, e \in plain : r = [l EXCEPT !.ref = {e.id}]
    BY <1>5
  <2>2. IsRow(l)
    BY <1>3
  <2> QED BY <2>1, <2>2 DEF IsRow
<1> QED BY <1>1, <1>4, <1>5 DEF Linked

(* The steps of the migration keep it.                                     *)
LEMMA ReplayedKeeps ==
    ASSUME FenceInv, NEW r \in mig.left, NEW rows, NEW known, Replayed(r, rows, known),
           mig.at = "replay", \A s \in rows : s.owner = r.owner
    PROVE  FenceInv'
<1>1. mig' = [mig EXCEPT !.left = mig.left \ {r}, !.known = mig.known \cup known]
  BY DEF Replayed
<1>2. /\ IsMigration(mig') /\ mig'.left \subseteq mig.left
      /\ mig'.sel = mig.sel /\ mig'.at = mig.at
  BY <1>1 DEF FenceInv, IsMigration
<1>3. UNCHANGED <<locks, fenced, tx>> /\ pend' = pend \cup rows
  BY DEF Replayed
<1> QED BY <1>2, <1>3 DEF FenceInv, Open

LEMMA RollbackKeeps == FenceInv /\ Rollback => FenceInv'
BY DEF FenceInv, Rollback, NoRun, IsMigration, Open

LEMMA RowStep ==
    ASSUME FenceInv, NEW r \in mig.left,
           Check(r) \/ Insert(r) \/ InsertItem(r) \/ InsertOnce(r) \/ InsertReview(r) \/ Parity(r)
    PROVE  FenceInv'
<1>1. mig.at = "replay" /\ IsRow(r)
  BY DEF Check, Insert, InsertItem, InsertOnce, InsertReview, Parity, Turn, FenceInv
<1>2. \A rows, known : Replayed(r, rows, known) /\ (\A s \in rows : s.owner = r.owner) => FenceInv'
  BY <1>1, ReplayedKeeps
<1>3. CASE Check(r)
  BY <1>2, <1>3, RollbackKeeps DEF Check
<1>4. CASE Insert(r)
  BY <1>2, <1>4, RollbackKeeps DEF Insert
<1>5. CASE InsertItem(r)
  BY <1>2, <1>5 DEF InsertItem
<1>6. CASE InsertOnce(r)
  <2>1. Claim(r).owner = r.owner /\ [r EXCEPT !.id = StageId(r.owner)].owner = r.owner
    BY <1>1 DEF Claim, IsRow
  <2>2. CASE Claim(r) \in db
    BY <1>2, <1>6, <2>2 DEF InsertOnce
  <2>3. CASE Claim(r) \notin db
    <3> DEFINE new == {Claim(r), [r EXCEPT !.id = StageId(r.owner)]}
    <3>1. Replayed(r, new, {})
      BY <1>6, <2>3 DEF InsertOnce
    <3>2. \A s \in new : s.owner = r.owner
      BY <2>1
    <3> HIDE DEF new
    <3> QED BY <1>2, <3>1, <3>2
  <2> QED BY <2>2, <2>3
<1>7. CASE InsertReview(r)
  BY <1>2, <1>7, RollbackKeeps DEF InsertReview
<1>8. CASE Parity(r)
  BY <1>2, <1>8, RollbackKeeps DEF Parity
<1> QED BY <1>3, <1>4, <1>5, <1>6, <1>7, <1>8

(* A statement's rows are those of the owners it is for.                   *)
LEMMA AtKeeps ==
    ASSUME FenceInv, NEW n, mig' = At(n), mig.sel \subseteq locks', pend' = pend,
           fenced' => Leaver \notin locks' /\ \A t \in Threads : ~Open(t)'
    PROVE  FenceInv'
<1>1. /\ IsMigration(mig') /\ mig'.at = "replay" /\ mig'.sel = mig.sel
      /\ mig'.left = IF n <= Len(Script) THEN Source(mig.sel, {Script[n][2]}) ELSE {}
  BY DEF At, FenceInv, IsMigration
<1>2. \A r \in mig'.left : IsRow(r) /\ r.owner \in mig.sel
  BY <1>1, OldRowsAreRows DEF Source
<1> QED BY <1>1, <1>2 DEF FenceInv

LEMMA MigrationKeeps == FenceInv /\ MigrationStep => FenceInv'
<1> SUFFICES ASSUME FenceInv, MigrationStep PROVE FenceInv'
  OBVIOUS
<1>1. CASE StartMigration
  <2>1. PICK sel : mig' = [NoRun EXCEPT !.at = "lock", !.sel = sel]
    BY <1>1 DEF StartMigration
  <2>2. IsMigration(mig') /\ mig'.at = "lock" /\ mig'.left = {}
    BY <2>1 DEF NoRun, IsMigration
  <2>3. UNCHANGED <<pend, locks, fenced, tx>> /\ mig.at = "none"
    BY <1>1 DEF StartMigration
  <2> QED BY <2>2, <2>3 DEF FenceInv, Open
<1>2. CASE LockOwner
  <2> DEFINE left == mig.sel \ locks
             next == CHOOSE o \in left : \A p \in left : o <= p
  <2>1. CASE next = Leaver /\ fenced
    BY <1>2, <2>1, RollbackKeeps DEF LockOwner
  <2>2. CASE ~(next = Leaver /\ fenced)
    <3> HIDE DEF next
    <3>1. /\ locks' = locks \cup {next} /\ mig' = IF left = {next} THEN At(1) ELSE mig
          /\ UNCHANGED <<pend, fenced, tx>> /\ mig.at = "lock"
      BY <1>2, <2>2 DEF LockOwner, next
    <3>2. fenced' => Leaver \notin locks' /\ \A t \in Threads : ~Open(t)'
      BY <2>2, <3>1 DEF FenceInv, Open
    <3>3. CASE left = {next}
      BY <3>1, <3>2, <3>3, AtKeeps
    <3>4. CASE left # {next}
      BY <3>1, <3>2, <3>4 DEF FenceInv
    <3> QED BY <3>3, <3>4
  <2> QED BY <2>1, <2>2
<1>3. CASE NextStatement
  BY <1>3, AtKeeps DEF NextStatement, tableVars, FenceInv, Open
<1>4. CASE SetSequence
  BY <1>4, AtKeeps DEF SetSequence, FenceInv, Open
<1>5. CASE FinishMigration
  <2>1. mig' = NoRun /\ pend' = {} /\ locks' = {} /\ fenced' = fenced
    BY <1>5 DEF FinishMigration
  <2>2. \A t \in Threads : ~Open(t) => ~Open(t)'
    BY <1>5 DEF FinishMigration, Open
  <2> QED BY <2>1, <2>2 DEF FenceInv, NoRun, IsMigration
<1>6. ASSUME NEW r \in Upcoming,
             Check(r) \/ Insert(r) \/ InsertItem(r) \/ InsertOnce(r) \/ InsertReview(r) \/ Parity(r)
      PROVE  FenceInv'
  BY <1>6, RowStep DEF Upcoming
<1> QED BY <1>1, <1>2, <1>3, <1>4, <1>5, <1>6 DEF MigrationStep

-----------------------------------------------------------------------------
(* Behind the fence a live write is at most a deletion.                    *)
LEMMA LiveBehindFence ==
    ASSUME FenceInv, NEW t \in Threads, LiveStep(t)
    PROVE  /\ UNCHANGED <<pend, locks, fenced>>
           /\ fenced => db' \subseteq db /\ \A u \in Threads : ~Open(u)'
<1>1. CASE Begin(t) \/ MergeReads(t)
  BY <1>1 DEF Begin, MergeReads, Admitted
<1>2. CASE Write(t) \/ MergeWrites(t) \/ LocalMergeWrites(t)
  <2>1. Open(t) /\ UNCHANGED <<pend, locks, fenced>>
    BY <1>2 DEF Write, MergeWrites, LocalMergeWrites, Committed
  <2> QED BY <2>1 DEF FenceInv
<1>3. CASE Delete(t)
  <2>1. PICK rows : Committed(t, db \ rows)
    BY <1>3 DEF Delete
  <2> QED BY <2>1 DEF Committed, FenceInv, Open
<1> QED BY <1>1, <1>2, <1>3 DEF LiveStep

(* A request of the agent runtime writes nothing.                          *)
LEMMA AgentsBehindFence ==
    ASSUME NEW t \in Threads, AgentStep(t)
    PROVE  UNCHANGED <<tx, pend, locks, fenced>> /\ (fenced => db' = db)
BY DEF AgentStep, Run, Approve, SetRunning, CreateToolCall, InvokeTool, Mark, Refused, Ends, Stored,
   tableVars

(* The erasure only deletes, and fences when nothing is open.              *)
LEMMA ErasureBehindFence ==
    ASSUME ErasureStep
    PROVE  /\ UNCHANGED <<tx, pend, locks>> /\ db' \subseteq db
           /\ fenced' = fenced \/ (Leaver \notin locks /\ \A t \in Threads : ~Open(t))
<1>1. CASE EraseStore
  BY <1>1 DEF EraseStore, Erased
<1>2. CASE EraseMemories
  <2>1. PICK rows : Erased(rows) /\ fenced' = fenced
    BY <1>2 DEF EraseMemories
  <2> QED BY <2>1 DEF Erased
<1> QED BY <1>1, <1>2 DEF ErasureStep, Fence, Finish, Raises, tableVars

(* Every step keeps the invariant and takes only away from a leaver.       *)
LEMMA FenceStep == FenceInv /\ [Next]_vars => FenceInv' /\ [LeaverOnlyGoes]_vars
<1> SUFFICES ASSUME FenceInv, [Next]_vars PROVE FenceInv' /\ [LeaverOnlyGoes]_vars
  OBVIOUS
<1>1. ASSUME UNCHANGED <<pend, locks, mig>>, db' \subseteq db \/ ~fenced,
             fenced' => Leaver \notin locks /\ \A t \in Threads : ~Open(t)'
      PROVE  FenceInv' /\ LeaverOnlyGoes
  BY <1>1 DEF FenceInv, LeaverOnlyGoes
<1>2. ASSUME NEW t \in Threads, LiveStep(t), UNCHANGED migVars
      PROVE  FenceInv' /\ LeaverOnlyGoes
  <2>1. fenced' => fenced
    BY <1>2, LiveBehindFence
  <2> QED BY <1>1, <1>2, <2>1, LiveBehindFence DEF migVars, FenceInv
<1>3. ASSUME NEW t \in Threads, AgentStep(t), UNCHANGED migVars
      PROVE  FenceInv' /\ LeaverOnlyGoes
  BY <1>1, <1>3, AgentsBehindFence DEF migVars, FenceInv, Open
<1>4. CASE ErasureStep /\ UNCHANGED <<migVars, agentVars>>
  BY <1>1, <1>4, ErasureBehindFence DEF migVars, FenceInv, Open
<1>5. CASE MigrationStep
  <2>1. FenceInv'
    BY <1>5, MigrationKeeps
  <2>2. fenced' = fenced /\ (db' = db \/ FinishMigration)
    BY <1>5
       DEF MigrationStep, StartMigration, LockOwner, NextStatement, SetSequence, FinishMigration,
       Check, Insert, InsertItem, InsertOnce, InsertReview, Parity, Replayed, Rollback, tableVars
  <2>3. ASSUME FinishMigration, fenced PROVE \A r \in pend : r.owner # Leaver
    BY <2>3 DEF FinishMigration, Finishing, FenceInv
  <2>4. LeaverOnlyGoes
    BY <2>2, <2>3 DEF FinishMigration, LeaverOnlyGoes, Visible
  <2> QED BY <2>1, <2>4
<1>6. CASE Crash
  <2>1. CASE mig.at # "none" /\ Rollback
    BY <2>1, RollbackKeeps DEF Rollback, LeaverOnlyGoes
  <2>2. ASSUME NEW t \in Threads, Open(t), tx' = [tx EXCEPT ![t] = Idle],
               UNCHANGED <<db, pend, locks, fenced, migVars>>
        PROVE  FenceInv' /\ LeaverOnlyGoes
    BY <1>1, <2>2 DEF FenceInv, migVars
  <2>3. ASSUME NEW t \in Threads, Ends(t), UNCHANGED migVars
        PROVE  FenceInv' /\ LeaverOnlyGoes
    BY <1>1, <2>3 DEF Ends, tableVars, migVars, FenceInv, Open
  <2> QED BY <1>6, <2>1, <2>2, <2>3 DEF Crash
<1>7. CASE UNCHANGED vars
  BY <1>1, <1>7 DEF vars, tableVars, migVars, FenceInv, Open
<1> QED BY <1>2, <1>3, <1>4, <1>5, <1>6, <1>7 DEF Next

(* From the fence on, no live write, agent run or migration, whether begun *)
(* before or after, writes a row of the user whose account is erased.      *)
THEOREM FenceHolds == Spec => [][LeaverOnlyGoes]_vars
<1>1. Init => FenceInv
  BY DEF Init, TablesInit, MigrationInit, FenceInv, NoRun, IsMigration, Open
<1> QED BY <1>1, FenceStep, PTL DEF Spec

-----------------------------------------------------------------------------
(* What the tables and the writes of a store are like.                     *)
Ledger == "youtube_sqlite_migration_ledger"

(* What holds of the tables, writes and scripts of each store: the writes  *)
(* go to its tables; a table with a foreign key has a parent with ids.     *)
Writable(tables, writes) == \A w \in writes : DOMAIN w \subseteq DOMAIN tables
Rooted(tables) ==
    /\ \A tab \in DOMAIN tables : tables[tab].keys \subseteq {1, 2}
    /\ \A tab \in DOMAIN tables : tables[tab].fk =>
       /\ tables[tab].parent \in DOMAIN tables
       /\ "id" \in tables[tables[tab].parent].unique
       /\ tables[tab].refs = {1}
       /\ "intelligence_events" \notin DOMAIN tables
Claiming(tables, script) ==
    Ledger \notin DOMAIN tables /\ \A n \in 1..Len(script) : script[n][1] # "once"
Fitting(k) ==
    /\ Writable(Kind[k].tables, Kind[k].writes)
    /\ Rooted(Kind[k].tables)
    /\ k # "youtube" => Claiming(Kind[k].tables, Kind[k].script)
    /\ k \notin {"agents", "local_agents"} => "agent_runs" \notin DOMAIN Kind[k].tables

(* The ways the tables are told.                                           *)
LEMMA ToldAre ==
    /\ \A u, keys : Told(u, keys).unique = u /\ Told(u, keys).fk = FALSE
    /\ \A u, keys : Told(u, keys).keys = keys
    /\ Natural.fk = FALSE /\ Plain.fk = FALSE /\ Keyed.fk = FALSE
    /\ Natural.keys = {1} /\ Plain.keys = {1} /\ Keyed.keys = {1}
    /\ Plain.unique = {"id"} /\ Keyed.unique = {"id", "key"}
BY DEF Told, Natural, Plain, Keyed, Both

(* A store is of one of the two kinds of drivers.                          *)
LEMMA KindsAre ==
    /\ DOMAIN Kind = DOMAIN Shared \cup DOMAIN Local
    /\ \A k \in DOMAIN Shared \ DOMAIN Local : Kind[k] = Shared[k]
    /\ \A k \in DOMAIN Local : Kind[k] = Local[k]
BY DEF Kind

(* The stores of the Postgres driver fit.                                  *)
LEMMA SharedFit == \A k \in DOMAIN Shared : Fitting(k)
<1> SUFFICES ASSUME NEW k \in DOMAIN Shared PROVE Fitting(k)
  OBVIOUS
<1>1. CASE k = "bookmarks"
  <2>1. Writable(BookmarkTables, BookmarkWrites)
    BY DEF Writable, BookmarkTables, BookmarkWrites
  <2>2. Rooted(BookmarkTables)
    BY ToldAre DEF Rooted, BookmarkTables
  <2>3. Claiming(BookmarkTables, BookmarkScript)
    BY DEF Claiming, Ledger, BookmarkTables, BookmarkScript, Skip
  <2>4. Kind[k] = Store(BookmarkTables, BookmarkWrites, BookmarkScript)
    BY <1>1, KindsAre DEF Shared, Local
  <2>5. "agent_runs" \notin DOMAIN BookmarkTables
    BY DEF BookmarkTables
  <2> QED BY <2>1, <2>2, <2>3, <2>4, <2>5 DEF Fitting, Store
<1>2. CASE k = "captures"
  <2>1. Writable(CaptureTables, CaptureWrites)
    BY DEF Writable, CaptureTables, CaptureWrites
  <2>2. Rooted(CaptureTables)
    BY ToldAre DEF Rooted, CaptureTables
  <2>3. Claiming(CaptureTables, CaptureScript)
    BY DEF Claiming, Ledger, CaptureTables, CaptureScript, Skip
  <2>4. Kind[k] = Store(CaptureTables, CaptureWrites, CaptureScript)
    BY <1>2, KindsAre DEF Shared, Local
  <2>5. "agent_runs" \notin DOMAIN CaptureTables
    BY DEF CaptureTables
  <2> QED BY <2>1, <2>2, <2>3, <2>4, <2>5 DEF Fitting, Store
<1>3. CASE k = "capsules"
  <2>1. Writable(CapsuleTables, CapsuleWrites)
    BY DEF Writable, CapsuleTables, Both, CapsuleWrites
  <2>2. Rooted(CapsuleTables)
    BY ToldAre DEF Rooted, CapsuleTables
  <2>3. Claiming(CapsuleTables, CapsuleScript)
    BY DEF Claiming, Ledger, CapsuleTables, CapsuleScript, Skip
  <2>4. Kind[k] = Store(CapsuleTables, CapsuleWrites, CapsuleScript)
    BY <1>3, KindsAre DEF Shared, Local
  <2>5. "agent_runs" \notin DOMAIN CapsuleTables
    BY DEF CapsuleTables
  <2> QED BY <2>1, <2>2, <2>3, <2>4, <2>5 DEF Fitting, Store
<1>4. CASE k = "creators"
  <2>1. Writable(CreatorTables, CreatorWrites)
    BY DEF Writable, CreatorTables, Both, CreatorWrites
  <2>2. Rooted(CreatorTables)
    BY ToldAre DEF Rooted, CreatorTables
  <2>3. Claiming(CreatorTables, CreatorScript)
    BY DEF Claiming, Ledger, CreatorTables, CreatorScript, Skip
  <2>4. Kind[k] = Store(CreatorTables, CreatorWrites, CreatorScript)
    BY <1>4, KindsAre DEF Shared, Local
  <2>5. "agent_runs" \notin DOMAIN CreatorTables
    BY DEF CreatorTables
  <2> QED BY <2>1, <2>2, <2>3, <2>4, <2>5 DEF Fitting, Store
<1>5. CASE k = "edges"
  <2>1. Writable(EdgeTables, EdgeWrites)
    BY DEF Writable, EdgeTables, Both, EdgeWrites
  <2>2. Rooted(EdgeTables)
    BY ToldAre DEF Rooted, EdgeTables
  <2>3. Claiming(EdgeTables, EdgeScript)
    BY DEF Claiming, Ledger, EdgeTables, EdgeScript, Skip
  <2>4. Kind[k] = Store(EdgeTables, EdgeWrites, EdgeScript)
    BY <1>5, KindsAre DEF Shared, Local
  <2>5. "agent_runs" \notin DOMAIN EdgeTables
    BY DEF EdgeTables
  <2> QED BY <2>1, <2>2, <2>3, <2>4, <2>5 DEF Fitting, Store
<1>6. CASE k = "urls"
  <2>1. Writable(UrlTables, UrlWrites)
    BY DEF Writable, UrlTables, UrlWrites
  <2>2. Rooted(UrlTables)
    BY ToldAre DEF Rooted, UrlTables
  <2>3. Claiming(UrlTables, UrlScript)
    BY DEF Claiming, Ledger, UrlTables, UrlScript, Skip
  <2>4. Kind[k] = Store(UrlTables, UrlWrites, UrlScript)
    BY <1>6, KindsAre DEF Shared, Local
  <2>5. "agent_runs" \notin DOMAIN UrlTables
    BY DEF UrlTables
  <2> QED BY <2>1, <2>2, <2>3, <2>4, <2>5 DEF Fitting, Store
<1>7. CASE k = "fts"
  <2>1. Writable(FtsTables, FtsWrites)
    BY DEF Writable, FtsTables, FtsWrites
  <2>2. Rooted(FtsTables)
    BY ToldAre DEF Rooted, FtsTables
  <2>3. Claiming(FtsTables, FtsScript)
    BY DEF Claiming, Ledger, FtsTables, FtsScript, Skip
  <2>4. Kind[k] = Store(FtsTables, FtsWrites, FtsScript)
    BY <1>7, KindsAre DEF Shared, Local
  <2>5. "agent_runs" \notin DOMAIN FtsTables
    BY DEF FtsTables
  <2> QED BY <2>1, <2>2, <2>3, <2>4, <2>5 DEF Fitting, Store
<1>8. CASE k = "imports"
  <2>1. Writable(ImportTables, ImportWrites)
    BY DEF Writable, ImportTables, ImportWrites, CreateRun, UpdateRun, UpdateItem, All
  <2>2. Rooted(ImportTables)
    <3>1. /\ ImportTables["import_run_items"].parent = "import_runs" /\
                 ImportTables["import_run_items"].refs = {1}
          /\ ImportTables["import_run_items"].keys = {1}
      BY DEF ImportTables, Child
    <3>2. /\ ImportTables["import_runs"].fk = FALSE
          /\ ImportTables["import_runs"].keys \subseteq {1, 2}
          /\ "id" \in ImportTables["import_runs"].unique
      BY ToldAre DEF ImportTables
    <3>3. DOMAIN ImportTables = {"import_runs", "import_run_items"}
      BY DEF ImportTables
    <3> QED BY <3>1, <3>2, <3>3 DEF Rooted
  <2>3. Claiming(ImportTables, ImportScript)
    BY DEF Claiming, Ledger, ImportTables, ImportScript, Skip
  <2>4. Kind[k] = Store(ImportTables, ImportWrites, ImportScript)
    BY <1>8, KindsAre DEF Shared, Local
  <2>5. "agent_runs" \notin DOMAIN ImportTables
    BY DEF ImportTables
  <2> QED BY <2>1, <2>2, <2>3, <2>4, <2>5 DEF Fitting, Store
<1>9. CASE k = "artifacts"
  <2>1. Writable(ArtifactTables, ArtifactWrites)
    BY DEF Writable, ArtifactTables, ArtifactWrites
  <2>2. Rooted(ArtifactTables)
    BY ToldAre DEF Rooted, ArtifactTables
  <2>3. Claiming(ArtifactTables, ArtifactScript)
    BY DEF Claiming, Ledger, ArtifactTables, ArtifactScript, Skip
  <2>4. Kind[k] = Store(ArtifactTables, ArtifactWrites, ArtifactScript)
    BY <1>9, KindsAre DEF Shared, Local
  <2>5. "agent_runs" \notin DOMAIN ArtifactTables
    BY DEF ArtifactTables
  <2> QED BY <2>1, <2>2, <2>3, <2>4, <2>5 DEF Fitting, Store
<1>10. CASE k = "reviews"
  <2>1. Writable(ReviewTables, ReviewWrites)
    BY DEF Writable, ReviewTables, ReviewWrites
  <2>2. Rooted(ReviewTables)
    <3>1. /\ ReviewTables["memory_review_schedule"].fk = FALSE
          /\ ReviewTables["memory_review_schedule"].keys = {1}
      BY DEF ReviewTables, Child
    <3>2. /\ ReviewTables["video_registry"].fk = FALSE
          /\ ReviewTables["video_registry"].keys \subseteq {1, 2}
      BY ToldAre DEF ReviewTables
    <3>3. DOMAIN ReviewTables = {"video_registry", "memory_review_schedule"}
      BY DEF ReviewTables
    <3> QED BY <3>1, <3>2, <3>3 DEF Rooted
  <2>3. Claiming(ReviewTables, ReviewScript)
    BY DEF Claiming, Ledger, ReviewTables, ReviewScript
  <2>4. Kind[k] = Store(ReviewTables, ReviewWrites, ReviewScript)
    BY <1>10, KindsAre DEF Shared, Local
  <2>5. "agent_runs" \notin DOMAIN ReviewTables
    BY DEF ReviewTables
  <2> QED BY <2>1, <2>2, <2>3, <2>4, <2>5 DEF Fitting, Store
<1>11. CASE k = "events"
  <2>1. Writable(EventTables, EventWrites)
    BY DEF Writable, EventTables, EventWrites
  <2>2. Rooted(EventTables)
    BY ToldAre DEF Rooted, EventTables
  <2>3. Claiming(EventTables, EventScript)
    BY DEF Claiming, Ledger, EventTables, EventScript, Skip
  <2>4. Kind[k] = Store(EventTables, EventWrites, EventScript)
    BY <1>11, KindsAre DEF Shared, Local
  <2>5. "agent_runs" \notin DOMAIN EventTables
    BY DEF EventTables
  <2> QED BY <2>1, <2>2, <2>3, <2>4, <2>5 DEF Fitting, Store
<1>12. CASE k = "graph"
  <2>1. Writable(GraphTables, GraphWrites)
    BY
       DEF Writable, GraphTables, Both, GraphWrites, UpsertEntity, UpsertRelation, CloseRelation,
           LinkMemory, MergeEntities
  <2>2. Rooted(GraphTables)
    <3>1. /\ GraphTables["kg_relations"].fk = FALSE
          /\ GraphTables["kg_memory_entities"].fk = FALSE
          /\ GraphTables["kg_relations"].keys = {1}
          /\ GraphTables["kg_memory_entities"].keys = {1}
      BY DEF GraphTables, Child
    <3>2. /\ GraphTables["kg_entities"].fk = FALSE
          /\ GraphTables["kg_entities"].keys \subseteq {1, 2}
      BY ToldAre DEF GraphTables
    <3>3. DOMAIN GraphTables = {"kg_entities", "kg_relations", "kg_memory_entities"}
      BY DEF GraphTables
    <3> QED BY <3>1, <3>2, <3>3 DEF Rooted
  <2>3. Claiming(GraphTables, GraphScript)
    BY DEF Claiming, Ledger, GraphTables, GraphScript, Skip
  <2>4. Kind[k] = Store(GraphTables, GraphWrites, GraphScript)
    BY <1>12, KindsAre DEF Shared, Local
  <2>5. "agent_runs" \notin DOMAIN GraphTables
    BY DEF GraphTables
  <2> QED BY <2>1, <2>2, <2>3, <2>4, <2>5 DEF Fitting, Store
<1>13. CASE k = "topics"
  <2>1. Writable(TopicTables, TopicWrites)
    BY DEF Writable, TopicTables, Both, TopicWrites
  <2>2. Rooted(TopicTables)
    <3>1. /\ TopicTables["topic_memory_links"].parent = "topic_profiles" /\
                 TopicTables["topic_memory_links"].refs = {1}
          /\ TopicTables["topic_memory_links"].keys = {1}
      BY DEF TopicTables, Child
    <3>2. /\ TopicTables["topic_profiles"].fk = FALSE
          /\ TopicTables["topic_profiles"].keys \subseteq {1, 2}
          /\ "id" \in TopicTables["topic_profiles"].unique
      BY ToldAre DEF TopicTables
    <3>3. DOMAIN TopicTables = {"topic_profiles", "topic_memory_links"}
      BY DEF TopicTables
    <3> QED BY <3>1, <3>2, <3>3 DEF Rooted
  <2>3. Claiming(TopicTables, TopicScript)
    BY DEF Claiming, Ledger, TopicTables, TopicScript, Skip
  <2>4. Kind[k] = Store(TopicTables, TopicWrites, TopicScript)
    BY <1>13, KindsAre DEF Shared, Local
  <2>5. "agent_runs" \notin DOMAIN TopicTables
    BY DEF TopicTables
  <2> QED BY <2>1, <2>2, <2>3, <2>4, <2>5 DEF Fitting, Store
<1>14. CASE k = "videos"
  <2>1. Writable(VideoTables, VideoWrites)
    BY DEF Writable, VideoTables, VideoWrites, All
  <2>2. Rooted(VideoTables)
    BY ToldAre DEF Rooted, VideoTables
  <2>3. Claiming(VideoTables, VideoScript)
    BY DEF Claiming, Ledger, VideoTables, VideoScript, Skip
  <2>4. Kind[k] = Store(VideoTables, VideoWrites, VideoScript)
    BY <1>14, KindsAre DEF Shared, Local
  <2>5. "agent_runs" \notin DOMAIN VideoTables
    BY DEF VideoTables
  <2> QED BY <2>1, <2>2, <2>3, <2>4, <2>5 DEF Fitting, Store
<1>15. CASE k = "youtube"
  <2>1. Writable(YouTubeTables, YouTubeWrites)
    BY DEF Writable, YouTubeTables, Both, YouTubeWrites
  <2>2. Rooted(YouTubeTables)
    BY ToldAre DEF Rooted, YouTubeTables
  <2>3. TRUE
    OBVIOUS
  <2>4. Kind[k] = Store(YouTubeTables, YouTubeWrites, YouTubeScript)
    BY <1>15, KindsAre DEF Shared, Local
  <2>5. "agent_runs" \notin DOMAIN YouTubeTables
    BY DEF YouTubeTables
  <2> QED BY <2>1, <2>2, <2>3, <2>4, <2>5, <1>15 DEF Fitting, Store
<1>16. CASE k = "metrics"
  <2>1. Writable(MetricTables, MetricWrites)
    BY DEF Writable, MetricTables, MetricWrites
  <2>2. Rooted(MetricTables)
    BY ToldAre DEF Rooted, MetricTables
  <2>3. Claiming(MetricTables, MetricScript)
    BY DEF Claiming, Ledger, MetricTables, MetricScript, Skip
  <2>4. Kind[k] = Store(MetricTables, MetricWrites, MetricScript)
    BY <1>16, KindsAre DEF Shared, Local
  <2>5. "agent_runs" \notin DOMAIN MetricTables
    BY DEF MetricTables
  <2> QED BY <2>1, <2>2, <2>3, <2>4, <2>5 DEF Fitting, Store
<1>17. CASE k = "memories"
  <2>1. Writable(MemoryTables, MemoryWrites)
    BY
       DEF Writable, MemoryTables, Both, MemoryWrites, UpsertMemory, UpdateLifecycle, AddVersion,
           AppendTrust, DeleteMemory
  <2>2. Rooted(MemoryTables)
    <3>1. /\ MemoryTables["memory_lifecycle_events"].parent = "memory_records" /\
                 MemoryTables["memory_lifecycle_events"].refs = {1}
          /\ MemoryTables["memory_versions"].parent = "memory_records" /\
                 MemoryTables["memory_versions"].refs = {1}
          /\ MemoryTables["memory_trust_history"].parent = "memory_records" /\
                 MemoryTables["memory_trust_history"].refs = {1}
          /\ MemoryTables["memory_lifecycle_events"].keys = {1}
          /\ MemoryTables["memory_versions"].keys = {1}
          /\ MemoryTables["memory_trust_history"].keys = {1}
      BY DEF MemoryTables, Child
    <3>2. /\ MemoryTables["memory_records"].fk = FALSE
          /\ MemoryTables["memory_records"].keys \subseteq {1, 2}
          /\ "id" \in MemoryTables["memory_records"].unique
      BY ToldAre DEF MemoryTables
    <3>3. DOMAIN MemoryTables = {"memory_records", "memory_lifecycle_events", "memory_versions",
              "memory_trust_history"}
      BY DEF MemoryTables
    <3> QED BY <3>1, <3>2, <3>3 DEF Rooted
  <2>3. Claiming(MemoryTables, <<>>)
    BY DEF Claiming, Ledger, MemoryTables
  <2>4. Kind[k] = Store(MemoryTables, MemoryWrites, <<>>)
    BY <1>17, KindsAre DEF Shared, Local
  <2>5. "agent_runs" \notin DOMAIN MemoryTables
    BY DEF MemoryTables
  <2> QED BY <2>1, <2>2, <2>3, <2>4, <2>5 DEF Fitting, Store
<1>18. CASE k = "accounts"
  <2>1. Writable(AccountTables, AccountWrites)
    BY
       DEF Writable, AccountTables, Both, AccountWrites, EnsureUser, RegisterUser, SetTimezone,
           OpenSession, EndSessions
  <2>2. Rooted(AccountTables)
    <3>1. /\ AccountTables["sessions"].parent = "users" /\ AccountTables["sessions"].refs = {1}
          /\ AccountTables["sessions"].keys = {1}
      BY DEF AccountTables, Child
    <3>2. /\ AccountTables["users"].fk = FALSE
          /\ AccountTables["users"].keys \subseteq {1, 2}
          /\ "id" \in AccountTables["users"].unique
      BY ToldAre DEF AccountTables
    <3>3. DOMAIN AccountTables = {"users", "sessions"}
      BY DEF AccountTables
    <3> QED BY <3>1, <3>2, <3>3 DEF Rooted
  <2>3. Claiming(AccountTables, <<>>)
    BY DEF Claiming, Ledger, AccountTables
  <2>4. Kind[k] = Store(AccountTables, AccountWrites, <<>>)
    BY <1>18, KindsAre DEF Shared, Local
  <2>5. "agent_runs" \notin DOMAIN AccountTables
    BY DEF AccountTables
  <2> QED BY <2>1, <2>2, <2>3, <2>4, <2>5 DEF Fitting, Store
<1>19. CASE k = "tokens"
  <2>1. Writable(TokenTables, TokenWrites)
    BY DEF Writable, TokenTables, TokenWrites
  <2>2. Rooted(TokenTables)
    BY ToldAre DEF Rooted, TokenTables
  <2>3. Claiming(TokenTables, <<>>)
    BY DEF Claiming, Ledger, TokenTables
  <2>4. Kind[k] = Store(TokenTables, TokenWrites, <<>>)
    BY <1>19, KindsAre DEF Shared, Local
  <2>5. "agent_runs" \notin DOMAIN TokenTables
    BY DEF TokenTables
  <2> QED BY <2>1, <2>2, <2>3, <2>4, <2>5 DEF Fitting, Store
<1>20. CASE k = "bus"
  <2>1. Writable(BusTables, BusWrites)
    BY DEF Writable, BusTables, BusWrites
  <2>2. Rooted(BusTables)
    BY ToldAre DEF Rooted, BusTables
  <2>3. Claiming(BusTables, <<>>)
    BY DEF Claiming, Ledger, BusTables
  <2>4. Kind[k] = Store(BusTables, BusWrites, <<>>)
    BY <1>20, KindsAre DEF Shared, Local
  <2>5. "agent_runs" \notin DOMAIN BusTables
    BY DEF BusTables
  <2> QED BY <2>1, <2>2, <2>3, <2>4, <2>5 DEF Fitting, Store
<1>21. CASE k = "feedback"
  <2>1. Writable(FeedbackTables, FeedbackWrites)
    BY DEF Writable, FeedbackTables, FeedbackWrites, All
  <2>2. Rooted(FeedbackTables)
    <3>1. /\ FeedbackTables["answer_feedback"].fk = FALSE
          /\ FeedbackTables["feedback_credit_ledger"].fk = FALSE
          /\ FeedbackTables["answer_feedback"].keys = {1}
          /\ FeedbackTables["feedback_credit_ledger"].keys = {1}
      BY DEF FeedbackTables, Child
    <3>2. /\ FeedbackTables["answer_interactions"].fk = FALSE
          /\ FeedbackTables["output_preferences"].fk = FALSE
          /\ FeedbackTables["answer_interactions"].keys \subseteq {1, 2}
          /\ FeedbackTables["output_preferences"].keys \subseteq {1, 2}
      BY ToldAre DEF FeedbackTables
    <3>3. DOMAIN FeedbackTables = {"answer_interactions", "answer_feedback",
              "feedback_credit_ledger", "output_preferences"}
      BY DEF FeedbackTables
    <3> QED BY <3>1, <3>2, <3>3 DEF Rooted
  <2>3. Claiming(FeedbackTables, <<>>)
    BY DEF Claiming, Ledger, FeedbackTables
  <2>4. Kind[k] = Store(FeedbackTables, FeedbackWrites, <<>>)
    BY <1>21, KindsAre DEF Shared, Local
  <2>5. "agent_runs" \notin DOMAIN FeedbackTables
    BY DEF FeedbackTables
  <2> QED BY <2>1, <2>2, <2>3, <2>4, <2>5 DEF Fitting, Store
<1>22. CASE k = "usage"
  <2>1. Writable(UsageTables, UsageWrites)
    BY DEF Writable, UsageTables, UsageWrites
  <2>2. Rooted(UsageTables)
    BY ToldAre DEF Rooted, UsageTables
  <2>3. Claiming(UsageTables, <<>>)
    BY DEF Claiming, Ledger, UsageTables
  <2>4. Kind[k] = Store(UsageTables, UsageWrites, <<>>)
    BY <1>22, KindsAre DEF Shared, Local
  <2>5. "agent_runs" \notin DOMAIN UsageTables
    BY DEF UsageTables
  <2> QED BY <2>1, <2>2, <2>3, <2>4, <2>5 DEF Fitting, Store
<1>23. CASE k = "home"
  <2>1. Writable(HomeTables, HomeWrites)
    BY DEF Writable, HomeTables, HomeWrites
  <2>2. Rooted(HomeTables)
    BY ToldAre DEF Rooted, HomeTables
  <2>3. Claiming(HomeTables, <<>>)
    BY DEF Claiming, Ledger, HomeTables
  <2>4. Kind[k] = Store(HomeTables, HomeWrites, <<>>)
    BY <1>23, KindsAre DEF Shared, Local
  <2>5. "agent_runs" \notin DOMAIN HomeTables
    BY DEF HomeTables
  <2> QED BY <2>1, <2>2, <2>3, <2>4, <2>5 DEF Fitting, Store
<1>24. CASE k = "images"
  <2>1. Writable(ImageTables, ImageWrites)
    BY DEF Writable, ImageTables, ImageWrites, All
  <2>2. Rooted(ImageTables)
    BY ToldAre DEF Rooted, ImageTables
  <2>3. Claiming(ImageTables, <<>>)
    BY DEF Claiming, Ledger, ImageTables
  <2>4. Kind[k] = Store(ImageTables, ImageWrites, <<>>)
    BY <1>24, KindsAre DEF Shared, Local
  <2>5. "agent_runs" \notin DOMAIN ImageTables
    BY DEF ImageTables
  <2> QED BY <2>1, <2>2, <2>3, <2>4, <2>5 DEF Fitting, Store
<1>25. CASE k = "rules"
  <2>1. Writable(RuleTables, RuleWrites)
    BY DEF Writable, RuleTables, RuleWrites
  <2>2. Rooted(RuleTables)
    <3>1. /\ RuleTables["ingest_agent_claims"].parent = "ingest_agent_rules" /\
                 RuleTables["ingest_agent_claims"].refs = {1}
          /\ RuleTables["ingest_agent_claims"].keys = {1}
      BY DEF RuleTables, Child
    <3>2. /\ RuleTables["ingest_agent_rules"].fk = FALSE
          /\ RuleTables["ingest_agent_rules"].keys \subseteq {1, 2}
          /\ "id" \in RuleTables["ingest_agent_rules"].unique
      BY ToldAre DEF RuleTables
    <3>3. DOMAIN RuleTables = {"ingest_agent_rules", "ingest_agent_claims"}
      BY DEF RuleTables
    <3> QED BY <3>1, <3>2, <3>3 DEF Rooted
  <2>3. Claiming(RuleTables, <<>>)
    BY DEF Claiming, Ledger, RuleTables
  <2>4. Kind[k] = Store(RuleTables, RuleWrites, <<>>)
    BY <1>25, KindsAre DEF Shared, Local
  <2>5. "agent_runs" \notin DOMAIN RuleTables
    BY DEF RuleTables
  <2> QED BY <2>1, <2>2, <2>3, <2>4, <2>5 DEF Fitting, Store
<1>26. CASE k = "answers"
  <2>1. Writable(AnswerTables, {PutAnswer, DropAnswers})
    BY DEF Writable, AnswerTables, PutAnswer, DropAnswers
  <2>2. Rooted(AnswerTables)
    BY ToldAre DEF Rooted, AnswerTables
  <2>3. Claiming(AnswerTables, AnswerScript)
    BY DEF Claiming, Ledger, AnswerTables, AnswerScript, Skip
  <2>4. Kind[k] = Store(AnswerTables, {PutAnswer, DropAnswers}, AnswerScript)
    <3>1. /\ "answers" \in DOMAIN Shared
          /\ Shared["answers"] = Store(AnswerTables, {PutAnswer, DropAnswers}, AnswerScript)
      BY DEF Shared
    <3>2. "answers" \notin DOMAIN Local
      BY DEF Local
    <3> QED BY <1>26, <3>1, <3>2, KindsAre
  <2>5. "agent_runs" \notin DOMAIN AnswerTables
    BY DEF AnswerTables
  <2> QED BY <2>1, <2>2, <2>3, <2>4, <2>5 DEF Fitting, Store
<1>27. CASE k = "vectors"
  <2>1. Writable(VectorTables, VectorWrites)
    BY DEF Writable, VectorTables, VectorWrites
  <2>2. Rooted(VectorTables)
    BY ToldAre DEF Rooted, VectorTables
  <2>3. Claiming(VectorTables, <<>>)
    BY DEF Claiming, Ledger, VectorTables
  <2>4. Kind[k] = Store(VectorTables, VectorWrites, <<>>)
    BY <1>27, KindsAre DEF Shared, Local
  <2>5. "agent_runs" \notin DOMAIN VectorTables
    BY DEF VectorTables
  <2> QED BY <2>1, <2>2, <2>3, <2>4, <2>5 DEF Fitting, Store
<1>28. CASE k = "agents"
  <2>1. Writable(AgentTables, {})
    BY DEF Writable, AgentTables
  <2>2. Rooted(AgentTables)
    <3>1. /\ AgentTables["agent_tool_calls"].parent = "agent_runs" /\
                 AgentTables["agent_tool_calls"].refs = {1}
          /\ AgentTables["agent_tool_calls"].keys = {1}
      BY DEF AgentTables, Child
    <3>2. /\ AgentTables["agent_runs"].fk = FALSE
          /\ AgentTables["agent_runs"].keys \subseteq {1, 2}
          /\ "id" \in AgentTables["agent_runs"].unique
      BY ToldAre DEF AgentTables
    <3>3. DOMAIN AgentTables = {"agent_runs", "agent_tool_calls"}
      BY DEF AgentTables
    <3> QED BY <3>1, <3>2, <3>3 DEF Rooted
  <2>3. Claiming(AgentTables, <<>>)
    BY DEF Claiming, Ledger, AgentTables
  <2>4. Kind[k] = Store(AgentTables, {}, <<>>)
    BY <1>28, KindsAre DEF Shared, Local
  <2> QED BY <2>1, <2>2, <2>3, <2>4, <1>28 DEF Fitting, Store
<1> QED BY <1>1, <1>2, <1>3, <1>4, <1>5, <1>6, <1>7, <1>8, <1>9, <1>10, <1>11, <1>12, <1>13, <1>14,
           <1>15, <1>16, <1>17, <1>18, <1>19, <1>20, <1>21, <1>22, <1>23, <1>24, <1>25, <1>26,
                    <1>27, <1>28 DEF Shared

(* The stores of the SQLite driver fit.                                    *)
LEMMA LocalFit == \A k \in DOMAIN Local : Fitting(k)
<1> SUFFICES ASSUME NEW k \in DOMAIN Local PROVE Fitting(k)
  OBVIOUS
<1>1. CASE k = "local_graph"
  <2>1. Writable(LocalGraphTables, LocalGraphWrites)
    BY
       DEF Writable, LocalGraphTables, Both, LocalGraphWrites, UpsertLocalEntity,
           UpsertLocalRelation, CloseLocalRelation, LinkLocalMemory, UnlinkLocalMemory,
           MergeLocalEntities
  <2>2. Rooted(LocalGraphTables)
    <3>1. /\ LocalGraphTables["kg_relations"].fk = FALSE
          /\ LocalGraphTables["kg_memory_entities"].fk = FALSE
          /\ LocalGraphTables["kg_relations"].keys = {1}
          /\ LocalGraphTables["kg_memory_entities"].keys = {1}
      BY DEF LocalGraphTables, Child
    <3>2. /\ LocalGraphTables["kg_entities"].fk = FALSE
          /\ LocalGraphTables["kg_entities"].keys \subseteq {1, 2}
      BY ToldAre DEF LocalGraphTables
    <3>3. DOMAIN LocalGraphTables = {"kg_entities", "kg_relations", "kg_memory_entities"}
      BY DEF LocalGraphTables
    <3> QED BY <3>1, <3>2, <3>3 DEF Rooted
  <2>3. Claiming(LocalGraphTables, <<>>)
    BY DEF Claiming, Ledger, LocalGraphTables
  <2>4. Kind[k] = Store(LocalGraphTables, LocalGraphWrites, <<>>)
    BY <1>1, KindsAre DEF Shared, Local
  <2>5. "agent_runs" \notin DOMAIN LocalGraphTables
    BY DEF LocalGraphTables
  <2> QED BY <2>1, <2>2, <2>3, <2>4, <2>5 DEF Fitting, Store
<1>2. CASE k = "local_memories"
  <2>1. Writable(LocalMemoryTables, LocalMemoryWrites)
    BY
       DEF Writable, LocalMemoryTables, Both, LocalMemoryWrites, UpsertLocalMemory,
           UpdateLocalLifecycle, AddLocalVersion, AppendLocalTrust, DeleteLocalMemory, All
  <2>2. Rooted(LocalMemoryTables)
    <3>1. /\ LocalMemoryTables["memory_lifecycle_events"].fk = FALSE
          /\ LocalMemoryTables["memory_versions"].fk = FALSE
          /\ LocalMemoryTables["memory_trust_history"].fk = FALSE
          /\ LocalMemoryTables["memory_lifecycle_events"].keys = {1}
          /\ LocalMemoryTables["memory_versions"].keys = {1}
          /\ LocalMemoryTables["memory_trust_history"].keys = {1}
      BY DEF LocalMemoryTables, Child
    <3>2. /\ LocalMemoryTables["memory_records"].fk = FALSE
          /\ LocalMemoryTables["memory_records"].keys \subseteq {1, 2}
      BY ToldAre DEF LocalMemoryTables
    <3>3. DOMAIN LocalMemoryTables = {"memory_records", "memory_lifecycle_events",
              "memory_versions", "memory_trust_history"}
      BY DEF LocalMemoryTables
    <3> QED BY <3>1, <3>2, <3>3 DEF Rooted
  <2>3. Claiming(LocalMemoryTables, <<>>)
    BY DEF Claiming, Ledger, LocalMemoryTables
  <2>4. Kind[k] = Store(LocalMemoryTables, LocalMemoryWrites, <<>>)
    BY <1>2, KindsAre DEF Shared, Local
  <2>5. "agent_runs" \notin DOMAIN LocalMemoryTables
    BY DEF LocalMemoryTables
  <2> QED BY <2>1, <2>2, <2>3, <2>4, <2>5 DEF Fitting, Store
<1>3. CASE k = "local_topics"
  <2>1. Writable(LocalTopicTables, {UpsertLocalTopic, UnlinkLocalTopic})
    BY DEF Writable, LocalTopicTables, Both, UpsertLocalTopic, UnlinkLocalTopic
  <2>2. Rooted(LocalTopicTables)
    <3>1. /\ LocalTopicTables["topic_memory_links"].fk = FALSE
          /\ LocalTopicTables["topic_memory_links"].keys = {1}
      BY DEF LocalTopicTables, Child
    <3>2. /\ LocalTopicTables["topic_profiles"].fk = FALSE
          /\ LocalTopicTables["topic_profiles"].keys \subseteq {1, 2}
      BY ToldAre DEF LocalTopicTables
    <3>3. DOMAIN LocalTopicTables = {"topic_profiles", "topic_memory_links"}
      BY DEF LocalTopicTables
    <3> QED BY <3>1, <3>2, <3>3 DEF Rooted
  <2>3. Claiming(LocalTopicTables, <<>>)
    BY DEF Claiming, Ledger, LocalTopicTables
  <2>4. Kind[k] = Store(LocalTopicTables, {UpsertLocalTopic, UnlinkLocalTopic}, <<>>)
    BY <1>3, KindsAre DEF Shared, Local
  <2>5. "agent_runs" \notin DOMAIN LocalTopicTables
    BY DEF LocalTopicTables
  <2> QED BY <2>1, <2>2, <2>3, <2>4, <2>5 DEF Fitting, Store
<1>4. CASE k = "local_insight"
  <2>1. Writable(LocalInsightTables, LocalInsightWrites)
    BY
       DEF Writable, LocalInsightTables, Both, LocalInsightWrites, UpsertLocalEdge,
           UpsertLocalCapsule, ReplaceCreatorStats, UpsertLocalCreator, RecordLocalEvent
  <2>2. Rooted(LocalInsightTables)
    BY ToldAre DEF Rooted, LocalInsightTables
  <2>3. Claiming(LocalInsightTables, <<>>)
    BY DEF Claiming, Ledger, LocalInsightTables
  <2>4. Kind[k] = Store(LocalInsightTables, LocalInsightWrites, <<>>)
    BY <1>4, KindsAre DEF Shared, Local
  <2>5. "agent_runs" \notin DOMAIN LocalInsightTables
    BY DEF LocalInsightTables
  <2> QED BY <2>1, <2>2, <2>3, <2>4, <2>5 DEF Fitting, Store
<1>5. CASE k = "local_videos"
  <2>1. Writable(LocalVideoTables, LocalVideoWrites)
    BY
       DEF Writable, LocalVideoTables, LocalVideoWrites, UpsertLocalVideo, DeleteLocalVideo,
           DeleteItem, RecordUse, All
  <2>2. Rooted(LocalVideoTables)
    BY ToldAre DEF Rooted, LocalVideoTables
  <2>3. Claiming(LocalVideoTables, <<>>)
    BY DEF Claiming, Ledger, LocalVideoTables
  <2>4. Kind[k] = Store(LocalVideoTables, LocalVideoWrites, <<>>)
    BY <1>5, KindsAre DEF Shared, Local
  <2>5. "agent_runs" \notin DOMAIN LocalVideoTables
    BY DEF LocalVideoTables
  <2> QED BY <2>1, <2>2, <2>3, <2>4, <2>5 DEF Fitting, Store
<1>6. CASE k = "local_reviews"
  <2>1. Writable(LocalReviewTables, {RecordLocalReview, DeleteLocalReview})
    BY DEF Writable, LocalReviewTables, RecordLocalReview, DeleteLocalReview
  <2>2. Rooted(LocalReviewTables)
    <3>1. /\ LocalReviewTables["memory_review_schedule"].fk = FALSE
          /\ LocalReviewTables["memory_review_schedule"].keys = {1}
      BY DEF LocalReviewTables, Child
    <3>2. /\ LocalReviewTables["video_registry"].fk = FALSE
          /\ LocalReviewTables["video_registry"].keys \subseteq {1, 2}
      BY ToldAre DEF LocalReviewTables
    <3>3. DOMAIN LocalReviewTables = {"video_registry", "memory_review_schedule"}
      BY DEF LocalReviewTables
    <3> QED BY <3>1, <3>2, <3>3 DEF Rooted
  <2>3. Claiming(LocalReviewTables, <<>>)
    BY DEF Claiming, Ledger, LocalReviewTables
  <2>4. Kind[k] = Store(LocalReviewTables, {RecordLocalReview, DeleteLocalReview}, <<>>)
    BY <1>6, KindsAre DEF Shared, Local
  <2>5. "agent_runs" \notin DOMAIN LocalReviewTables
    BY DEF LocalReviewTables
  <2> QED BY <2>1, <2>2, <2>3, <2>4, <2>5 DEF Fitting, Store
<1>7. CASE k = "local_accounts"
  <2>1. Writable(LocalAccountTables, LocalAccountWrites)
    BY
       DEF Writable, LocalAccountTables, Both, LocalAccountWrites, EnsureLocalUser, CreateUser,
           UpdateTimezone, CreateSession, RevokeSessions
  <2>2. Rooted(LocalAccountTables)
    <3>1. /\ LocalAccountTables["sessions"].fk = FALSE
          /\ LocalAccountTables["sessions"].keys = {1}
      BY DEF LocalAccountTables, Child
    <3>2. /\ LocalAccountTables["users"].fk = FALSE
          /\ LocalAccountTables["users"].keys \subseteq {1, 2}
      BY ToldAre DEF LocalAccountTables
    <3>3. DOMAIN LocalAccountTables = {"users", "sessions"}
      BY DEF LocalAccountTables
    <3> QED BY <3>1, <3>2, <3>3 DEF Rooted
  <2>3. Claiming(LocalAccountTables, <<>>)
    BY DEF Claiming, Ledger, LocalAccountTables
  <2>4. Kind[k] = Store(LocalAccountTables, LocalAccountWrites, <<>>)
    BY <1>7, KindsAre DEF Shared, Local
  <2>5. "agent_runs" \notin DOMAIN LocalAccountTables
    BY DEF LocalAccountTables
  <2> QED BY <2>1, <2>2, <2>3, <2>4, <2>5 DEF Fitting, Store
<1>8. CASE k = "local_youtube"
  <2>1. Writable(LocalYouTubeTables, LocalYouTubeWrites)
    BY
       DEF Writable, LocalYouTubeTables, Both, LocalYouTubeWrites, ReplaceYouTubeMemory,
           RecordStage, EnqueueLocalRetry, DeleteYouTubeMemory
  <2>2. Rooted(LocalYouTubeTables)
    BY ToldAre DEF Rooted, LocalYouTubeTables
  <2>3. Claiming(LocalYouTubeTables, <<>>)
    BY DEF Claiming, Ledger, LocalYouTubeTables
  <2>4. Kind[k] = Store(LocalYouTubeTables, LocalYouTubeWrites, <<>>)
    BY <1>8, KindsAre DEF Shared, Local
  <2>5. "agent_runs" \notin DOMAIN LocalYouTubeTables
    BY DEF LocalYouTubeTables
  <2> QED BY <2>1, <2>2, <2>3, <2>4, <2>5 DEF Fitting, Store
<1>9. CASE k = "local_pages"
  <2>1. Writable(LocalPageTables, LocalPageWrites)
    BY
       DEF Writable, LocalPageTables, LocalPageWrites, RegisterUrl, DeleteReference, CreateCapture,
           SyncSnapshot
  <2>2. Rooted(LocalPageTables)
    BY ToldAre DEF Rooted, LocalPageTables
  <2>3. Claiming(LocalPageTables, <<>>)
    BY DEF Claiming, Ledger, LocalPageTables
  <2>4. Kind[k] = Store(LocalPageTables, LocalPageWrites, <<>>)
    BY <1>9, KindsAre DEF Shared, Local
  <2>5. "agent_runs" \notin DOMAIN LocalPageTables
    BY DEF LocalPageTables
  <2> QED BY <2>1, <2>2, <2>3, <2>4, <2>5 DEF Fitting, Store
<1>10. CASE k = "local_agents"
  <2>1. Writable(LocalAgentTables, {})
    BY DEF Writable, LocalAgentTables
  <2>2. Rooted(LocalAgentTables)
    <3>1. /\ LocalAgentTables["agent_tool_calls"].fk = FALSE
          /\ LocalAgentTables["agent_tool_calls"].keys = {1}
      BY DEF LocalAgentTables, Child
    <3>2. /\ LocalAgentTables["agent_runs"].fk = FALSE
          /\ LocalAgentTables["agent_runs"].keys \subseteq {1, 2}
      BY ToldAre DEF LocalAgentTables
    <3>3. DOMAIN LocalAgentTables = {"agent_runs", "agent_tool_calls"}
      BY DEF LocalAgentTables
    <3> QED BY <3>1, <3>2, <3>3 DEF Rooted
  <2>3. Claiming(LocalAgentTables, <<>>)
    BY DEF Claiming, Ledger, LocalAgentTables
  <2>4. Kind[k] = Store(LocalAgentTables, {}, <<>>)
    BY <1>10, KindsAre DEF Shared, Local
  <2> QED BY <2>1, <2>2, <2>3, <2>4, <1>10 DEF Fitting, Store
<1> QED BY <1>1, <1>2, <1>3, <1>4, <1>5, <1>6, <1>7, <1>8, <1>9, <1>10 DEF Local

-----------------------------------------------------------------------------
MemoryChildren == {"memory_lifecycle_events", "memory_versions", "memory_trust_history"}

(* The stores whose rows are replayed under the ids they had: for those of *)
(* events the ids are checked, and a stage of a pipeline gets another.     *)
OwnIds(k) == Kind[k].script # <<>> /\ k \notin {"events", "youtube"}

(* A row as a store has them.  The leaver's generated ids are above the    *)
(* neighbour's first, which the neighbour's children point to; without a   *)
(* migration the neighbour's rows are those of the start, and with one     *)
(* they have the ids of the old file.                                      *)
Fits(k, r) ==
    /\ IsRow(r) /\ r.owner \in Owners /\ r.tab \in DOMAIN Kind[k].tables
    /\ r.owner = Leaver /\ "id" \in Kind[k].tables[r.tab].unique
          /\ "intelligence_events" \notin DOMAIN Kind[k].tables => r.id \in Nat /\ r.id > 1
    /\ r.owner # Leaver /\ Kind[k].tables[r.tab].fk => r.ref \subseteq {1}
    /\ r.owner # Leaver /\ k = "memories" => r.id = 1
    /\ OwnIds(k) /\ "id" \in Kind[k].tables[r.tab].unique =>
          r.id \in {1, 1 + Leaver} <=> r.owner # Leaver

(* What a transaction has read are the leaver's rows.                      *)
TxFits(k, x) ==
    /\ x = [write |-> x.write, key |-> x.key, id |-> x.id, seen |-> x.seen, crossed |-> x.crossed]
    /\ \A r \in x.seen : Fits(k, r) /\ r.owner = Leaver
    /\ x # Idle => x.write \in Kind[k].writes
    /\ x # Idle /\ Merges(x.write) =>
          \A key \in {1, 2} : \E e \in x.seen : e.tab = "kg_entities" /\ e.key = key
    /\ x # Idle /\ ~Merges(x.write) /\ "intelligence_events" \notin DOMAIN Kind[k].tables =>
          x.id \in Nat /\ x.id > 1
    /\ x # Idle /\ ~Merges(x.write) /\ OwnIds(k) => x.id \notin {1, Leaver, 1 + Leaver}

AllFit(k, rows) == \A r \in rows : Fits(k, r)
TxsFit(k, X) == DOMAIN X = Threads /\ \A t \in Threads : TxFits(k, X[t])

RowsInv ==
    /\ kind \in DOMAIN Kind /\ store.tables = Kind[kind].tables
    /\ ops \in Nat /\ runs \in Nat
    /\ AllFit(kind, db) /\ AllFit(kind, pend) /\ AllFit(kind, mig.left) /\ TxsFit(kind, tx)
    /\ mig.at # "none" => Script # <<>>
    /\ mig.at = "none" => mig.left = {}
    /\ mig.left \subseteq OldRows(kind)

(* Every store does.                                                       *)
LEMMA FittingKinds == \A k \in DOMAIN Kind : Fitting(k)
BY KindsAre, SharedFit, LocalFit

(* A copy of a leaver's row is one.                                        *)
LEMMA CopiesFit ==
    ASSUME NEW k, NEW r, Fits(k, r), r.owner = Leaver, NEW x
    PROVE  /\ Fits(k, [r EXCEPT !.body = x]) /\ [r EXCEPT !.body = x].owner = Leaver
           /\ Fits(k, [r EXCEPT !.ref = x]) /\ [r EXCEPT !.ref = x].owner = Leaver
<1>1. ASSUME NEW q, IsRow(q), q.tab = r.tab, q.id = r.id, q.owner = r.owner
      PROVE  Fits(k, q) /\ q.owner = Leaver
  BY <1>1 DEF Fits
<1>2. IsRow(r)
  BY DEF Fits
<1>3. IsRow([r EXCEPT !.body = x]) /\ IsRow([r EXCEPT !.ref = x])
  BY <1>2 DEF IsRow
<1>4. /\ [r EXCEPT !.body = x].tab = r.tab /\ [r EXCEPT !.body = x].id = r.id
      /\ [r EXCEPT !.body = x].owner = r.owner
      /\ [r EXCEPT !.ref = x].tab = r.tab /\ [r EXCEPT !.ref = x].id = r.id
      /\ [r EXCEPT !.ref = x].owner = r.owner
  BY <1>2 DEF IsRow
<1> QED BY <1>1, <1>3, <1>4

(* The memories and their children.                                        *)
LEMMA MemoriesAre ==
    /\ Kind["memories"].tables = MemoryTables /\ Kind["memories"].writes = MemoryWrites
    /\ Kind["memories"].script = <<>>
    /\ DOMAIN MemoryTables = {"memory_records"} \cup MemoryChildren
    /\ \A tab \in DOMAIN MemoryTables :
          MemoryTables[tab].keys = {1} /\ "id" \in MemoryTables[tab].unique
    /\ \A tab \in MemoryChildren :
          /\ MemoryTables[tab].fk /\ MemoryTables[tab].parent = "memory_records"
          /\ MemoryTables[tab].refs = {1} /\ MemoryTables[tab].unique = {"id"}
    /\ MemoryTables["memory_records"].fk = FALSE /\ MemoryTables["memory_records"].parent = ""
<1>1. Kind["memories"] = Store(MemoryTables, MemoryWrites, <<>>)
  BY KindsAre DEF Shared, Local
<1>2. DOMAIN MemoryTables = {"memory_records"} \cup MemoryChildren
  BY DEF MemoryTables, MemoryChildren
<1> DEFINE c == Child({"id"}, "memory_records", {1}, TRUE)
<1>3. MemoryTables["memory_lifecycle_events"] = c
  BY DEF MemoryTables
<1>4. MemoryTables["memory_versions"] = c
  BY DEF MemoryTables
<1>5. MemoryTables["memory_trust_history"] = c
  BY DEF MemoryTables
<1>6. MemoryTables["memory_records"] = Keyed
  BY DEF MemoryTables
<1>7. Keyed.keys = {1} /\ "id" \in Keyed.unique /\ Keyed.fk = FALSE /\ Keyed.parent = ""
  BY DEF Keyed, Told, Both
<1>8. c.keys = {1} /\ c.unique = {"id"} /\ c.fk /\ c.parent = "memory_records" /\ c.refs = {1}
  BY DEF Child
<1> HIDE DEF c
<1>9. \A tab \in MemoryChildren : MemoryTables[tab] = c
  BY <1>3, <1>4, <1>5 DEF MemoryChildren
<1>10. \A tab \in DOMAIN MemoryTables :
          MemoryTables[tab].keys = {1} /\ "id" \in MemoryTables[tab].unique
  BY <1>2, <1>6, <1>7, <1>8, <1>9
<1>11. \A tab \in MemoryChildren :
          /\ MemoryTables[tab].fk /\ MemoryTables[tab].parent = "memory_records"
          /\ MemoryTables[tab].refs = {1} /\ MemoryTables[tab].unique = {"id"}
  BY <1>8, <1>9
<1>12. /\ Kind["memories"].tables = MemoryTables /\ Kind["memories"].writes = MemoryWrites
       /\ Kind["memories"].script = <<>>
  BY <1>1 DEF Store
<1> QED BY <1>2, <1>6, <1>7, <1>10, <1>11, <1>12

(* What a store holds at the start fits it.                                *)
LEMMA OldRowsFit ==
    ASSUME NEW k \in DOMAIN Kind PROVE AllFit(k, OldRows(k))
<1> DEFINE tables == Kind[k].tables
           OldId(tab, o, key) == IdOf(tables[tab], key, IF key = 1 THEN o ELSE o + Leaver)
           Row(tab, o, key) ==
             [tab |-> tab, owner |-> o, id |-> OldId(tab, o, key), key |-> key, body |-> "old",
              ref |-> {OldId(tables[tab].parent, o, p) : p \in tables[tab].refs}]
           plain == UNION {{Row(tab, o, key) : o \in Owners, key \in tables[tab].keys}
                           : tab \in DOMAIN tables \ {"youtube_sqlite_migration_ledger"}}
<1>1. OldRows(k) = Linked(plain)
  BY DEF OldRows
<1>3. ASSUME NEW tab \in DOMAIN tables, NEW o \in Owners, NEW key \in tables[tab].keys
      PROVE  Fits(k, Row(tab, o, key))
  <2> DEFINE r == Row(tab, o, key)
  <2>1. /\ IsRow(r) /\ r.owner = o /\ r.tab = tab /\ r.id = OldId(tab, o, key)
        /\ r.ref = {OldId(tables[tab].parent, o, p) : p \in tables[tab].refs}
    BY DEF IsRow
  <2>2. Rooted(tables)
    BY FittingKinds DEF Fitting
  <2>3. key \in {1, 2}
    BY <2>2 DEF Rooted
  <2>4. o = Leaver /\ "id" \in tables[tab].unique => r.id \in Nat /\ r.id > 1
    BY <2>1, <2>3, LeaverAssumption DEF IdOf
  <2>5. o # Leaver /\ tables[tab].fk => r.ref \subseteq {1}
    <3>1. SUFFICES ASSUME o = 1, tables[tab].refs = {1} PROVE r.ref \subseteq {1}
      BY <2>2 DEF Rooted, Owners
    <3>2. OldId(tables[tab].parent, 1, 1) = 1
      BY DEF IdOf
    <3> QED BY <2>1, <3>1, <3>2
  <2>6. r = Row(tab, o, key)
    OBVIOUS
  <2> HIDE DEF r
  <2>7. o # Leaver /\ k = "memories" => r.id = 1
    <3>1. SUFFICES ASSUME o = 1, k = "memories" PROVE r.id = 1
      BY DEF Owners
    <3>2. key \in MemoryTables[tab].keys /\ tab \in DOMAIN MemoryTables
      BY <3>1, MemoriesAre
    <3>a. MemoryTables[tab].keys = {1}
      BY <3>2, MemoriesAre
    <3>3. key = 1
      BY <3>2, <3>a
    <3>4. OldId(tab, 1, 1) = 1
      BY DEF IdOf
    <3> QED BY <2>1, <3>1, <3>3, <3>4
  <2>8. "id" \in tables[tab].unique => (r.id \in {1, 1 + Leaver} <=> r.owner # Leaver)
    <3>1. o = 1 \/ o = Leaver
      BY DEF Owners
    <3>2. "id" \in tables[tab].unique => r.id = IF key = 1 THEN o ELSE o + Leaver
      BY <2>1 DEF IdOf
    <3> QED BY <2>1, <2>3, <3>1, <3>2, LeaverAssumption
  <2>9. Fits(k, r)
    BY <1>3, <2>1, <2>4, <2>5, <2>7, <2>8 DEF Fits
  <2> QED BY <2>6, <2>9
<1> HIDE DEF Row
<1>4. \A r \in plain : Fits(k, r)
  BY <1>3
<1> HIDE DEF plain
<1>5. ASSUME NEW l \in plain, l.owner = Leaver, NEW e PROVE Fits(k, [l EXCEPT !.ref = {e}])
  BY <1>4, <1>5, CopiesFit
<1>6. ASSUME NEW r \in Linked(plain) PROVE Fits(k, r)
  <2>1. CASE r \in plain
    BY <1>4, <2>1
  <2>2. CASE \E l \in plain, e \in plain : l.owner = Leaver /\ r = [l EXCEPT !.ref = {e.id}]
    <3>1. PICK l \in plain, e \in plain : l.owner = Leaver /\ r = [l EXCEPT !.ref = {e.id}]
      BY <2>2
    <3>2. Fits(k, [l EXCEPT !.ref = {e.id}])
      BY <1>5, <3>1
    <3> QED BY <3>1, <3>2
  <2> QED BY <1>6, <2>1, <2>2 DEF Linked
<1> QED BY <1>1, <1>6 DEF AllFit

(* The steps keep it if what they write fits.                              *)
LEMMA RowsKeep ==
    ASSUME RowsInv, store' = store, ops' \in Nat, UNCHANGED <<mig, runs>>,
           AllFit(kind, db'), pend' = pend, TxsFit(kind, tx')
    PROVE  RowsInv'
BY DEF RowsInv, kind, Script

(* A table is told by the store.                                           *)
LEMMA TableIs ==
    ASSUME RowsInv
    PROVE  /\ \A tab : Table(tab) = Kind[kind].tables[tab]
           /\ Fitting(kind)
BY FittingKinds DEF RowsInv, Table

(* What a transaction sees fits, and is the leaver's.                      *)
LEMMA SeesFit ==
    ASSUME RowsInv, NEW tabs, NEW key
    PROVE  \A r \in Sees(tabs, key) : Fits(kind, r) /\ r.owner = Leaver
BY DEF Sees, Rows, Parents, RowsInv, AllFit

(* A write that begins keeps the rows fitting,                             *)
LEMMA BeginKeeps ==
    ASSUME RowsInv, NEW t \in Threads, Begin(t), UNCHANGED <<mig, runs>>
    PROVE  RowsInv'
<1>1. PICK w \in Kind[kind].writes : \E key \in UNION {Table(tab).keys : tab \in DOMAIN w} :
         /\ ~Merges(w)
         /\ tx' = [tx EXCEPT ![t] = [write |-> w, key |-> key,
                                     id |-> IF kind = "events" THEN seq ELSE NewId,
                                     seen |-> Sees(DOMAIN w, key), crossed |-> FALSE]]
  BY DEF Begin
<1>a. PICK key :
         /\ ~Merges(w)
         /\ tx' = [tx EXCEPT ![t] = [write |-> w, key |-> key,
                                     id |-> IF kind = "events" THEN seq ELSE NewId,
                                     seen |-> Sees(DOMAIN w, key), crossed |-> FALSE]]
  BY <1>1
<1>2. UNCHANGED <<store, db, pend>> /\ ops' = ops + 1
  BY DEF Begin
<1> DEFINE x == [write |-> w, key |-> key, id |-> IF kind = "events" THEN seq ELSE NewId,
                 seen |-> Sees(DOMAIN w, key), crossed |-> FALSE]
<1>3. /\ x.write = w /\ x.seen = Sees(DOMAIN w, key)
      /\ x.id = IF kind = "events" THEN seq ELSE NewId
      /\ x = [write |-> x.write, key |-> x.key, id |-> x.id, seen |-> x.seen, crossed |-> x.crossed]
  OBVIOUS
<1>4. /\ NewId \in Nat /\ NewId > 1 /\ NewId \notin {1, Leaver, 1 + Leaver}
      /\ (OwnIds(kind) => kind # "events")
  BY LeaverAssumption DEF NewId, RowsInv, OwnIds
<1>5. kind = "events" => "intelligence_events" \in DOMAIN Kind[kind].tables
  <2>1. "events" \in DOMAIN Shared /\ Shared["events"].tables = EventTables
    BY DEF Shared, Store
  <2>2. "events" \notin DOMAIN Local
    BY DEF Local
  <2> QED BY <2>1, <2>2, KindsAre DEF EventTables
<1>6. tx' = [tx EXCEPT ![t] = x]
  BY <1>a
<1> HIDE DEF x
<1>7. TxFits(kind, x)
  BY <1>a, <1>3, <1>4, <1>5, SeesFit DEF TxFits
<1>8. TxsFit(kind, tx')
  BY <1>6, <1>7 DEF RowsInv, TxsFit
<1> QED BY <1>2, <1>8, RowsKeep DEF RowsInv

(* as does one that has ended,                                             *)
LEMMA IdleFits == \A k : TxFits(k, Idle)
BY DEF TxFits, Idle

(* or has crossed a table.                                                 *)
LEMMA CrossedFits ==
    ASSUME NEW k, NEW x, TxFits(k, x), x # Idle, NEW c
    PROVE  TxFits(k, [x EXCEPT !.crossed = c])
<1> DEFINE y == [x EXCEPT !.crossed = c]
<1>1. /\ y.write = x.write /\ y.key = x.key /\ y.id = x.id /\ y.seen = x.seen
      /\ y = [write |-> y.write, key |-> y.key, id |-> y.id, seen |-> y.seen, crossed |-> y.crossed]
  BY DEF TxFits
<1> HIDE DEF y
<1> QED BY <1>1 DEF TxFits, Idle

(* Rows that fit may be committed.                                         *)
LEMMA CommittedKeeps ==
    ASSUME RowsInv, NEW t \in Threads, NEW rows, Committed(t, rows), AllFit(kind, rows),
           ops' \in Nat, UNCHANGED <<mig, runs>>
    PROVE  RowsInv'
<1>1. /\ db' = rows /\ UNCHANGED <<store, pend>>
      /\ tx' = [u \in Threads |-> IF u = t \/ ~Open(u) THEN Idle
                                  ELSE [tx[u] EXCEPT !.crossed = tx[u].crossed \/ rows # db]]
  BY DEF Committed
<1>2. ASSUME NEW u \in Threads PROVE TxFits(kind, tx'[u])
  <2>1. TxFits(kind, tx[u])
    BY DEF RowsInv, TxsFit
  <2>2. CASE u = t \/ ~Open(u)
    BY <1>1, <2>2, IdleFits
  <2>3. CASE u # t /\ Open(u)
    BY <1>1, <2>1, <2>3, CrossedFits DEF Open
  <2> QED BY <2>2, <2>3
<1>3. TxsFit(kind, tx')
  BY <1>1, <1>2 DEF TxsFit
<1> QED BY <1>1, <1>3, RowsKeep

(* What the leaver's writes write and touch fits.                          *)
LEMMA OpenFits ==
    ASSUME RowsInv, NEW t \in Threads, Open(t)
    PROVE  /\ TxFits(kind, tx[t]) /\ tx[t] # Idle /\ tx[t].write \in Kind[kind].writes
           /\ \A tab \in Tabs(t) : tab \in DOMAIN Kind[kind].tables
           /\ \A r \in tx[t].seen : Fits(kind, r) /\ r.owner = Leaver
<1>1. TxFits(kind, tx[t]) /\ tx[t] # Idle
  BY DEF RowsInv, TxsFit, Open
<1>2. tx[t].write \in Kind[kind].writes /\ \A r \in tx[t].seen : Fits(kind, r) /\ r.owner = Leaver
  BY <1>1 DEF TxFits
<1>3. Writable(Kind[kind].tables, Kind[kind].writes)
  BY TableIs DEF Fitting
<1> QED BY <1>1, <1>2, <1>3 DEF Tabs, Writable

(* What a write writes fits, and is the leaver's,                          *)
LEMMA WrittenFits ==
    ASSUME RowsInv, NEW t \in Threads, Open(t), ~Merges(tx[t].write), NEW tab \in Tabs(t)
    PROVE  Fits(kind, Written(t, tab)) /\ Written(t, tab).owner = Leaver
<1> DEFINE n == Written(t, tab)
<1>1. IsRow(n) /\ n.owner = Leaver /\ n.tab = tab
  BY DEF Written, IsRow
<1>2. n.id = IF Verb(t, tab) = "revive" THEN CHOOSE id \in Standing(t, tab) : TRUE
             ELSE IdOf(Table(tab), tx[t].key, tx[t].id)
  BY DEF Written
<1> HIDE DEF n
<1>3. tab \in DOMAIN Kind[kind].tables /\ Table(tab) = Kind[kind].tables[tab]
  BY OpenFits, TableIs
<1>4. ASSUME "id" \in Table(tab).unique, "intelligence_events" \notin DOMAIN Kind[kind].tables
      PROVE  n.id \in Nat /\ n.id > 1
  <2>1. IdOf(Table(tab), tx[t].key, tx[t].id) \in Nat /\ IdOf(Table(tab), tx[t].key, tx[t].id) > 1
    BY <1>4, OpenFits DEF IdOf, TxFits
  <2>2. ASSUME NEW r \in Named(t, tab, tx[t].seen) PROVE r.id \in Nat /\ r.id > 1
    <3>1. Fits(kind, r) /\ r.owner = Leaver /\ r.tab = tab
      BY OpenFits DEF Named
    <3> QED BY <1>3, <1>4, <3>1 DEF Fits
  <2>3. ASSUME Verb(t, tab) = "revive" PROVE \A id \in Standing(t, tab) : id \in Nat /\ id > 1
    BY <2>1, <2>2, <2>3 DEF Standing
  <2>4. Standing(t, tab) # {}
    BY DEF Standing
  <2> QED BY <1>2, <2>1, <2>3, <2>4
<1>5. ASSUME "id" \in Table(tab).unique, OwnIds(kind) PROVE n.id \notin {1, 1 + Leaver}
  <2>1. IdOf(Table(tab), tx[t].key, tx[t].id) \notin {1, 1 + Leaver}
    BY <1>5, OpenFits DEF IdOf, TxFits
  <2>2. ASSUME NEW r \in Named(t, tab, tx[t].seen) PROVE r.id \notin {1, 1 + Leaver}
    <3>1. Fits(kind, r) /\ r.owner = Leaver /\ r.tab = tab
      BY OpenFits DEF Named
    <3> QED BY <1>3, <1>5, <3>1 DEF Fits
  <2>3. ASSUME Verb(t, tab) = "revive" PROVE \A id \in Standing(t, tab) : id \notin {1, 1 + Leaver}
    BY <2>1, <2>2, <2>3 DEF Standing
  <2>4. Standing(t, tab) # {}
    BY DEF Standing
  <2> QED BY <1>2, <2>1, <2>3, <2>4
<1>6. Fits(kind, n)
  BY <1>1, <1>3, <1>4, <1>5, LeaverAssumption DEF Fits, Owners
<1> QED BY <1>1, <1>6 DEF n

(* as is what it reads.                                                    *)
LEMMA RowsAreLeavers ==
    ASSUME RowsInv, NEW tabs
    PROVE  \A r \in Rows(Leaver, tabs) : Fits(kind, r) /\ r.owner = Leaver /\ r \in db
BY DEF Rows, RowsInv, AllFit

(* A write keeps the rows fitting;                                         *)
LEMMA WriteKeeps ==
    ASSUME RowsInv, NEW t \in Threads, Write(t), UNCHANGED <<mig, runs>>
    PROVE  RowsInv'
<1> DEFINE found == UNION {Finds(t, tab) : tab \in Tabs(t)}
           gone  == {r \in found : Verb(t, r.tab) = "replace"}
           fresh == {n \in Anew(t) : Verb(t, n.tab) = "ignore" => InTheWay(n, db) = {}}
           kept == {[r EXCEPT !.body = "live"] : r \in found \ gone}
           result == (db \ found) \cup kept \cup fresh
<1>1. /\ Open(t) /\ ~Merges(tx[t].write) /\ UNCHANGED ops
      /\ Committed(t, db) \/ Committed(t, result)
  BY DEF Write
<1>2. \A r \in found : Fits(kind, r) /\ r.owner = Leaver
  BY RowsAreLeavers DEF Finds
<1>3. \A n \in fresh : Fits(kind, n)
  BY <1>1, WrittenFits DEF Anew
<1> HIDE DEF found, fresh
<1>4. ASSUME NEW q \in kept PROVE Fits(kind, q)
  <2>1. PICK r \in found : q = [r EXCEPT !.body = "live"]
    OBVIOUS
  <2> QED BY <1>2, <2>1, CopiesFit
<1> HIDE DEF kept
<1>5. AllFit(kind, db) /\ AllFit(kind, result)
  BY <1>3, <1>4 DEF AllFit, RowsInv
<1> QED BY <1>1, <1>5, CommittedKeeps DEF RowsInv

(* so does a deletion,                                                     *)
LEMMA DeleteKeeps ==
    ASSUME RowsInv, NEW t \in Threads, Delete(t), UNCHANGED <<mig, runs>>
    PROVE  RowsInv'
<1>1. PICK rows : Committed(t, db \ rows) /\ ops' = ops + 1
  BY DEF Delete
<1>2. AllFit(kind, db \ rows) /\ ops' \in Nat
  BY <1>1 DEF RowsInv, AllFit
<1> QED BY <1>1, <1>2, CommittedKeeps

(* the first half of a merge,                                              *)
LEMMA MergeReadsKeeps ==
    ASSUME RowsInv, NEW t \in Threads, MergeReads(t), UNCHANGED <<mig, runs>>
    PROVE  RowsInv'
<1> DEFINE read == Entities \cup Rewired
<1>1. PICK w \in Kind[kind].writes : Merges(w) /\ tx' = [tx EXCEPT ![t] = [write |-> w, key |-> 0,
               id |-> 0, seen |-> read, crossed |-> FALSE]]
  BY DEF MergeReads
<1>2. UNCHANGED <<store, db, pend>> /\ ops' = ops + 1 /\ {e.key : e \in Entities} = {1, 2}
  BY DEF MergeReads
<1>3. \A r \in read : Fits(kind, r) /\ r.owner = Leaver
  BY RowsAreLeavers DEF Entities, Rewired, FromSource
<1>4. \A key \in {1, 2} : \E e \in read : e.tab = "kg_entities" /\ e.key = key
  BY <1>2 DEF Entities, Rows
<1> HIDE DEF read
<1> DEFINE x == [write |-> w, key |-> 0, id |-> 0, seen |-> read, crossed |-> FALSE]
<1>5. tx' = [tx EXCEPT ![t] = x]
  BY <1>1
<1>6. /\ x.write = w /\ x.seen = read
      /\ x = [write |-> x.write, key |-> x.key, id |-> x.id, seen |-> x.seen, crossed |-> x.crossed]
  OBVIOUS
<1> HIDE DEF x
<1>7. TxFits(kind, x)
  BY <1>1, <1>3, <1>4, <1>6 DEF TxFits
<1>8. TxsFit(kind, tx')
  BY <1>5, <1>7 DEF RowsInv, TxsFit
<1> QED BY <1>2, <1>8, RowsKeep DEF RowsInv

(* Both entities of a merge were read.                                     *)
LEMMA EndsAre ==
    ASSUME RowsInv, NEW t \in Threads, Open(t), Merges(tx[t].write), NEW key \in {1, 2}
    PROVE  End(t, key) \in tx[t].seen /\ End(t, key).tab = "kg_entities" /\ End(t, key).key = key
<1>1. \E e \in tx[t].seen : e.tab = "kg_entities" /\ e.key = key
  BY OpenFits DEF TxFits
<1> QED BY <1>1 DEF End

(* of which there are two,                                                 *)
LEMMA MergesAre == Merges(MergeEntities) /\ Merges(MergeLocalEntities)
BY DEF Merges, MergeEntities, MergeLocalEntities

(* whose second half writes relations of the leaver:                       *)
LEMMA RewireFits ==
    ASSUME RowsInv, NEW t \in Threads, Open(t)
    PROVE  \A m \in Rewire(t) : Fits(kind, m) /\ m.owner = Leaver
<1>1. ASSUME NEW m \in Rewire(t) PROVE Fits(kind, m) /\ m.owner = Leaver
  <2>1. PICK r \in Read(t) : \E ref : m = [r EXCEPT !.ref = ref]
    BY <1>1 DEF Rewire
  <2>a. PICK ref : m = [r EXCEPT !.ref = ref]
    BY <2>1
  <2>2. Fits(kind, r) /\ r.owner = Leaver
    BY OpenFits DEF Read
  <2> QED BY <2>a, <2>2, CopiesFit
<1> QED BY <1>1

(* that of the Postgres driver,                                            *)
LEMMA MergeWritesKeeps ==
    ASSUME RowsInv, NEW t \in Threads, MergeWrites(t), UNCHANGED <<mig, runs>>
    PROVE  RowsInv'
<1>1. PICK rows : /\ Open(t) /\ tx[t].write = MergeEntities /\ UNCHANGED ops
                  /\ Committed(t, (db \ rows) \cup Rewire(t) \cup {[End(t, 1) EXCEPT !.body = "live"]})
  BY DEF MergeWrites
<1>2. End(t, 1) \in tx[t].seen
  BY <1>1, EndsAre, MergesAre
<1>3. Fits(kind, End(t, 1)) /\ End(t, 1).owner = Leaver
  BY <1>1, <1>2, OpenFits
<1>4. Fits(kind, [End(t, 1) EXCEPT !.body = "live"])
  BY <1>3, CopiesFit
<1>5. AllFit(kind, (db \ rows) \cup Rewire(t) \cup {[End(t, 1) EXCEPT !.body = "live"]})
  BY <1>1, <1>4, RewireFits DEF AllFit, RowsInv
<1> QED BY <1>1, <1>5, CommittedKeeps DEF RowsInv

(* that of the SQLite driver,                                              *)
LEMMA LocalMergeWritesKeeps ==
    ASSUME RowsInv, NEW t \in Threads, LocalMergeWrites(t), UNCHANGED <<mig, runs>>
    PROVE  RowsInv'
<1> DEFINE moved == {x[2] : x \in Moved(t)}
<1> DEFINE left == {r \in Rows(Leaver, {"kg_memory_entities"}) : End(t, 2).id \in r.ref}
           rows == {m[1] : m \in Moved(t)} \cup left \cup {e \in Entities : e.id = End(t, 2).id}
           rest == db \ rows
           kept == {m \in moved : m.ref # {End(t, 1).id} /\ \A r \in rest : ~Meets(r, m, {"key"})}
           links == {l \in Relinked(t) : \A r \in rest : ~Meets(r, l, {"key"})}
<1>1. Open(t) /\ UNCHANGED ops /\ Committed(t, rest \cup kept \cup links)
  BY DEF LocalMergeWrites
<1>a. rest \subseteq db /\ kept \subseteq moved /\ links \subseteq Relinked(t)
  OBVIOUS
<1> HIDE DEF rest, kept, links
<1>2. ASSUME NEW m \in moved PROVE Fits(kind, m)
  <2>1. PICK r \in Rows(Leaver, {"kg_relations"}) : \E ref : m = [r EXCEPT !.ref = ref]
    BY <1>2 DEF Moved
  <2>a. PICK ref : m = [r EXCEPT !.ref = ref]
    BY <2>1
  <2> QED BY <2>a, RowsAreLeavers, CopiesFit
<1>3. ASSUME NEW m \in Relinked(t) PROVE Fits(kind, m)
  <2>1. PICK r \in Read(t) : \E ref : m = [r EXCEPT !.ref = ref]
    BY <1>3 DEF Relinked
  <2>a. PICK ref : m = [r EXCEPT !.ref = ref]
    BY <2>1
  <2>2. Fits(kind, r) /\ r.owner = Leaver
    BY <1>1, OpenFits DEF Read
  <2> QED BY <2>a, <2>2, CopiesFit
<1> HIDE DEF moved
<1>4. AllFit(kind, rest \cup kept \cup links)
  BY <1>a, <1>2, <1>3 DEF AllFit, RowsInv
<1> QED BY <1>1, <1>4, CommittedKeeps DEF RowsInv

(* and so every step of a live write.                                      *)
LEMMA LiveKeepsRows ==
    ASSUME RowsInv, NEW t \in Threads, LiveStep(t), UNCHANGED <<mig, runs>>
    PROVE  RowsInv'
BY BeginKeeps, WriteKeeps, DeleteKeeps, MergeReadsKeeps, MergeWritesKeeps, LocalMergeWritesKeeps
   DEF LiveStep

(* The claims of the YouTube migration.                                    *)
LEMMA YouTubeIs ==
    /\ Kind["youtube"].tables[Ledger].unique = {"key"} /\ Kind["youtube"].tables[Ledger].fk = FALSE
    /\ Ledger \in DOMAIN Kind["youtube"].tables
<1>1. Kind["youtube"] = Store(YouTubeTables, YouTubeWrites, YouTubeScript)
  BY KindsAre DEF Shared, Local
<1>2. /\ YouTubeTables[Ledger] = Natural /\ Ledger \in DOMAIN YouTubeTables
  BY DEF YouTubeTables, Ledger
<1>3. Natural.unique = {"key"} /\ Natural.fk = FALSE
  BY DEF Natural, Told
<1> QED BY <1>1, <1>2, <1>3 DEF Store

(* The migration replays old rows, and claims stages for the ledger.       *)
LEMMA ReplayedFits ==
    ASSUME FenceInv, RowsInv, NEW r \in mig.left, NEW rows, NEW known, Replayed(r, rows, known),
           mig.at = "replay", AllFit(kind, rows)
    PROVE  RowsInv'
<1>1. mig' = [mig EXCEPT !.left = mig.left \ {r}, !.known = mig.known \cup known]
  BY DEF Replayed
<1>2. mig'.left \subseteq mig.left /\ mig'.at = mig.at
  BY <1>1 DEF FenceInv, IsMigration
<1>3. UNCHANGED <<store, db, tx, ops, runs>> /\ pend' = pend \cup rows
  BY DEF Replayed
<1>4. AllFit(kind, pend') /\ AllFit(kind, mig'.left) /\ mig'.left \subseteq OldRows(kind)
  BY <1>2, <1>3 DEF AllFit, RowsInv
<1> QED BY <1>2, <1>3, <1>4 DEF RowsInv, kind, Script

(* A migration that rolls back keeps the rows fitting;                     *)
LEMMA RollbackFits == RowsInv /\ Rollback => RowsInv'
BY DEF RowsInv, Rollback, NoRun, AllFit, kind, Script

(* a stage it claims fits,                                                 *)
LEMMA ClaimFits ==
    ASSUME RowsInv, mig.at = "replay", NEW r \in mig.left, InsertOnce(r), mig.step \in 1..Len(Script)
    PROVE  Fits(kind, Claim(r)) /\ Fits(kind, [r EXCEPT !.id = StageId(r.owner)])
<1>1. Fits(kind, r) /\ r \in OldRows(kind) /\ Script # <<>> /\ runs \in Nat
  BY DEF RowsInv, AllFit
<1>2. IsRow(r)
  BY <1>1 DEF Fits
<1>3. Script[mig.step][1] = "once"
  BY DEF InsertOnce, Turn
<1>4. kind = "youtube"
  BY <1>3, TableIs DEF Fitting, Claiming, Script
<1> DEFINE c == Claim(r)
           n == [r EXCEPT !.id = StageId(r.owner)]
<1>5. IsRow(c) /\ c.tab = Ledger /\ c.owner = r.owner
  BY <1>2 DEF Claim, IsRow, Ledger
<1>6. IsRow(n) /\ n.tab = r.tab /\ n.owner = r.owner /\ n.ref = r.ref /\ n.id = StageId(r.owner)
  BY <1>2 DEF IsRow
<1> HIDE DEF c, n
<1>7. Fits(kind, c)
  BY <1>1, <1>4, <1>5, YouTubeIs DEF Fits, OwnIds
<1>8. r.owner = Leaver => n.id \in Nat /\ n.id > 1
  BY <1>1, <1>6, LeaverAssumption, MaxOpsAssumption DEF StageId
<1>9. Fits(kind, n)
  BY <1>1, <1>4, <1>6, <1>8 DEF Fits, OwnIds
<1> QED BY <1>7, <1>9 DEF c, n

(* and so does whatever row it replays;                                    *)
LEMMA RowStepFits ==
    ASSUME FenceInv, RowsInv, NEW r \in mig.left, mig.step \in Nat \ {0},
           Check(r) \/ Insert(r) \/ InsertItem(r) \/ InsertOnce(r) \/ InsertReview(r) \/ Parity(r)
    PROVE  RowsInv'
<1>1. mig.at = "replay" /\ Fits(kind, r)
  BY DEF Check, Insert, InsertItem, InsertOnce, InsertReview, Parity, Turn, RowsInv, AllFit
<1>2. \A rows, known : Replayed(r, rows, known) /\ AllFit(kind, rows) => RowsInv'
  BY <1>1, ReplayedFits
<1>3. AllFit(kind, {}) /\ AllFit(kind, {r})
  BY <1>1 DEF AllFit
<1>4. CASE Check(r)
  BY <1>2, <1>3, <1>4, RollbackFits DEF Check
<1>5. CASE Insert(r)
  BY <1>2, <1>3, <1>5, RollbackFits DEF Insert
<1>6. CASE InsertItem(r)
  BY <1>2, <1>3, <1>6 DEF InsertItem
<1>7. CASE InsertOnce(r)
  <2> DEFINE new == {Claim(r), [r EXCEPT !.id = StageId(r.owner)]}
  <2>1. Replayed(r, {}, {}) \/ Replayed(r, new, {})
    BY <1>7 DEF InsertOnce
  <2>2. mig.step \in 1..Len(Script)
    BY <1>7 DEF InsertOnce, Turn
  <2>3. AllFit(kind, new)
    BY <1>1, <1>7, <2>2, ClaimFits DEF AllFit
  <2> HIDE DEF new
  <2> QED BY <1>2, <1>3, <2>1, <2>3
<1>8. CASE InsertReview(r)
  BY <1>2, <1>3, <1>8, RollbackFits DEF InsertReview
<1>9. CASE Parity(r)
  BY <1>2, <1>3, <1>9, RollbackFits DEF Parity
<1> QED BY <1>4, <1>5, <1>6, <1>7, <1>8, <1>9

(* the next statement takes its rows from the old file;                    *)
LEMMA AtFits ==
    ASSUME FenceInv, RowsInv, NEW n, mig' = At(n), Script # <<>>, UNCHANGED <<store, db, pend, tx,
               ops, runs>>
    PROVE  RowsInv'
<1>1. /\ mig'.at = "replay"
      /\ mig'.left = IF n <= Len(Script) THEN Source(mig.sel, {Script[n][2]}) ELSE {}
  BY DEF At, FenceInv, IsMigration
<1>2. mig'.left \subseteq OldRows(kind)
  BY <1>1 DEF Source
<1>3. AllFit(kind, mig'.left)
  BY <1>2, OldRowsFit DEF AllFit, RowsInv
<1> QED BY <1>1, <1>2, <1>3 DEF RowsInv, kind, Script

(* Its statements are counted from one.                                    *)
StepInv == mig.at = "replay" => mig.step \in Nat \ {0}

(* and so every step of the migration keeps them.                          *)
LEMMA MigrationKeepsRows ==
    ASSUME FenceInv, RowsInv, StepInv, MigrationStep PROVE RowsInv' /\ StepInv'
<1>1. CASE StartMigration
  <2>1. PICK sel : mig' = [NoRun EXCEPT !.at = "lock", !.sel = sel]
    BY <1>1 DEF StartMigration
  <2>2. mig'.at = "lock" /\ mig'.left = {}
    BY <2>1 DEF NoRun
  <2>3. UNCHANGED <<store, db, pend, tx, ops>> /\ runs' = runs + 1 /\ Script # <<>>
    BY <1>1 DEF StartMigration
  <2> QED BY <2>2, <2>3 DEF RowsInv, StepInv, AllFit, kind, Script
<1>2. CASE LockOwner
  <2>1. \/ Rollback
        \/ /\ UNCHANGED <<store, db, pend, tx, ops, runs>> /\ mig.at = "lock"
           /\ mig' = At(1) \/ mig' = mig
    BY <1>2 DEF LockOwner
  <2>2. CASE Rollback
    BY <2>2, RollbackFits DEF Rollback, NoRun, StepInv
  <2>3. ASSUME mig' = At(1) PROVE mig'.step = 1
    BY <2>3 DEF At, FenceInv, IsMigration
  <2>4. CASE mig' = At(1) /\ ~Rollback
    BY <2>1, <2>3, <2>4, AtFits DEF RowsInv, StepInv
  <2>5. CASE mig' = mig /\ ~Rollback
    BY <2>1, <2>5 DEF RowsInv, StepInv, kind, Script
  <2> QED BY <2>1, <2>2, <2>4, <2>5
<1>3. CASE NextStatement \/ SetSequence
  <2>1. /\ mig' = At(mig.step + 1) /\ mig.at = "replay"
        /\ UNCHANGED <<store, db, pend, tx, ops, runs>>
    BY <1>3 DEF NextStatement, SetSequence, tableVars
  <2>2. mig'.step = mig.step + 1
    BY <2>1 DEF At, FenceInv, IsMigration
  <2>3. RowsInv'
    BY <2>1, AtFits DEF RowsInv
  <2> QED BY <2>1, <2>2, <2>3 DEF StepInv
<1>4. CASE FinishMigration
  <2>1. /\ mig' = NoRun /\ pend' = {} /\ db' = db \cup pend /\ UNCHANGED <<store, ops, runs>>
        /\ tx' = [t \in Threads |-> IF Open(t) THEN [tx[t] EXCEPT !.crossed = tx[t].crossed \/ pend # {}]
                                    ELSE Idle]
    BY <1>4 DEF FinishMigration, Visible
  <2>2. ASSUME NEW t \in Threads PROVE TxFits(kind, tx'[t])
    <3>1. TxFits(kind, tx[t])
      BY DEF RowsInv, TxsFit
    <3> QED BY <2>1, <3>1, IdleFits, CrossedFits DEF Open
  <2>3. TxsFit(kind, tx')
    BY <2>1, <2>2 DEF TxsFit
  <2>4. AllFit(kind, db') /\ AllFit(kind, pend')
    BY <2>1 DEF AllFit, RowsInv
  <2>5. mig'.at = "none" /\ mig'.left = {}
    BY <2>1 DEF NoRun
  <2> QED BY <2>1, <2>3, <2>4, <2>5 DEF RowsInv, StepInv, AllFit, kind, Script
<1>5. ASSUME NEW r \in Upcoming,
             Check(r) \/ Insert(r) \/ InsertItem(r) \/ InsertOnce(r) \/ InsertReview(r) \/ Parity(r)
      PROVE  RowsInv' /\ StepInv'
  <2>1. r \in mig.left /\ mig.at = "replay"
    BY <1>5 DEF Upcoming, Check, Insert, InsertItem, InsertOnce, InsertReview, Parity, Turn
  <2>2. \/ Rollback
        \/ \E known : mig' = [mig EXCEPT !.left = mig.left \ {r}, !.known = mig.known \cup known]
    <3>1. Rollback \/ \E rows, known : Replayed(r, rows, known)
      BY <1>5 DEF Check, Insert, InsertItem, InsertOnce, InsertReview, Parity
    <3> QED BY <3>1 DEF Replayed
  <2>3. mig' = NoRun \/ (mig'.step = mig.step /\ mig'.at = mig.at)
    BY <2>2 DEF Rollback, FenceInv, IsMigration
  <2>4. StepInv'
    BY <2>3 DEF StepInv, NoRun
  <2> QED BY <1>5, <2>1, <2>4, RowStepFits DEF StepInv
<1> QED BY <1>1, <1>2, <1>3, <1>4, <1>5 DEF MigrationStep

-----------------------------------------------------------------------------
(* The two tables of the agent runtime are no other store's.               *)
LEMMA AgentTablesAre ==
    ASSUME RowsInv
    PROVE  /\ Agents => /\ DOMAIN Kind[kind].tables = {"agent_runs", "agent_tool_calls"}
                        /\ Kind[kind].writes = {} /\ Script = <<>>
                        /\ Table("agent_tool_calls").parent = "agent_runs"
           /\ ~Agents => Runs = {}
<1>1. Kind["agents"] = Store(AgentTables, {}, <<>>) /\
          Kind["local_agents"] = Store(LocalAgentTables, {}, <<>>)
  BY KindsAre DEF Shared, Local
<1>2. /\ DOMAIN AgentTables = {"agent_runs", "agent_tool_calls"}
      /\ DOMAIN LocalAgentTables = {"agent_runs", "agent_tool_calls"}
  BY DEF AgentTables, LocalAgentTables
<1>3. AgentTables["agent_tool_calls"].parent = "agent_runs"
  BY DEF AgentTables, Child
<1>4. LocalAgentTables["agent_tool_calls"].parent = "agent_runs"
  BY DEF LocalAgentTables, Child
<1>5. ASSUME kind = "agents"
      PROVE  /\ DOMAIN Kind[kind].tables = {"agent_runs", "agent_tool_calls"}
             /\ Kind[kind].writes = {} /\ Script = <<>>
             /\ Table("agent_tool_calls").parent = "agent_runs"
  BY <1>1, <1>2, <1>3, <1>5, TableIs DEF Store, Script
<1>6. ASSUME kind = "local_agents"
      PROVE  /\ DOMAIN Kind[kind].tables = {"agent_runs", "agent_tool_calls"}
             /\ Kind[kind].writes = {} /\ Script = <<>>
             /\ Table("agent_tool_calls").parent = "agent_runs"
  BY <1>1, <1>2, <1>4, <1>6, TableIs DEF Store, Script
<1>7. ASSUME ~Agents PROVE Runs = {}
  <2>1. "agent_runs" \notin DOMAIN Kind[kind].tables
    BY <1>7, TableIs DEF Fitting, Agents
  <2> QED BY <2>1 DEF Runs, RowsInv, AllFit, Fits
<1> QED BY <1>5, <1>6, <1>7 DEF Agents

(* Nothing else goes on in its store.                                      *)
LEMMA AgentsAlone ==
    ASSUME RowsInv, Agents
    PROVE  /\ \A t \in Threads : ~Open(t) /\ ~LiveStep(t)
           /\ mig.at = "none" /\ ~MigrationStep
<1>1. \A t \in Threads : ~Open(t)
  BY AgentTablesAre DEF RowsInv, TxsFit, TxFits, Open
<1>2. \A t \in Threads : ~LiveStep(t)
  BY <1>1, AgentTablesAre
     DEF LiveStep, Begin, Write, Delete, MergeReads, MergeWrites, LocalMergeWrites
<1>3. mig.at = "none" /\ Script = <<>>
  BY AgentTablesAre DEF RowsInv
<1>4. ~StartMigration
  BY <1>3 DEF StartMigration
<1>5. ~MigrationStep
  BY <1>3, <1>4
     DEF MigrationStep, LockOwner, NextStatement, SetSequence, FinishMigration, Finishing,
     Check, Insert, InsertItem, InsertOnce, InsertReview, Parity, Turn
<1> QED BY <1>1, <1>2, <1>3, <1>5

FiniteInv == Agents => IsFiniteSet(db)

(* A row keeps fitting when its status is set.                             *)
LEMMA BodyFits ==
    ASSUME NEW k, NEW r, Fits(k, r), NEW x
    PROVE  /\ Fits(k, [r EXCEPT !.body = x]) /\ IsRow([r EXCEPT !.body = x])
           /\ [r EXCEPT !.body = x].owner = r.owner /\ [r EXCEPT !.body = x].tab = r.tab
           /\ [r EXCEPT !.body = x].id = r.id /\ [r EXCEPT !.body = x].ref = r.ref
           /\ [r EXCEPT !.body = x].body = x
<1> DEFINE q == [r EXCEPT !.body = x]
<1>1. /\ IsRow(q) /\ q.owner = r.owner /\ q.tab = r.tab /\ q.id = r.id /\ q.ref = r.ref /\ q.body = x
  BY DEF Fits, IsRow
<1> HIDE DEF q
<1>2. Fits(k, q)
  BY <1>1 DEF Fits
<1> QED BY <1>1, <1>2 DEF q

(* A new run or call fits.                                                 *)
LEMMA AgentRowFits ==
    ASSUME RowsInv, Agents, NEW tab \in {"agent_runs", "agent_tool_calls"}, NEW id \in Nat, id > 1,
           NEW ref, NEW status
    PROVE  Fits(kind, AgentRow(tab, id, ref, status))
<1> DEFINE r == AgentRow(tab, id, ref, status)
<1>1. IsRow(r) /\ r.owner = Leaver /\ r.tab = tab /\ r.id = id
  BY DEF AgentRow, IsRow
<1> HIDE DEF r
<1>2. Fits(kind, r)
  BY <1>1, AgentTablesAre, LeaverAssumption DEF Fits, Owners, OwnIds, Script
<1> QED BY <1>2 DEF r

(* Rows that fit may be stored.                                            *)
LEMMA StoredFits ==
    ASSUME RowsInv, NEW rows, Stored(rows), AllFit(kind, rows), ops' \in Nat, UNCHANGED <<mig, runs>>
    PROVE  RowsInv'
BY RowsKeep DEF Stored, RowsInv

(* The rows keep fitting when the status of some is set,                   *)
LEMMA StatusFits ==
    ASSUME RowsInv, NEW rows \in SUBSET db, NEW status
    PROVE  AllFit(kind, (db \ rows) \cup WithStatus(rows, status))
<1>1. ASSUME NEW q \in WithStatus(rows, status) PROVE Fits(kind, q)
  <2>1. PICK r \in rows : q = [r EXCEPT !.body = status]
    BY <1>1 DEF WithStatus
  <2> QED BY <2>1, BodyFits DEF RowsInv, AllFit
<1> QED BY <1>1 DEF RowsInv, AllFit

(* and stay finitely many.                                                 *)
LEMMA StatusFinite ==
    ASSUME NEW D, IsFiniteSet(D), NEW rows \in SUBSET D, NEW status
    PROVE  IsFiniteSet((D \ rows) \cup WithStatus(rows, status))
<1>1. IsFiniteSet(rows) /\ IsFiniteSet(D \ rows)
  BY FS_Subset
<1>2. IsFiniteSet(WithStatus(rows, status))
  <2> DEFINE f == [r \in rows |-> [r EXCEPT !.body = status]]
  <2>1. f \in Surjection(rows, WithStatus(rows, status))
    BY DEF WithStatus, Surjection
  <2> QED BY <1>1, <2>1, FS_Surjection
<1> QED BY <1>1, <1>2, FS_Union

(* The requests of the agents keep the rows fitting, and finitely many.    *)
LEMMA AgentsKeepRows ==
    ASSUME RowsInv, FiniteInv, NEW t \in Threads, AgentStep(t), UNCHANGED <<mig, runs>>,
           \A u \in Threads : agent[u] # NoRequest => Agents
    PROVE  RowsInv' /\ FiniteInv'
<1>1. CASE Run(t)
  <2>1. PICK status : Stored(db \cup {AgentRow("agent_runs", NewId, {}, status)})
    BY <1>1 DEF Run
  <2>2. Agents /\ ops' = ops + 1
    BY <1>1 DEF Run
  <2>3. NewId \in Nat /\ NewId > 1
    BY LeaverAssumption DEF NewId, RowsInv
  <2> DEFINE r == AgentRow("agent_runs", NewId, {}, status)
  <2>4. Fits(kind, r)
    BY <2>2, <2>3, AgentRowFits
  <2> HIDE DEF r
  <2>5. Stored(db \cup {r})
    BY <2>1 DEF r
  <2>6. AllFit(kind, db \cup {r})
    BY <2>4 DEF RowsInv, AllFit
  <2>7. RowsInv'
    BY <2>2, <2>5, <2>6, StoredFits DEF RowsInv
  <2>8. IsFiniteSet(db \cup {r})
    BY <2>2, FS_AddElement DEF FiniteInv
  <2> QED BY <2>5, <2>7, <2>8 DEF FiniteInv, Stored
<1>2. CASE SetRunning(t) \/ Mark(t)
  <2>1. PICK rows \in SUBSET db : \E status : Stored((db \ rows) \cup WithStatus(rows, status))
    BY <1>2 DEF SetRunning, Mark, Marked, Runs, Calls
  <2>2. PICK status : Stored((db \ rows) \cup WithStatus(rows, status))
    BY <2>1
  <2>3. UNCHANGED ops /\ Agents
    BY <1>2 DEF SetRunning, Mark, NoRequest
  <2>4. RowsInv'
    BY <2>2, <2>3, StatusFits, StoredFits DEF RowsInv
  <2>5. IsFiniteSet((db \ rows) \cup WithStatus(rows, status))
    BY <2>3, StatusFinite DEF FiniteInv
  <2> QED BY <2>2, <2>4, <2>5 DEF FiniteInv, Stored
<1>3. CASE CreateToolCall(t)
  <2> DEFINE r == AgentRow("agent_tool_calls", 200 + Cardinality(Calls), {agent[t].run}, "running")
  <2>1. Stored(db \cup {r}) /\ UNCHANGED ops /\ Agents
    BY <1>3 DEF CreateToolCall, NoRequest
  <2>2. IsFiniteSet(db) /\ IsFiniteSet(Calls)
    BY <2>1, FS_Subset DEF FiniteInv, Calls
  <2>3. Cardinality(Calls) \in Nat
    BY <2>2, FS_CardinalityType
  <2>4. Fits(kind, r)
    BY <2>1, <2>3, AgentRowFits
  <2> HIDE DEF r
  <2>5. AllFit(kind, db \cup {r})
    BY <2>4 DEF RowsInv, AllFit
  <2>6. RowsInv'
    BY <2>1, <2>5, StoredFits DEF RowsInv
  <2>7. IsFiniteSet(db \cup {r})
    BY <2>2, FS_AddElement
  <2> QED BY <2>1, <2>6, <2>7 DEF FiniteInv, Stored
<1>4. CASE Approve(t) \/ InvokeTool(t) \/ Refused(t)
  <2>1. UNCHANGED <<store, db, pend, tx>> /\ (ops' = ops \/ ops' = ops + 1)
    BY <1>4 DEF Approve, InvokeTool, Refused, Ends, tableVars
  <2> QED BY <2>1, RowsKeep DEF RowsInv, FiniteInv, Agents, kind
<1> QED BY <1>1, <1>2, <1>3, <1>4 DEF AgentStep

-----------------------------------------------------------------------------
(* The steps of the erasure, in their order.                               *)
LEMMA LastIs == Last = 14 /\ Memories = 6
BY DEF Last, Steps, Memories

(* The next step of the erasure is the least one with rows.                *)
LEMMA LeastOfSteps ==
    ASSUME NEW S \in SUBSET (1..14), S # {}
    PROVE  \E k \in S : \A j \in S : k <= j
<1> SUFFICES ASSUME \A k \in S : \E j \in S : j < k PROVE FALSE
  OBVIOUS
<1>0. \A k \in S : k \in Int /\ k >= 1 /\ k <= 14
  OBVIOUS
<1>1. \A k \in S : k >= 4
  BY <1>0
<1>2. \A k \in S : k >= 7
  BY <1>0, <1>1
<1>3. \A k \in S : k >= 10
  BY <1>0, <1>2
<1>4. \A k \in S : k >= 13
  BY <1>0, <1>3
<1>5. \A k \in S : k >= 15
  BY <1>0, <1>4
<1>6. PICK k \in S : TRUE
  OBVIOUS
<1> QED BY <1>0, <1>5, <1>6

(* The next one passes over none that has rows to delete.                  *)
LEMMA AfterIs ==
    ASSUME NEW n \in 0..Last, NEW errors \in BOOLEAN
    PROVE  /\ After(n, errors) \in (n + 1)..(Last + 1)
           /\ \A k \in (n + 1)..Last :
                 Concerns(k) /\ (errors => k < Last - 1) => After(n, errors) <= k
<1> DEFINE later == {k \in (n + 1)..Last : Concerns(k) /\ (errors => k < Last - 1)}
<1>1. After(n, errors) = IF later = {} THEN Last + 1 ELSE CHOOSE k \in later : \A j \in later : k <= j
  BY DEF After
<1>2. later \subseteq 1..14 /\ later \subseteq (n + 1)..Last
  BY LastIs
<1>3. CASE later = {}
  BY <1>1, <1>3, LastIs
<1>4. CASE later # {}
  <2>1. \E k \in later : \A j \in later : k <= j
    <3> HIDE DEF later
    <3> QED BY <1>2, <1>4, LeastOfSteps
  <2>2. After(n, errors) \in later /\ \A j \in later : After(n, errors) <= j
    <3> HIDE DEF later
    <3> QED BY <1>1, <1>4, <2>1
  <2> QED BY <2>2, LastIs
<1> QED BY <1>3, <1>4

(* Where the erasure is, it is behind the fence.                           *)
ErasingInv ==
    /\ er = [at |-> er.at, errors |-> er.errors, done |-> er.done]
    /\ er.at \in 0..(Last + 1) /\ er.errors \in BOOLEAN /\ er.done \in BOOLEAN /\ faults \in Nat
    /\ er.at # 0 \/ er.done => fenced /\ kind \notin DOMAIN Local
    /\ er.at # 0 => ~er.done

(* The steps of the erasure keep to their order.                           *)
LEMMA ErasingStep ==
    ASSUME ErasingInv, ErasureStep PROVE ErasingInv'
<1>1. kind' = kind /\ (fenced => fenced')
  <2>1. CASE EraseMemories
    <3>1. fenced' = fenced /\ \E rows : Erased(rows)
      BY <2>1 DEF EraseMemories
    <3> QED BY <3>1 DEF Erased, kind
  <2>2. CASE Fence
    BY <2>2 DEF Fence, kind
  <2>3. CASE EraseStore
    BY <2>3 DEF EraseStore, Erased, kind
  <2>4. CASE Finish \/ Raises
    <3>1. UNCHANGED tableVars
      BY <2>4 DEF Finish, Raises
    <3> QED BY <3>1 DEF tableVars, kind
  <2> QED BY <2>1, <2>2, <2>3, <2>4 DEF ErasureStep
<1>2. CASE Fence
  <2> DEFINE a == After(0, FALSE)
  <2>1. er' = [at |-> a, errors |-> FALSE, done |-> FALSE] /\ fenced' /\ faults' = faults
    BY <1>2 DEF Fence
  <2>2. a \in (0 + 1)..(Last + 1)
    <3>1. 0 \in 0..Last
      BY LastIs
    <3> QED BY <3>1, AfterIs
  <2>3. kind \notin DOMAIN Local
    BY <1>2 DEF Fence
  <2> HIDE DEF a
  <2> QED BY <1>1, <2>1, <2>2, <2>3, LastIs DEF ErasingInv
<1>3. CASE EraseStore
  <2> DEFINE a == After(er.at, er.errors)
  <2>1. er' = [er EXCEPT !.at = a] /\ faults' = faults /\ er.at \in 1..Last
    BY <1>3 DEF EraseStore
  <2>2. a \in 1..(Last + 1)
    BY <2>1, AfterIs, LastIs DEF ErasingInv
  <2> HIDE DEF a
  <2>3. /\ er'.at = a /\ er'.errors = er.errors /\ er'.done = er.done
        /\ er' = [at |-> er'.at, errors |-> er'.errors, done |-> er'.done]
    BY <2>1 DEF ErasingInv
  <2> QED BY <1>1, <2>1, <2>2, <2>3, LastIs DEF ErasingInv
<1>4. CASE EraseMemories
  <2>1. PICK fails \in BOOLEAN : /\ er' = [er EXCEPT !.errors = fails, !.at = After(Memories, fails)]
                                 /\ faults' \in {faults, faults + 1} /\ er.at = Memories
    BY <1>4 DEF EraseMemories
  <2> DEFINE a == After(Memories, fails)
  <2>2. a \in 1..(Last + 1)
    BY AfterIs, LastIs
  <2>3. er' = [er EXCEPT !.errors = fails, !.at = a]
    BY <2>1
  <2> HIDE DEF a
  <2>4. /\ er'.at = a /\ er'.errors = fails /\ er'.done = er.done
        /\ er' = [at |-> er'.at, errors |-> er'.errors, done |-> er'.done]
    BY <2>3 DEF ErasingInv
  <2> QED BY <1>1, <2>1, <2>2, <2>4, LastIs DEF ErasingInv
<1>5. CASE Finish
  <2>1. /\ er'.at = 0 /\ er'.errors = er.errors /\ er'.done = TRUE /\ faults' = faults
        /\ er' = [at |-> er'.at, errors |-> er'.errors, done |-> er'.done]
    BY <1>5 DEF ErasingInv, Finish
  <2>2. er.at # 0
    BY <1>5, LastIs DEF Finish
  <2>3. fenced' /\ kind' \notin DOMAIN Local /\ 0 \in 0..(Last + 1)
    BY <1>1, <2>2, LastIs DEF ErasingInv
  <2>4. er.errors \in BOOLEAN /\ er.done \in BOOLEAN /\ faults \in Nat /\ ~er.done
    BY <2>2 DEF ErasingInv
  <2> QED BY <2>1, <2>3, <2>4 DEF ErasingInv
<1>6. CASE Raises
  <2>1. /\ er'.at = 0 /\ er'.errors = er.errors /\ er'.done = er.done /\ faults' = faults + 1
        /\ er' = [at |-> er'.at, errors |-> er'.errors, done |-> er'.done]
    BY <1>6 DEF ErasingInv, Raises
  <2>2. er.at # 0
    BY <1>6, LastIs DEF Raises
  <2>3. fenced' /\ kind' \notin DOMAIN Local /\ 0 \in 0..(Last + 1)
    BY <1>1, <2>2, LastIs DEF ErasingInv
  <2>4. er.errors \in BOOLEAN /\ er.done \in BOOLEAN /\ faults \in Nat /\ ~er.done
    BY <2>2 DEF ErasingInv
  <2> QED BY <2>1, <2>3, <2>4 DEF ErasingInv
<1> QED BY <1>2, <1>3, <1>4, <1>5, <1>6 DEF ErasureStep

(* The parents of a neighbour's row are not among the leaver's.            *)
LEMMA NeighboursAreNoChildren ==
    ASSUME RowsInv, NEW rows \in SUBSET db, \A r \in rows : r.owner = Leaver,
           NEW c \in ChildrenOf(rows, db)
    PROVE  c.owner = Leaver
<1>1. PICK p \in rows : p.tab = Table(c.tab).parent /\ p.id \in c.ref
  BY DEF ChildrenOf
<1>2. c \in db /\ Table(c.tab).fk
  BY DEF ChildrenOf
<1>3. Fits(kind, c) /\ Fits(kind, p) /\ p.owner = Leaver
  BY <1>1, <1>2 DEF RowsInv, AllFit
<1>4. Rooted(Kind[kind].tables) /\ c.tab \in DOMAIN Kind[kind].tables
  BY <1>3, FittingKinds DEF RowsInv, Fitting, Fits
<1>5. /\ "id" \in Kind[kind].tables[p.tab].unique
      /\ "intelligence_events" \notin DOMAIN Kind[kind].tables
  BY <1>1, <1>2, <1>4 DEF Rooted, RowsInv, Table
<1>6. p.id \in Nat /\ p.id > 1
  BY <1>3, <1>5 DEF Fits
<1>7. c.owner # Leaver => c.ref \subseteq {1}
  BY <1>2, <1>3 DEF Fits, Table, RowsInv
<1> QED BY <1>1, <1>6, <1>7

(* What a step of the erasure does to the rows.                            *)
LEMMA ErasedIs ==
    ASSUME NEW rows, Erased(rows) PROVE db' = db \ rows /\ UNCHANGED <<store, tx, pend, ops>>
BY DEF Erased

(* The erasure only takes rows, and no neighbour's.                        *)
LEMMA NeighboursStay ==
    ASSUME RowsInv, ErasureStep
    PROVE  /\ \A r \in db : r.owner # Leaver => r \in db'
           /\ db' \subseteq db /\ UNCHANGED <<store, tx, pend, ops>>
<1>1. CASE EraseStore
  <2> DEFINE mine == Mine(er.at)
  <2>1. mine \in SUBSET db /\ \A r \in mine : r.owner = Leaver
    BY DEF Mine, Rows
  <2> HIDE DEF mine
  <2>2. \A c \in ChildrenOf(mine, db) : c.owner = Leaver
    BY <2>1, NeighboursAreNoChildren
  <2>3. Erased(mine \cup ChildrenOf(mine, db))
    BY <1>1 DEF EraseStore, mine
  <2> QED BY <2>1, <2>2, <2>3, ErasedIs
<1>2. CASE EraseMemories
  <2>1. PICK gone \in SUBSET Rows(Leaver, OfMemories \cup {"memory_records"}) :
           Erased(gone \cup ChildrenOf(gone, db))
    BY <1>2 DEF EraseMemories
  <2>2. gone \in SUBSET db /\ \A r \in gone : r.owner = Leaver
    BY DEF Rows
  <2>3. \A c \in ChildrenOf(gone, db) : c.owner = Leaver
    BY <2>2, NeighboursAreNoChildren
  <2> QED BY <2>1, <2>2, <2>3, ErasedIs
<1>3. CASE Fence \/ Finish \/ Raises
  <2>1. UNCHANGED <<db, store, tx, pend, ops>>
    BY <1>3 DEF Fence, Finish, Raises, tableVars
  <2> QED BY <2>1
<1> QED BY <1>1, <1>2, <1>3 DEF ErasureStep

-----------------------------------------------------------------------------
(* Rows of a set, or of two, that the constraints of their tables tell     *)
(* apart.                                                                  *)
Unlike(tables, S) == \A r, s \in S : r = s \/ ~Meets(r, s, tables[r.tab].unique)
Clear(tables, R, S) == \A r \in R, s \in S : ~Meets(r, s, tables[r.tab].unique)

(* Whom a row meets does not depend on the order,                          *)
LEMMA MeetsBack == ASSUME NEW r, NEW s, NEW ways PROVE Meets(r, s, ways) => Meets(s, r, ways)
BY DEF Meets

(* nor of which set it is,                                                 *)
LEMMA ClearBack == ASSUME NEW T, NEW R, NEW S, Clear(T, R, S) PROVE Clear(T, S, R)
<1> SUFFICES ASSUME NEW r \in S, NEW s \in R, Meets(r, s, T[r.tab].unique) PROVE FALSE
  BY DEF Clear
<1>1. Meets(s, r, T[r.tab].unique) /\ s.tab = r.tab
  BY MeetsBack DEF Meets
<1> QED BY <1>1 DEF Clear

(* and sets of rows may be put together when no two of theirs meet.        *)
LEMMA UnlikeUnion ==
    ASSUME NEW T, NEW R, NEW S, Unlike(T, R), Unlike(T, S), Clear(T, R, S)
    PROVE  Unlike(T, R \cup S)
BY ClearBack DEF Unlike, Clear

(* A part of such a set is one.                                            *)
LEMMA UnlikeParts ==
    ASSUME NEW T, NEW R, NEW S, Unlike(T, R), S \subseteq R
    PROVE  Unlike(T, S)
BY DEF Unlike

(* Nor does it depend on the body of a row:                                *)
LEMMA BodyMeets ==
    ASSUME NEW r, IsRow(r), NEW x
    PROVE  LET c == [r EXCEPT !.body = x]
           IN  /\ IsRow(c) /\ c.tab = r.tab /\ c.owner = r.owner /\ c.id = r.id /\ c.key = r.key
               /\ c.ref = r.ref /\ c.body = x
BY DEF IsRow

(* copies with another body meet whom their originals meet,                *)
LEMMA ClearCopies ==
    ASSUME NEW T, NEW D, \A r \in D : IsRow(r), NEW S, Clear(T, D, S), NEW rows \in SUBSET D, NEW x
    PROVE  Clear(T, (D \ rows) \cup WithStatus(rows, x), S)
<1> DEFINE copy(r) == [r EXCEPT !.body = x]
<1>1. \A r \in D : /\ copy(r).tab = r.tab /\ copy(r).owner = r.owner /\ copy(r).id = r.id
                   /\ copy(r).key = r.key /\ copy(r).ref = r.ref
  BY BodyMeets
<1> HIDE DEF copy
<1>2. ASSUME NEW r \in D, NEW s \in S PROVE ~Meets(copy(r), s, T[copy(r).tab].unique)
  BY <1>1 DEF Clear, Meets
<1>3. Clear(T, (D \ rows) \cup {copy(r) : r \in rows}, S)
  BY <1>2 DEF Clear
<1> QED BY <1>3 DEF copy, WithStatus

(* and may stand in for them.                                              *)
LEMMA UnlikeCopies ==
    ASSUME NEW T, NEW D, \A r \in D : IsRow(r), Unlike(T, D), NEW rows \in SUBSET D, NEW x
    PROVE  Unlike(T, (D \ rows) \cup WithStatus(rows, x))
<1> DEFINE copy(r) == [r EXCEPT !.body = x]
           R == (D \ rows) \cup {copy(r) : r \in rows}
<1>1. \A r \in D : /\ copy(r).tab = r.tab /\ copy(r).owner = r.owner /\ copy(r).id = r.id
                   /\ copy(r).key = r.key /\ copy(r).ref = r.ref
  BY BodyMeets
<1> HIDE DEF copy
<1>2. ASSUME NEW p \in R, NEW q \in R, Meets(p, q, T[p.tab].unique) PROVE p = q
  <2>1. PICK r \in D : (p = r /\ r \notin rows) \/ (p = copy(r) /\ r \in rows)
    OBVIOUS
  <2>2. PICK s \in D : (q = s /\ s \notin rows) \/ (q = copy(s) /\ s \in rows)
    OBVIOUS
  <2>3. /\ p.tab = r.tab /\ p.owner = r.owner /\ p.id = r.id /\ p.key = r.key /\ p.ref = r.ref
        /\ q.tab = s.tab /\ q.owner = s.owner /\ q.id = s.id /\ q.key = s.key /\ q.ref = s.ref
    BY <1>1, <2>1, <2>2
  <2>4. Meets(r, s, T[r.tab].unique)
    BY <1>2, <2>3 DEF Meets
  <2>5. r = s
    BY <2>4 DEF Unlike
  <2> QED BY <2>1, <2>2, <2>5
<1>3. Unlike(T, R)
  BY <1>2 DEF Unlike
<1> QED BY <1>3 DEF copy, WithStatus

-----------------------------------------------------------------------------
(* The tables of the knowledge graph are in its two stores only,           *)
GraphTabs == {"kg_entities", "kg_relations", "kg_memory_entities"}
Graphs == kind \in {"graph", "local_graph"}

LEMMA SharedGraphs ==
    \A k \in DOMAIN Shared : k # "graph" => GraphTabs \cap DOMAIN Shared[k].tables = {}
<1> SUFFICES ASSUME NEW k \in DOMAIN Shared, k # "graph"
             PROVE  GraphTabs \cap DOMAIN Shared[k].tables = {}
  OBVIOUS
<1> DEFINE Other(T) == GraphTabs \cap DOMAIN T = {}
<1>1. Other(BookmarkTables) /\ Other(CaptureTables) /\ Other(CapsuleTables) /\ Other(CreatorTables)
  BY DEF BookmarkTables, CaptureTables, CapsuleTables, CreatorTables, GraphTabs
<1>2. Other(EdgeTables) /\ Other(UrlTables) /\ Other(FtsTables) /\ Other(ImportTables)
  BY DEF EdgeTables, UrlTables, FtsTables, ImportTables, GraphTabs
<1>3. Other(ArtifactTables) /\ Other(ReviewTables) /\ Other(EventTables) /\ Other(TopicTables)
  BY DEF ArtifactTables, ReviewTables, EventTables, TopicTables, GraphTabs
<1>4. Other(VideoTables) /\ Other(YouTubeTables) /\ Other(MetricTables) /\ Other(AnswerTables)
  BY DEF VideoTables, YouTubeTables, MetricTables, AnswerTables, GraphTabs
<1>5. Other(MemoryTables) /\ Other(AccountTables) /\ Other(TokenTables) /\ Other(BusTables)
  BY DEF MemoryTables, AccountTables, TokenTables, BusTables, GraphTabs
<1>6. Other(FeedbackTables) /\ Other(UsageTables) /\ Other(HomeTables) /\ Other(ImageTables)
  BY DEF FeedbackTables, UsageTables, HomeTables, ImageTables, GraphTabs
<1>7. Other(RuleTables) /\ Other(VectorTables) /\ Other(AgentTables)
  BY DEF RuleTables, VectorTables, AgentTables, GraphTabs
<1>8. \E w, s : Shared[k] \in
         {Store(BookmarkTables, w, s), Store(CaptureTables, w, s), Store(CapsuleTables, w, s),
          Store(CreatorTables, w, s), Store(EdgeTables, w, s), Store(UrlTables, w, s),
          Store(FtsTables, w, s), Store(ImportTables, w, s), Store(ArtifactTables, w, s),
          Store(ReviewTables, w, s), Store(EventTables, w, s), Store(TopicTables, w, s),
          Store(VideoTables, w, s), Store(YouTubeTables, w, s), Store(MetricTables, w, s),
          Store(MemoryTables, w, s), Store(AccountTables, w, s), Store(TokenTables, w, s),
          Store(BusTables, w, s), Store(FeedbackTables, w, s), Store(UsageTables, w, s),
          Store(HomeTables, w, s), Store(ImageTables, w, s), Store(RuleTables, w, s),
          Store(AnswerTables, w, s), Store(VectorTables, w, s), Store(AgentTables, w, s)}
  BY DEF Shared
<1> HIDE DEF Other
<1>9. \A T, w, s : Store(T, w, s).tables = T
  BY DEF Store
<1>10. Other(Shared[k].tables)
  BY <1>1, <1>2, <1>3, <1>4, <1>5, <1>6, <1>7, <1>8, <1>9
<1> QED BY <1>10 DEF Other

(* also of the SQLite file,                                                *)
LEMMA LocalGraphs ==
    \A k \in DOMAIN Local : k # "local_graph" => GraphTabs \cap DOMAIN Local[k].tables = {}
<1> SUFFICES ASSUME NEW k \in DOMAIN Local, k # "local_graph"
             PROVE  GraphTabs \cap DOMAIN Local[k].tables = {}
  OBVIOUS
<1> DEFINE Other(T) == GraphTabs \cap DOMAIN T = {}
<1>1. Other(LocalMemoryTables) /\ Other(LocalTopicTables) /\ Other(LocalInsightTables)
  BY DEF LocalMemoryTables, LocalTopicTables, LocalInsightTables, GraphTabs
<1>2. Other(LocalVideoTables) /\ Other(LocalReviewTables) /\ Other(LocalAccountTables)
  BY DEF LocalVideoTables, LocalReviewTables, LocalAccountTables, GraphTabs
<1>3. Other(LocalYouTubeTables) /\ Other(LocalPageTables) /\ Other(LocalAgentTables)
  BY DEF LocalYouTubeTables, LocalPageTables, LocalAgentTables, GraphTabs
<1>4. \E w, s : Local[k] \in
         {Store(LocalMemoryTables, w, s), Store(LocalTopicTables, w, s),
          Store(LocalInsightTables, w, s), Store(LocalVideoTables, w, s),
          Store(LocalReviewTables, w, s), Store(LocalAccountTables, w, s),
          Store(LocalYouTubeTables, w, s), Store(LocalPageTables, w, s),
          Store(LocalAgentTables, w, s)}
  BY DEF Local
<1> HIDE DEF Other
<1>5. \A T, w, s : Store(T, w, s).tables = T
  BY DEF Store
<1>6. Other(Local[k].tables)
  BY <1>1, <1>2, <1>3, <1>4, <1>5
<1> QED BY <1>6 DEF Other

(* so of all stores,                                                       *)
LEMMA GraphsOnly ==
    \A k \in DOMAIN Kind : k \notin {"graph", "local_graph"} => GraphTabs \cap DOMAIN Kind[k].tables = {}
<1>1. "graph" \notin DOMAIN Local
  BY DEF Local
<1> QED BY <1>1, KindsAre, SharedGraphs, LocalGraphs

(* which tell them apart so:                                               *)
LEMMA GraphsAre ==
    \A k \in {"graph", "local_graph"} :
        /\ k \in DOMAIN Kind /\ DOMAIN Kind[k].tables = GraphTabs
        /\ Kind[k].tables["kg_entities"].unique = {"id", "key"}
        /\ Kind[k].tables["kg_entities"].parent = "" /\ Kind[k].tables["kg_entities"].refs = {}
        /\ "id" \in Kind[k].tables["kg_relations"].unique
        /\ Kind[k].tables["kg_relations"].parent = "kg_entities"
        /\ Kind[k].tables["kg_relations"].refs = {1, 2}
        /\ Kind[k].tables["kg_memory_entities"].unique = {"key"}
        /\ Kind[k].tables["kg_memory_entities"].parent = "kg_entities"
        /\ Kind[k].tables["kg_memory_entities"].refs = {2}
        /\ \A tab \in GraphTabs : Kind[k].tables[tab].fk = FALSE
        /\ k = "local_graph" =>
              /\ Kind[k].tables["kg_relations"].unique = {"id"}
              /\ Kind[k].writes = LocalGraphWrites /\ k \in DOMAIN Local
        /\ k = "graph" => Kind[k].writes = GraphWrites /\ k \notin DOMAIN Local
<1>1. \A u, p, refs, fk : /\ Child(u, p, refs, fk).unique = u /\ Child(u, p, refs, fk).parent = p
                          /\ Child(u, p, refs, fk).refs = refs /\ Child(u, p, refs, fk).fk = fk
  BY DEF Child
<1>2. \A u, keys : /\ Told(u, keys).unique = u /\ Told(u, keys).parent = ""
                   /\ Told(u, keys).refs = {} /\ Told(u, keys).fk = FALSE
  BY DEF Told
<1>3. DOMAIN GraphTables = GraphTabs /\ DOMAIN LocalGraphTables = GraphTabs
  BY DEF GraphTables, LocalGraphTables, GraphTabs
<1>4. /\ GraphTables["kg_entities"] = Told(Both, {1, 2})
      /\ GraphTables["kg_relations"] = Child(Both, "kg_entities", {1, 2}, FALSE)
      /\ GraphTables["kg_memory_entities"] = Child({"key"}, "kg_entities", {2}, FALSE)
  BY DEF GraphTables
<1>5. /\ LocalGraphTables["kg_entities"] = Told(Both, {1, 2})
      /\ LocalGraphTables["kg_relations"] = Child({"id"}, "kg_entities", {1, 2}, FALSE)
      /\ LocalGraphTables["kg_memory_entities"] = Child({"key"}, "kg_entities", {2}, FALSE)
  BY DEF LocalGraphTables
<1>6. Kind["graph"] = Store(GraphTables, GraphWrites, GraphScript) /\ "graph" \in DOMAIN Kind
      /\ "graph" \notin DOMAIN Local
  BY KindsAre DEF Shared, Local
<1>7. /\ Kind["local_graph"] = Store(LocalGraphTables, LocalGraphWrites, <<>>)
      /\ "local_graph" \in DOMAIN Kind /\ "local_graph" \in DOMAIN Local
  BY KindsAre DEF Local
<1>8. \A T, w, s : Store(T, w, s).tables = T /\ Store(T, w, s).writes = w
  BY DEF Store
<1>9. Both = {"id", "key"}
  BY DEF Both
<1>10. \A tab \in GraphTabs : GraphTables[tab].fk = FALSE /\ LocalGraphTables[tab].fk = FALSE
  <2>1. Told(Both, {1, 2}).fk = FALSE
    BY DEF Told
  <2>2. /\ Child(Both, "kg_entities", {1, 2}, FALSE).fk = FALSE
        /\ Child({"id"}, "kg_entities", {1, 2}, FALSE).fk = FALSE
        /\ Child({"key"}, "kg_entities", {2}, FALSE).fk = FALSE
    BY DEF Child
  <2>3. /\ GraphTables["kg_entities"].fk = FALSE /\ LocalGraphTables["kg_entities"].fk = FALSE
        /\ GraphTables["kg_relations"].fk = FALSE /\ LocalGraphTables["kg_relations"].fk = FALSE
        /\ GraphTables["kg_memory_entities"].fk = FALSE
        /\ LocalGraphTables["kg_memory_entities"].fk = FALSE
    BY <1>4, <1>5, <2>1, <2>2
  <2> QED BY <2>3 DEF GraphTabs
<1> HIDE DEF Both
<1>11. Kind["graph"].tables = GraphTables /\ Kind["graph"].writes = GraphWrites
  <2>1. /\ Store(GraphTables, GraphWrites, GraphScript).tables = GraphTables
        /\ Store(GraphTables, GraphWrites, GraphScript).writes = GraphWrites
    BY DEF Store
  <2> QED BY <1>6, <2>1
<1>12. Kind["local_graph"].tables = LocalGraphTables /\ Kind["local_graph"].writes = LocalGraphWrites
  BY <1>7, <1>8
<1> SUFFICES ASSUME NEW k \in {"graph", "local_graph"}
    PROVE
    /\ k \in DOMAIN Kind /\ DOMAIN Kind[k].tables = GraphTabs
    /\ Kind[k].tables["kg_entities"].unique = {"id", "key"}
    /\ Kind[k].tables["kg_entities"].parent = "" /\ Kind[k].tables["kg_entities"].refs = {}
    /\ "id" \in Kind[k].tables["kg_relations"].unique
    /\ Kind[k].tables["kg_relations"].parent = "kg_entities"
    /\ Kind[k].tables["kg_relations"].refs = {1, 2}
    /\ Kind[k].tables["kg_memory_entities"].unique = {"key"}
    /\ Kind[k].tables["kg_memory_entities"].parent = "kg_entities"
    /\ Kind[k].tables["kg_memory_entities"].refs = {2}
    /\ \A tab \in GraphTabs : Kind[k].tables[tab].fk = FALSE
    /\ k = "local_graph" =>
          /\ Kind[k].tables["kg_relations"].unique = {"id"}
          /\ Kind[k].writes = LocalGraphWrites /\ k \in DOMAIN Local
    /\ k = "graph" => Kind[k].writes = GraphWrites /\ k \notin DOMAIN Local
  OBVIOUS
<1> DEFINE T == Kind[k].tables
<1>13. T = GraphTables \/ T = LocalGraphTables
  BY <1>11, <1>12
<1>14. \A tab \in GraphTabs : T[tab].fk = FALSE
  BY <1>10, <1>13
<1>15. DOMAIN T = GraphTabs
  BY <1>3, <1>13
<1> DEFINE e == Told(Both, {1, 2})
           l == Child({"key"}, "kg_entities", {2}, FALSE)
<1>16. T["kg_entities"] = e /\ T["kg_memory_entities"] = l
  BY <1>4, <1>5, <1>13
<1>17. e.unique = {"id", "key"} /\ e.parent = "" /\ e.refs = {}
  BY <1>2, <1>9
<1>18. l.unique = {"key"} /\ l.parent = "kg_entities" /\ l.refs = {2}
  BY <1>1
<1> HIDE DEF e, l
<1> DEFINE r(u) == Child(u, "kg_entities", {1, 2}, FALSE)
<1>19. \A u : r(u).unique = u /\ r(u).parent = "kg_entities" /\ r(u).refs = {1, 2}
  BY <1>1
<1>20. GraphTables["kg_relations"] = r(Both) /\ LocalGraphTables["kg_relations"] = r({"id"})
  BY <1>4, <1>5
<1> HIDE DEF r
<1>21. /\ "id" \in T["kg_relations"].unique
       /\ T["kg_relations"].parent = "kg_entities" /\ T["kg_relations"].refs = {1, 2}
  <2>1. T["kg_relations"] = r(Both) \/ T["kg_relations"] = r({"id"})
    BY <1>13, <1>20
  <2> HIDE DEF T
  <2> QED BY <2>1, <1>9, <1>19
<1>22. k = "local_graph" => T["kg_relations"].unique = {"id"}
  BY <1>12, <1>19, <1>20
<1>23. k = "local_graph" => Kind[k].writes = LocalGraphWrites /\ k \in DOMAIN Local
  BY <1>7, <1>12
<1>24. k = "graph" => Kind[k].writes = GraphWrites /\ k \notin DOMAIN Local
  BY <1>6, <1>11
<1>25. k \in DOMAIN Kind
  BY <1>6, <1>7
<1> HIDE DEF T
<1>26. /\ T["kg_entities"].unique = {"id", "key"} /\ T["kg_entities"].parent = ""
       /\ T["kg_entities"].refs = {} /\ T["kg_memory_entities"].unique = {"key"}
       /\ T["kg_memory_entities"].parent = "kg_entities" /\ T["kg_memory_entities"].refs = {2}
  BY <1>16, <1>17, <1>18
<1> QED BY <1>14, <1>15, <1>21, <1>22, <1>23, <1>24, <1>25, <1>26 DEF T

(* A table refers to the parents of key 1 or 2.                            *)
Cited(T) == \A tab \in DOMAIN T : T[tab].refs \subseteq {1, 2}

LEMMA CitedTables ==
    /\ Cited(BookmarkTables) /\ Cited(CaptureTables) /\ Cited(CapsuleTables) /\ Cited(CreatorTables)
    /\ Cited(EdgeTables) /\ Cited(UrlTables) /\ Cited(FtsTables) /\ Cited(ImportTables)
    /\ Cited(ArtifactTables) /\ Cited(ReviewTables) /\ Cited(EventTables) /\ Cited(GraphTables)
    /\ Cited(TopicTables) /\ Cited(VideoTables) /\ Cited(YouTubeTables) /\ Cited(MetricTables)
    /\ Cited(AnswerTables) /\ Cited(MemoryTables) /\ Cited(AccountTables) /\ Cited(TokenTables)
    /\ Cited(BusTables) /\ Cited(FeedbackTables) /\ Cited(UsageTables) /\ Cited(HomeTables)
    /\ Cited(ImageTables) /\ Cited(RuleTables) /\ Cited(VectorTables) /\ Cited(AgentTables)
    /\ Cited(LocalGraphTables) /\ Cited(LocalMemoryTables) /\ Cited(LocalTopicTables)
    /\ Cited(LocalInsightTables) /\ Cited(LocalVideoTables) /\ Cited(LocalReviewTables)
    /\ Cited(LocalAccountTables) /\ Cited(LocalYouTubeTables) /\ Cited(LocalPageTables)
    /\ Cited(LocalAgentTables)
<1> DEFINE Few(x) == x.refs \subseteq {1, 2}
<1>1. Few(Natural) /\ Few(Keyed) /\ Few(Plain) /\ \A u, keys : Few(Told(u, keys))
  BY DEF Natural, Keyed, Plain, Told
<1>2. \A u, p, refs, fk : refs \subseteq {1, 2} => Few(Child(u, p, refs, fk))
  BY DEF Child
<1>3. \A T : (\A tab \in DOMAIN T : Few(T[tab])) => Cited(T)
  BY DEF Cited
<1> HIDE DEF Few
<1>5. Cited(BookmarkTables) /\ Cited(CaptureTables) /\ Cited(CapsuleTables) /\ Cited(CreatorTables)
  BY <1>1, <1>3 DEF BookmarkTables, CaptureTables, CapsuleTables, CreatorTables
<1>6. Cited(EdgeTables) /\ Cited(UrlTables) /\ Cited(FtsTables) /\ Cited(EventTables)
  BY <1>1, <1>3 DEF EdgeTables, UrlTables, FtsTables, EventTables
<1>7. Cited(ImportTables) /\ Cited(ReviewTables) /\ Cited(TopicTables)
  <2>1. Cited(ImportTables)
    <3> DEFINE c1 == Child({"key"}, "import_runs", {1}, TRUE)
    <3>1. Few(c1)
      BY <1>2
    <3>2. ImportTables =
            [import_runs |-> Plain, import_run_items |-> c1]
      BY DEF ImportTables
    <3> HIDE DEF c1
    <3> QED BY <1>1, <1>3, <3>1, <3>2
  <2>2. Cited(ReviewTables)
    <3> DEFINE c1 == Child({"key"}, "video_registry", {1}, FALSE)
    <3>1. Few(c1)
      BY <1>2
    <3>2. ReviewTables =
            [video_registry |-> Natural,
                       memory_review_schedule |-> c1]
      BY DEF ReviewTables
    <3> HIDE DEF c1
    <3> QED BY <1>1, <1>3, <3>1, <3>2
  <2>3. Cited(TopicTables)
    <3> DEFINE c1 == Child({"key"}, "topic_profiles", {1}, TRUE)
    <3>1. Few(c1)
      BY <1>2
    <3>2. TopicTables =
            [topic_profiles |-> Keyed, topic_memory_links |-> c1]
      BY DEF TopicTables
    <3> HIDE DEF c1
    <3> QED BY <1>1, <1>3, <3>1, <3>2
  <2> QED BY <2>1, <2>2, <2>3
<1>8. Cited(ArtifactTables) /\ Cited(VideoTables) /\ Cited(YouTubeTables) /\ Cited(MetricTables)
  BY <1>1, <1>3 DEF ArtifactTables, VideoTables, YouTubeTables, MetricTables
<1>9. Cited(GraphTables) /\ Cited(LocalGraphTables)
  <2> DEFINE l == Child({"key"}, "kg_entities", {2}, FALSE)
             r(u) == Child(u, "kg_entities", {1, 2}, FALSE)
             e == Told(Both, {1, 2})
  <2>1. Few(l) /\ Few(e) /\ \A u : Few(r(u))
    BY <1>1, <1>2
  <2>2. /\ GraphTables = [kg_entities |-> e, kg_relations |-> r(Both), kg_memory_entities |-> l]
        /\ LocalGraphTables = [kg_entities |-> e, kg_relations |-> r({"id"}), kg_memory_entities |-> l]
    BY DEF GraphTables, LocalGraphTables
  <2> HIDE DEF l, r, e
  <2> QED BY <2>1, <2>2, <1>3
<1>10. Cited(AnswerTables) /\ Cited(TokenTables) /\ Cited(BusTables) /\ Cited(UsageTables)
  BY <1>1, <1>3 DEF AnswerTables, TokenTables, BusTables, UsageTables
<1>11. Cited(MemoryTables) /\ Cited(AccountTables) /\ Cited(FeedbackTables) /\ Cited(RuleTables)
  <2>1. Cited(MemoryTables)
    <3> DEFINE c1 == Child({"id"}, "memory_records", {1}, TRUE)
    <3>1. Few(c1)
      BY <1>2
    <3>2. MemoryTables =
            [memory_records |-> Keyed,
                       memory_lifecycle_events |-> c1, memory_versions |-> c1,
                       memory_trust_history |-> c1]
      BY DEF MemoryTables
    <3> HIDE DEF c1
    <3> QED BY <1>1, <1>3, <3>1, <3>2
  <2>2. Cited(AccountTables)
    <3> DEFINE c1 == Child({"id"}, "users", {1}, TRUE)
    <3>1. Few(c1)
      BY <1>2
    <3>2. AccountTables =
            [users |-> Keyed, sessions |-> c1]
      BY DEF AccountTables
    <3> HIDE DEF c1
    <3> QED BY <1>1, <1>3, <3>1, <3>2
  <2>3. Cited(FeedbackTables)
    <3> DEFINE c1 == Child({"key"}, "answer_interactions", {1}, FALSE)
    <3>1. Few(c1)
      BY <1>2
    <3>2. FeedbackTables =
            [answer_interactions |-> Natural, answer_feedback |-> c1,
                         feedback_credit_ledger |-> c1,
                         output_preferences |-> Natural]
      BY DEF FeedbackTables
    <3> HIDE DEF c1
    <3> QED BY <1>1, <1>3, <3>1, <3>2
  <2>4. Cited(RuleTables)
    <3> DEFINE c1 == Child({"key"}, "ingest_agent_rules", {1}, TRUE)
    <3>1. Few(c1)
      BY <1>2
    <3>2. RuleTables =
            [ingest_agent_rules |-> Plain,
                     ingest_agent_claims |-> c1]
      BY DEF RuleTables
    <3> HIDE DEF c1
    <3> QED BY <1>1, <1>3, <3>1, <3>2
  <2> QED BY <2>1, <2>2, <2>3, <2>4
<1>12. Cited(HomeTables) /\ Cited(ImageTables) /\ Cited(VectorTables)
  BY <1>1, <1>3 DEF HomeTables, ImageTables, VectorTables
<1>13. Cited(AgentTables) /\ Cited(LocalAgentTables) /\ Cited(LocalMemoryTables)
  <2>1. Cited(AgentTables)
    <3> DEFINE c1 == Child({"id"}, "agent_runs", {1}, TRUE)
    <3>1. Few(c1)
      BY <1>2
    <3>2. AgentTables =
            [agent_runs |-> Plain, agent_tool_calls |-> c1]
      BY DEF AgentTables
    <3> HIDE DEF c1
    <3> QED BY <1>1, <1>3, <3>1, <3>2
  <2>2. Cited(LocalAgentTables)
    <3> DEFINE c1 == Child({"id"}, "agent_runs", {1}, FALSE)
    <3>1. Few(c1)
      BY <1>2
    <3>2. LocalAgentTables =
            [agent_runs |-> Plain, agent_tool_calls |-> c1]
      BY DEF LocalAgentTables
    <3> HIDE DEF c1
    <3> QED BY <1>1, <1>3, <3>1, <3>2
  <2>3. Cited(LocalMemoryTables)
    <3> DEFINE c1 == Child({"id"}, "memory_records", {1}, FALSE)
    <3>1. Few(c1)
      BY <1>2
    <3>2. LocalMemoryTables =
            [memory_records |-> Keyed,
                            memory_lifecycle_events |-> c1, memory_versions |-> c1,
                            memory_trust_history |-> c1]
      BY DEF LocalMemoryTables
    <3> HIDE DEF c1
    <3> QED BY <1>1, <1>3, <3>1, <3>2
  <2> QED BY <2>1, <2>2, <2>3
<1>14. Cited(LocalTopicTables) /\ Cited(LocalReviewTables) /\ Cited(LocalAccountTables)
  <2>1. Cited(LocalTopicTables)
    <3> DEFINE c1 == Child({"key"}, "topic_profiles", {1}, FALSE)
    <3>1. Few(c1)
      BY <1>2
    <3>2. LocalTopicTables =
            [topic_profiles |-> Keyed, topic_memory_links |-> c1]
      BY DEF LocalTopicTables
    <3> HIDE DEF c1
    <3> QED BY <1>1, <1>3, <3>1, <3>2
  <2>2. Cited(LocalReviewTables)
    <3> DEFINE c1 == Child({"key"}, "video_registry", {1}, FALSE)
    <3>1. Few(c1)
      BY <1>2
    <3>2. LocalReviewTables =
            [video_registry |-> Natural,
                            memory_review_schedule |-> c1]
      BY DEF LocalReviewTables
    <3> HIDE DEF c1
    <3> QED BY <1>1, <1>3, <3>1, <3>2
  <2>3. Cited(LocalAccountTables)
    <3> DEFINE c1 == Child({"id"}, "users", {1}, FALSE)
    <3>1. Few(c1)
      BY <1>2
    <3>2. LocalAccountTables =
            [users |-> Keyed, sessions |-> c1]
      BY DEF LocalAccountTables
    <3> HIDE DEF c1
    <3> QED BY <1>1, <1>3, <3>1, <3>2
  <2> QED BY <2>1, <2>2, <2>3
<1>15. Cited(LocalInsightTables) /\ Cited(LocalVideoTables) /\ Cited(LocalYouTubeTables)
       /\ Cited(LocalPageTables)
  BY <1>1, <1>3 DEF LocalInsightTables, LocalVideoTables, LocalYouTubeTables, LocalPageTables
<1> QED BY <1>5, <1>6, <1>7, <1>8, <1>9, <1>10, <1>11, <1>12, <1>13, <1>14, <1>15

(* The scripts are sequences.                                              *)
Finite(s) == Len(s) \in Nat
(* The tables of the stores are such, and their scripts are sequences;     *)
LEMMA CitedShared == \A k \in DOMAIN Shared : Cited(Shared[k].tables) /\ Len(Shared[k].script) \in Nat
<1> SUFFICES ASSUME NEW k \in DOMAIN Shared
             PROVE  Cited(Shared[k].tables) /\ Len(Shared[k].script) \in Nat
  OBVIOUS
<1>1. /\ Finite(BookmarkScript) /\ Finite(CaptureScript) /\ Finite(CapsuleScript)
      /\ Finite(CreatorScript) /\ Finite(EdgeScript) /\ Finite(FtsScript) /\ Finite(MetricScript)
      /\ Finite(AnswerScript) /\ Finite(<<>>)
  BY DEF Finite, BookmarkScript, CaptureScript, CapsuleScript, CreatorScript, EdgeScript, FtsScript,
         MetricScript, AnswerScript
<1>2. Finite(UrlScript) /\ Finite(ImportScript) /\ Finite(ArtifactScript) /\ Finite(ReviewScript)
  BY DEF Finite, UrlScript, ImportScript, ArtifactScript, ReviewScript
<1>3. Finite(EventScript) /\ Finite(TopicScript) /\ Finite(VideoScript) /\ Finite(YouTubeScript)
  BY DEF Finite, EventScript, TopicScript, VideoScript, YouTubeScript
<1>4. Finite(GraphScript)
  BY DEF Finite, GraphScript
<1> DEFINE Good(x) == Cited(x.tables) /\ Finite(x.script)
<1>5. \A T, w, s : Cited(T) /\ Finite(s) => Good(Store(T, w, s))
  BY DEF Store
<1> HIDE DEF Good, Finite
<1>6. /\ Good(Store(BookmarkTables, BookmarkWrites, BookmarkScript))
      /\ Good(Store(CaptureTables, CaptureWrites, CaptureScript))
      /\ Good(Store(CapsuleTables, CapsuleWrites, CapsuleScript))
      /\ Good(Store(CreatorTables, CreatorWrites, CreatorScript))
      /\ Good(Store(EdgeTables, EdgeWrites, EdgeScript))
      /\ Good(Store(UrlTables, UrlWrites, UrlScript))
      /\ Good(Store(FtsTables, FtsWrites, FtsScript))
      /\ Good(Store(ImportTables, ImportWrites, ImportScript))
      /\ Good(Store(ArtifactTables, ArtifactWrites, ArtifactScript))
      /\ Good(Store(ReviewTables, ReviewWrites, ReviewScript))
      /\ Good(Store(EventTables, EventWrites, EventScript))
      /\ Good(Store(GraphTables, GraphWrites, GraphScript))
      /\ Good(Store(TopicTables, TopicWrites, TopicScript))
      /\ Good(Store(VideoTables, VideoWrites, VideoScript))
      /\ Good(Store(YouTubeTables, YouTubeWrites, YouTubeScript))
      /\ Good(Store(MetricTables, MetricWrites, MetricScript))
      /\ Good(Store(AnswerTables, {PutAnswer, DropAnswers}, AnswerScript))
  BY <1>1, <1>2, <1>3, <1>4, <1>5, CitedTables
<1>7. /\ Good(Store(MemoryTables, MemoryWrites, <<>>)) /\ Good(Store(AccountTables, AccountWrites, <<>>))
      /\ Good(Store(TokenTables, TokenWrites, <<>>)) /\ Good(Store(BusTables, BusWrites, <<>>))
      /\ Good(Store(FeedbackTables, FeedbackWrites, <<>>)) /\ Good(Store(UsageTables, UsageWrites, <<>>))
      /\ Good(Store(HomeTables, HomeWrites, <<>>)) /\ Good(Store(ImageTables, ImageWrites, <<>>))
      /\ Good(Store(RuleTables, RuleWrites, <<>>)) /\ Good(Store(VectorTables, VectorWrites, <<>>))
      /\ Good(Store(AgentTables, {}, <<>>))
  BY <1>1, <1>5, CitedTables
<1>8. Good(Shared[k])
  BY <1>6, <1>7 DEF Shared
<1> QED BY <1>8 DEF Good, Finite

(* so it is in the SQLite file,                                            *)
LEMMA CitedLocal == \A k \in DOMAIN Local : Cited(Local[k].tables) /\ Len(Local[k].script) \in Nat
<1> SUFFICES ASSUME NEW k \in DOMAIN Local
             PROVE  Cited(Local[k].tables) /\ Len(Local[k].script) \in Nat
  OBVIOUS
<1>1. \E w : Local[k] \in
         {Store(LocalGraphTables, w, <<>>), Store(LocalMemoryTables, w, <<>>),
          Store(LocalTopicTables, w, <<>>), Store(LocalInsightTables, w, <<>>),
          Store(LocalVideoTables, w, <<>>), Store(LocalReviewTables, w, <<>>),
          Store(LocalAccountTables, w, <<>>), Store(LocalYouTubeTables, w, <<>>),
          Store(LocalPageTables, w, <<>>), Store(LocalAgentTables, w, <<>>)}
  BY DEF Local
<1>2. \A T, w : Store(T, w, <<>>).tables = T /\ Store(T, w, <<>>).script = <<>>
  BY DEF Store
<1> QED BY <1>1, <1>2, CitedTables

(* and of every kind.                                                      *)
LEMMA CitedKinds == \A k \in DOMAIN Kind : Cited(Kind[k].tables) /\ Len(Kind[k].script) \in Nat
BY KindsAre, CitedShared, CitedLocal

Typed(r) == r.id \in Nat /\ r.key \in {1, 2} /\ r.ref \subseteq Nat /\ r.body \in Bodies
(* A memory is linked to one entity, an entity has no parent.              *)
Linking(r) ==
    /\ r.tab = "kg_memory_entities" => \E i : r.ref = {i}
    /\ r.tab = "kg_entities" => r.ref = {}

(* The id that an old row has by its owner and key, and its parents'.      *)
OldIdOf(k, tab, o, key) == IdOf(Kind[k].tables[tab], key, IF key = 1 THEN o ELSE o + Leaver)
OldRefOf(k, tab, o) ==
    {OldIdOf(k, Kind[k].tables[tab].parent, o, p) : p \in Kind[k].tables[tab].refs}

(* Ids differ by owner and key.                                            *)
LEMMA OldIdsAre ==
    ASSUME NEW k, NEW tab, NEW o \in Owners, NEW p \in Owners, NEW key \in {1, 2}, NEW other \in {1, 2}
    PROVE  /\ OldIdOf(k, tab, o, key) \in Nat
           /\ "id" \in Kind[k].tables[tab].unique /\ OldIdOf(k, tab, o, key) = OldIdOf(k, tab, p, other)
                 => o = p /\ key = other
           /\ "id" \notin Kind[k].tables[tab].unique => OldIdOf(k, tab, o, key) = key
<1>1. (o = 1 \/ o = Leaver) /\ (p = 1 \/ p = Leaver)
  BY DEF Owners
<1>2. (key = 1 \/ key = 2) /\ (other = 1 \/ other = 2)
  OBVIOUS
<1> DEFINE g == IF key = 1 THEN o ELSE o + Leaver
           h == IF other = 1 THEN p ELSE p + Leaver
<1>3. g \in Nat /\ (g = h => o = p /\ key = other)
  BY <1>1, <1>2, LeaverAssumption
<1>4. /\ "id" \in Kind[k].tables[tab].unique =>
            OldIdOf(k, tab, o, key) = g /\ OldIdOf(k, tab, p, other) = h
      /\ "id" \notin Kind[k].tables[tab].unique => OldIdOf(k, tab, o, key) = key
  BY DEF OldIdOf, IdOf
<1> HIDE DEF g, h
<1> QED BY <1>2, <1>3, <1>4

OldRow(k, tab, o, key) ==
    [tab |-> tab, owner |-> o, id |-> OldIdOf(k, tab, o, key), key |-> key, body |-> "old",
     ref |-> OldRefOf(k, tab, o)]
OldOwn(k) ==
    UNION {{OldRow(k, tab, o, key) : o \in Owners, key \in Kind[k].tables[tab].keys}
           : tab \in DOMAIN Kind[k].tables \ {Ledger}}
(* The old rows are these, and in the graph the links among them.          *)
LEMMA OldRowsFrom == \A k : OldRows(k) = Linked(OldOwn(k))
BY DEF OldRows, OldOwn, OldRow, OldIdOf, OldRefOf, Ledger

(* What the old rows of a table look like:                                 *)
LooksOld(k, r) ==
    /\ IsRow(r) /\ r.tab \in DOMAIN Kind[k].tables /\ r.owner \in Owners /\ r.key \in {1, 2}
    /\ r.tab # Ledger /\ r.body = "old" /\ r.id = OldIdOf(k, r.tab, r.owner, r.key)
    /\ r.ref \subseteq Nat /\ Linking(r)
    /\ r.tab # "kg_memory_entities" => r.ref = OldRefOf(k, r.tab, r.owner)

(* The own rows of the tables do,                                          *)
LEMMA OldOwnLook ==
    ASSUME NEW k \in DOMAIN Kind, NEW r \in OldOwn(k)
    PROVE  LooksOld(k, r)
<1>a. PICK tab \in DOMAIN Kind[k].tables \ {Ledger} :
         \E o \in Owners, key \in Kind[k].tables[tab].keys : r = OldRow(k, tab, o, key)
  BY DEF OldOwn
<1>1. PICK o \in Owners, key \in Kind[k].tables[tab].keys : r = OldRow(k, tab, o, key)
  BY <1>a
<1>2. Rooted(Kind[k].tables) /\ Cited(Kind[k].tables)
  BY FittingKinds, CitedKinds DEF Fitting
<1>3. key \in {1, 2} /\ Kind[k].tables[tab].refs \subseteq {1, 2}
  BY <1>2 DEF Rooted, Cited
<1>4. /\ IsRow(r) /\ r.tab = tab /\ r.owner = o /\ r.key = key /\ r.body = "old"
      /\ r.id = OldIdOf(k, tab, o, key) /\ r.ref = OldRefOf(k, tab, o)
  BY <1>1 DEF OldRow, IsRow
<1>5. r.ref \subseteq Nat
  BY <1>3, <1>4, OldIdsAre DEF OldRefOf
<1>6. Linking(r)
  <2>1. tab = "kg_memory_entities" \/ tab = "kg_entities" => k \in {"graph", "local_graph"}
    BY GraphsOnly DEF GraphTabs
  <2>2. tab = "kg_memory_entities" => r.ref = {OldIdOf(k, "kg_entities", o, 2)}
    <3> SUFFICES ASSUME tab = "kg_memory_entities"
                 PROVE  r.ref = {OldIdOf(k, "kg_entities", o, 2)}
      OBVIOUS
    <3>1. Kind[k].tables[tab].parent = "kg_entities" /\ Kind[k].tables[tab].refs = {2}
      BY <2>1, GraphsAre
    <3> QED BY <1>4, <3>1 DEF OldRefOf
  <2>3. tab = "kg_entities" => r.ref = {}
    BY <1>4, <2>1, GraphsAre DEF OldRefOf
  <2> QED BY <1>4, <2>2, <2>3 DEF Linking
<1> QED BY <1>3, <1>4, <1>5, <1>6 DEF LooksOld

(* a link to another entity does,                                          *)
LEMMA LinksLook ==
    ASSUME NEW k, NEW l, LooksOld(k, l), l.tab = "kg_memory_entities", NEW i \in Nat
    PROVE  LooksOld(k, [l EXCEPT !.ref = {i}])
<1> DEFINE r == [l EXCEPT !.ref = {i}]
<1>1. IsRow(l)
  BY DEF LooksOld
<1>2. /\ r.tab = l.tab /\ r.owner = l.owner /\ r.id = l.id /\ r.key = l.key
      /\ r.body = l.body /\ r.ref = {i} /\ IsRow(r)
  BY <1>1 DEF IsRow
<1> HIDE DEF r
<1>3. LooksOld(k, r)
  BY <1>2 DEF LooksOld, Linking
<1> QED BY <1>3 DEF r

(* so all old rows do;                                                     *)
LEMMA OldRowsLook ==
    ASSUME NEW k \in DOMAIN Kind, NEW r \in OldRows(k)
    PROVE  LooksOld(k, r)
<1>1. r \in Linked(OldOwn(k))
  BY OldRowsFrom
<1>2. CASE r \in OldOwn(k)
  BY <1>2, OldOwnLook
<1>3. CASE \E l \in OldOwn(k), e \in OldOwn(k) :
              l.tab = "kg_memory_entities" /\ r = [l EXCEPT !.ref = {e.id}]
  <2>1. PICK l \in OldOwn(k), e \in OldOwn(k) :
           l.tab = "kg_memory_entities" /\ r = [l EXCEPT !.ref = {e.id}]
    BY <1>3
  <2>2. LooksOld(k, l) /\ LooksOld(k, e)
    BY OldOwnLook
  <2>3. e.id \in Nat
    BY <2>2, OldIdsAre DEF LooksOld
  <2>4. LooksOld(k, [l EXCEPT !.ref = {e.id}])
    BY <2>1, <2>2, <2>3, LinksLook
  <2> QED BY <2>1, <2>4
<1> QED BY <1>1, <1>2, <1>3 DEF Linked

(* they have the types of rows, and their tables tell them apart.          *)
LEMMA OldTyped ==
    ASSUME NEW k \in DOMAIN Kind, NEW r \in OldRows(k)
    PROVE  Typed(r) /\ Linking(r) /\ r.tab # Ledger
<1>1. LooksOld(k, r)
  BY OldRowsLook
<1> QED BY <1>1, OldIdsAre DEF LooksOld, Typed, Bodies

(* Rows are equal by their fields.                                         *)
LEMMA RowsAlike ==
    ASSUME NEW r, NEW s, IsRow(r), IsRow(s), r.tab = s.tab, r.owner = s.owner, r.id = s.id,
           r.key = s.key, r.body = s.body, r.ref = s.ref
    PROVE  r = s
BY DEF IsRow

(* An old row has its id or its meaning for itself.                        *)
LEMMA OldUnlike ==
    ASSUME NEW k \in DOMAIN Kind
    PROVE  Unlike(Kind[k].tables, OldRows(k))
<1> SUFFICES ASSUME NEW r \in OldRows(k), NEW s \in OldRows(k),
                    Meets(r, s, Kind[k].tables[r.tab].unique)
             PROVE  r = s
  BY DEF Unlike
<1>1. LooksOld(k, r) /\ LooksOld(k, s) /\ r.tab = s.tab
  BY OldRowsLook DEF Meets
<1>2. r.owner \in Owners /\ s.owner \in Owners /\ r.key \in {1, 2} /\ s.key \in {1, 2}
  BY <1>1 DEF LooksOld
<1>3. CASE r.owner = s.owner /\ r.key = s.key /\ r.ref = s.ref
  BY <1>1, <1>3, RowsAlike DEF LooksOld
<1>4. CASE "id" \in Kind[k].tables[r.tab].unique /\ r.id = s.id
  <2>1. r.tab # "kg_memory_entities"
    <3>1. r.tab = "kg_memory_entities" => k \in {"graph", "local_graph"}
      BY <1>1, GraphsOnly DEF GraphTabs, LooksOld
    <3> QED BY <1>4, <3>1, GraphsAre
  <2>2. OldIdOf(k, r.tab, r.owner, r.key) = OldIdOf(k, r.tab, s.owner, s.key)
    BY <1>1, <1>4 DEF LooksOld
  <2>3. r.owner = s.owner /\ r.key = s.key
    BY <1>2, <1>4, <2>2, OldIdsAre
  <2>4. r.ref = s.ref
    BY <1>1, <2>1, <2>3 DEF LooksOld
  <2> QED BY <1>3, <2>3, <2>4
<1> QED BY <1>3, <1>4 DEF Meets

-----------------------------------------------------------------------------
(* A transaction goes on as it is, but for the mark of being crossed.      *)
SameTx(x, y) == y.write = x.write /\ y.key = x.key /\ y.id = x.id /\ y.seen = x.seen
Goes(u) == tx'[u] = Idle \/ (Open(u) /\ SameTx(tx[u], tx'[u]))

(* The mark is all that changes;                                           *)
LEMMA CrossedIsSame ==
    ASSUME RowsInv, NEW u \in Threads, NEW c
    PROVE  SameTx(tx[u], [tx[u] EXCEPT !.crossed = c])
<1>1. tx[u] = [write |-> tx[u].write, key |-> tx[u].key, id |-> tx[u].id, seen |-> tx[u].seen,
               crossed |-> tx[u].crossed]
  BY DEF RowsInv, TxsFit, TxFits
<1> QED BY <1>1 DEF SameTx

(* a commit ends one transaction and marks the others.                     *)
LEMMA CommittedGoes ==
    ASSUME RowsInv, NEW t \in Threads, NEW rows, Committed(t, rows), NEW u \in Threads
    PROVE  Goes(u) /\ db' = rows /\ UNCHANGED <<store, pend, seq>> /\ tx'[t] = Idle
<1>1. tx'[u] = IF u = t \/ ~Open(u) THEN Idle ELSE [tx[u] EXCEPT !.crossed = @ \/ rows # db]
  BY DEF Committed
<1>2. tx'[t] = Idle
  BY DEF Committed
<1>3. u # t /\ Open(u) => tx'[u] = [tx[u] EXCEPT !.crossed = tx[u].crossed \/ rows # db]
  BY <1>1
<1>4. Goes(u)
  BY <1>1, <1>3, CrossedIsSame DEF Goes
<1> QED BY <1>2, <1>4 DEF Committed

(* What a write has when it begins, and a merge;                           *)
LEMMA BegunIs ==
    ASSUME RowsInv, NEW t \in Threads, Begin(t)
    PROVE  /\ \A u \in Threads \ {t} : tx'[u] = tx[u]
           /\ UNCHANGED <<store, db, pend>> /\ ~Open(t) /\ ops < MaxOps
           /\ seq' = IF kind = "events" THEN seq + 1 ELSE seq
           /\ \E w \in Kind[kind].writes, key \in {1, 2} :
                 /\ ~Merges(w) /\ ~Drops(w) /\ Owned(w)
                 /\ Locking(w) => Sees(DOMAIN w, key) \cap LockedByOthers(t) = {}
                 /\ tx'[t].write = w /\ tx'[t].key = key /\ tx'[t].seen = Sees(DOMAIN w, key)
                 /\ tx'[t].id = IF kind = "events" THEN seq ELSE NewId
<1> DEFINE x(w, key) == [write |-> w, key |-> key, id |-> IF kind = "events" THEN seq ELSE NewId,
                         seen |-> Sees(DOMAIN w, key), crossed |-> FALSE]
<1>1. PICK w \in Kind[kind].writes : \E key \in UNION {Table(tab).keys : tab \in DOMAIN w} :
         /\ ~Drops(w) /\ ~Merges(w) /\ Owned(w)
         /\ Locking(w) => Sees(DOMAIN w, key) \cap LockedByOthers(t) = {}
         /\ tx' = [tx EXCEPT ![t] = x(w, key)]
         /\ seq' = IF kind = "events" THEN seq + 1 ELSE seq
         /\ UNCHANGED <<store, db, pend>>
  BY DEF Begin
<1>2. PICK key \in UNION {Table(tab).keys : tab \in DOMAIN w} :
         /\ ~Drops(w) /\ ~Merges(w) /\ Owned(w)
         /\ Locking(w) => Sees(DOMAIN w, key) \cap LockedByOthers(t) = {}
         /\ tx' = [tx EXCEPT ![t] = x(w, key)]
         /\ seq' = IF kind = "events" THEN seq + 1 ELSE seq
         /\ UNCHANGED <<store, db, pend>>
  BY <1>1
<1>3. PICK tab \in DOMAIN w : key \in Table(tab).keys
  BY <1>2
<1>4. Fitting(kind) /\ Table(tab) = Kind[kind].tables[tab]
  BY TableIs
<1>5. tab \in DOMAIN Kind[kind].tables
  BY <1>4 DEF Fitting, Writable
<1>6. key \in {1, 2}
  BY <1>3, <1>4, <1>5 DEF Fitting, Rooted
<1>7. DOMAIN tx = Threads
  BY DEF RowsInv, TxsFit
<1>8. /\ x(w, key).write = w /\ x(w, key).key = key /\ x(w, key).seen = Sees(DOMAIN w, key)
      /\ x(w, key).id = IF kind = "events" THEN seq ELSE NewId
  OBVIOUS
<1> HIDE DEF x
<1>9. tx'[t] = x(w, key) /\ \A u \in Threads \ {t} : tx'[u] = tx[u]
  BY <1>2, <1>7
<1>10. ~Open(t) /\ ops < MaxOps
  BY DEF Begin
<1> QED BY <1>2, <1>6, <1>8, <1>9, <1>10

(* a merge has locked what it has read;                                    *)
LEMMA MergingIs ==
    ASSUME RowsInv, NEW t \in Threads, MergeReads(t)
    PROVE  /\ \A u \in Threads \ {t} : tx'[u] = tx[u]
           /\ UNCHANGED <<store, db, pend, seq>> /\ ~Open(t)
           /\ {e.key : e \in Entities} = {1, 2}
           /\ (Entities \cup Rewired) \cap LockedByOthers(t) = {}
           /\ tx'[t].seen = Entities \cup Rewired
           /\ tx'[t].write \in Kind[kind].writes /\ Merges(tx'[t].write)
<1> DEFINE x(w) == [write |-> w, key |-> 0, id |-> 0, seen |-> Entities \cup Rewired,
                    crossed |-> FALSE]
<1>1. PICK w \in Kind[kind].writes :
         /\ Merges(w) /\ (Entities \cup Rewired) \cap LockedByOthers(t) = {}
         /\ tx' = [tx EXCEPT ![t] = x(w)]
  BY DEF MergeReads
<1>2. DOMAIN tx = Threads
  BY DEF RowsInv, TxsFit
<1>3. x(w).write = w /\ x(w).seen = Entities \cup Rewired
  OBVIOUS
<1> HIDE DEF x
<1>4. tx'[t] = x(w) /\ \A u \in Threads \ {t} : tx'[u] = tx[u]
  BY <1>1, <1>2
<1> QED BY <1>1, <1>3, <1>4 DEF MergeReads

(* what is read is there;                                                  *)
LEMMA SeenIsThere ==
    /\ \A tabs, key : Sees(tabs, key) \subseteq db
    /\ Entities \cup Rewired \subseteq db
BY DEF Sees, Parents, Rows, Entities, Rewired, FromSource

(* What a write finds, replaces and adds, and leaves.                      *)
Found(t) == UNION {Finds(t, tab) : tab \in Tabs(t)}
Replaced(t) == {r \in Found(t) : Verb(t, r.tab) = "replace"}
Adding(t) == {n \in Anew(t) : Verb(t, n.tab) = "ignore" => InTheWay(n, db) = {}}
Updated(D, rows) == (D \ rows) \cup {[r EXCEPT !.body = "live"] : r \in rows}
Left(t) == Updated(db \ Replaced(t), Found(t) \ Replaced(t)) \cup Adding(t)

(* A write finds committed rows that nobody has locked, adds none that is  *)
(* in the way, and leaves none without its parent.                         *)
LEMMA WriteIs ==
    ASSUME RowsInv, NEW t \in Threads, Write(t)
    PROVE  /\ Open(t) /\ ~Merges(tx[t].write) /\ ops' = ops
           /\ Found(t) \subseteq db /\ Replaced(t) \subseteq Found(t)
           /\ Found(t) \cap LockedByOthers(t) = {}
           /\ \A n \in Adding(t) : \E tab \in Tabs(t) : n = Written(t, tab) /\ n.tab = tab
           /\ \A n \in Adding(t) : InTheWay(n, pend) = {}
           /\ \/ Committed(t, db)
              \/ /\ Committed(t, Left(t))
                 /\ \A n \in Adding(t) : InTheWay(n, db \ Replaced(t)) = {}
                 /\ \A n \in Adding(t) : ~Dangling(n, Left(t))
<1>1. /\ Open(t) /\ ~Merges(tx[t].write) /\ ops' = ops
      /\ Found(t) \cap LockedByOthers(t) = {}
      /\ \A n \in Adding(t) : InTheWay(n, pend) = {}
  BY DEF Write, Found, Adding
<1>2. Found(t) \subseteq db /\ Replaced(t) \subseteq Found(t)
  BY DEF Found, Finds, Rows, Replaced
<1>3. \A n \in Adding(t) : \E tab \in Tabs(t) : n = Written(t, tab) /\ n.tab = tab
  <2>1. \A tab : Written(t, tab).tab = tab
    BY DEF Written
  <2> QED BY <2>1 DEF Adding, Anew
<1>4. (db \ Replaced(t)) \ (Found(t) \ Replaced(t)) = db \ Found(t)
  BY <1>2
<1>5. Left(t) = (db \ Found(t)) \cup {[r EXCEPT !.body = "live"] : r \in Found(t) \ Replaced(t)}
                    \cup Adding(t)
  BY <1>4 DEF Left, Updated
<1>6. \/ Committed(t, db)
      \/ /\ Committed(t, Left(t))
         /\ \A n \in Adding(t) : InTheWay(n, db \ Replaced(t)) = {}
         /\ \A n \in Adding(t) : ~Dangling(n, Left(t))
  BY <1>5 DEF Write, Found, Adding, Replaced
<1> QED BY <1>1, <1>2, <1>3, <1>6

(* Every row has its types, and what a transaction has read and is to      *)
(* write; the ids of events are bounded.                                   *)
TypedTx(x) ==
    /\ \A r \in x.seen : Typed(r)
    /\ x # Idle /\ ~Merges(x.write) => x.id \in Nat /\ x.key \in {1, 2}
EventsUpTo(b) ==
    /\ \A r \in db \cup pend : r.id <= b
    /\ \A t \in Threads : Open(t) => tx[t].id <= b
TypedInv ==
    /\ seq \in Nat
    /\ \A r \in db \cup pend : Typed(r)
    /\ \A t \in Threads : TypedTx(tx[t])
    /\ kind = "events" => \E b \in Nat : EventsUpTo(b)

(* What a write adds has its types,                                        *)
LEMMA WrittenTyped ==
    ASSUME RowsInv, TypedInv, NEW t \in Threads, Open(t), ~Merges(tx[t].write), NEW tab \in Tabs(t)
    PROVE  Typed(Written(t, tab))
<1> DEFINE n == Written(t, tab)
<1>1. /\ n.key = tx[t].key /\ n.body = "live"
      /\ n.id = IF Verb(t, tab) = "revive" THEN CHOOSE id \in Standing(t, tab) : TRUE
                ELSE IdOf(Table(tab), tx[t].key, tx[t].id)
      /\ n.ref = IF Table(tab).parent \in Tabs(t) THEN Standing(t, Table(tab).parent)
                 ELSE {p.id : p \in {q \in tx[t].seen : q.tab = Table(tab).parent}}
  BY DEF Written
<1> HIDE DEF n
<1>2. tx[t].key \in {1, 2} /\ tx[t].id \in Nat /\ \A r \in tx[t].seen : r.id \in Nat
  BY DEF TypedInv, TypedTx, Open, Typed
<1>3. \A r \in db : r.id \in Nat
  BY DEF TypedInv, Typed
<1>4. \A x : IdOf(Table(x), tx[t].key, tx[t].id) \in Nat
  BY <1>2 DEF IdOf
<1>5. \A x : \A rows : Named(t, x, rows) \subseteq rows
  BY DEF Named
<1>6. \A x : Standing(t, x) \subseteq Nat /\ Standing(t, x) # {}
  <2> TAKE x
  <2> DEFINE found == Named(t, x, IF Verb(t, x) \in {"find", "revive", "update"} THEN tx[t].seen
                                  ELSE db)
  <2>1. \A r \in found : r.id \in Nat
    BY <1>2, <1>3, <1>5
  <2>2. Standing(t, x) = IF "key" \in Table(x).unique /\ found # {} /\ Verb(t, x) # "replace"
                         THEN {r.id : r \in found}
                         ELSE {IdOf(Table(x), tx[t].key, tx[t].id)}
    BY DEF Standing
  <2> HIDE DEF found
  <2> QED BY <1>4, <2>1, <2>2
<1>7. n.id \in Nat
  <2>1. (CHOOSE id \in Standing(t, tab) : TRUE) \in Standing(t, tab)
    BY <1>6
  <2> QED BY <1>1, <1>4, <1>6, <2>1
<1>8. n.ref \subseteq Nat
  BY <1>1, <1>2, <1>6
<1>9. Typed(n)
  BY <1>1, <1>2, <1>7, <1>8 DEF Typed, Bodies
<1> QED BY <1>9 DEF n

(* a row with another body has,                                            *)
LEMMA BodyTyped ==
    ASSUME NEW r, IsRow(r), Typed(r), NEW x \in Bodies PROVE Typed([r EXCEPT !.body = x])
BY BodyMeets DEF Typed

(* a row with another parent,                                              *)
LEMMA RefTyped ==
    ASSUME NEW r, IsRow(r), Typed(r), NEW x \in SUBSET Nat
    PROVE  LET c == [r EXCEPT !.ref = x]
           IN  /\ Typed(c) /\ IsRow(c) /\ c.ref = x
               /\ c.tab = r.tab /\ c.owner = r.owner /\ c.id = r.id /\ c.key = r.key /\ c.body = r.body
BY DEF IsRow, Typed

(* and so all rows whose status is set.                                    *)
LEMMA CopiesTyped ==
    ASSUME NEW D, \A r \in D : IsRow(r) /\ Typed(r), NEW rows \in SUBSET D, NEW x \in Bodies
    PROVE  \A q \in (D \ rows) \cup {[r EXCEPT !.body = x] : r \in rows} : Typed(q)
<1>1. \A r \in rows : Typed([r EXCEPT !.body = x])
  BY BodyTyped
<1> QED BY <1>1

(* The rows of the tables are rows of their owners.                        *)
LEMMA DbRows ==
    ASSUME RowsInv
    PROVE  /\ \A r \in db \cup pend : IsRow(r) /\ r.tab \in DOMAIN store.tables /\ r.owner \in Owners
           /\ \A t \in Threads : \A r \in tx[t].seen :
                 IsRow(r) /\ r.tab \in DOMAIN store.tables /\ r.owner = Leaver
BY DEF RowsInv, AllFit, TxsFit, TxFits, Fits

(* So what a write leaves is typed,                                        *)
LEMMA WriteTyped ==
    ASSUME RowsInv, TypedInv, NEW t \in Threads, Write(t)
    PROVE  \A r \in db' : Typed(r)
<1>1. \A r \in db : Typed(r) /\ IsRow(r)
  BY DbRows DEF TypedInv
<1>2. CASE Committed(t, db)
  BY <1>1, <1>2 DEF Committed
<1>3. CASE Committed(t, Left(t))
  <2>1. /\ Open(t) /\ ~Merges(tx[t].write) /\ Found(t) \subseteq db
        /\ \A n \in Adding(t) : \E tab \in Tabs(t) : n = Written(t, tab)
    BY WriteIs
  <2>2. \A n \in Adding(t) : Typed(n)
    BY <2>1, WrittenTyped
  <2>3. \A q \in Updated(db \ Replaced(t), Found(t) \ Replaced(t)) : Typed(q)
    <3>1. "live" \in Bodies
      BY DEF Bodies
    <3>2. Found(t) \ Replaced(t) \in SUBSET (db \ Replaced(t))
      BY <2>1
    <3> QED BY <1>1, <3>1, <3>2, CopiesTyped DEF Updated
  <2> QED BY <1>3, <2>2, <2>3 DEF Committed, Left
<1> QED BY <1>2, <1>3, WriteIs

(* What a merge rewires, removes and leaves;                               *)
Turned(t, ref) == (ref \ {End(t, 2).id}) \cup {End(t, 1).id}
LeftLinks(t) == {r \in Rows(Leaver, {"kg_memory_entities"}) : End(t, 2).id \in r.ref}
Apart(t) == db \ (Read(t) \cup LeftLinks(t) \cup {End(t, 2)})

(* A merge commits what it keeps, rewires and updates.                     *)
LEMMA MergeIs ==
    ASSUME RowsInv, NEW t \in Threads, MergeWrites(t)
    PROVE  /\ Open(t) /\ tx[t].write = MergeEntities /\ Merges(tx[t].write) /\ ops' = ops
           /\ \A key \in {1, 2} : /\ End(t, key) \in tx[t].seen /\ End(t, key).tab = "kg_entities"
                                  /\ End(t, key).key = key
           /\ \A n \in Rewire(t) : InTheWay(n, pend) = {}
           /\ \A m \in Rewire(t) : /\ \A s \in db \ Read(t) : ~Meets(s, m, {"key"})
                                   /\ \E r \in Read(t) :
                                         /\ m = [r EXCEPT !.ref = Turned(t, r.ref)]
                                         /\ r.tab = "kg_memory_entities" \/ End(t, 1).id \notin r.ref
           /\ Committed(t, Updated(Apart(t) \cup {End(t, 1)}, {End(t, 1)}) \cup Rewire(t))
<1>1. /\ Open(t) /\ tx[t].write = MergeEntities /\ ops' = ops
      /\ \A n \in Rewire(t) : InTheWay(n, pend) = {}
      /\ Committed(t, (db \ (Read(t) \cup LeftLinks(t) \cup {End(t, 1), End(t, 2)}))
                        \cup Rewire(t) \cup {[End(t, 1) EXCEPT !.body = "live"]})
  BY DEF MergeWrites, LeftLinks
<1>2. Merges(tx[t].write)
  BY <1>1, MergesAre
<1>3. \A key \in {1, 2} : /\ End(t, key) \in tx[t].seen /\ End(t, key).tab = "kg_entities"
                          /\ End(t, key).key = key
  BY <1>1, <1>2, EndsAre
<1>4. (Apart(t) \cup {End(t, 1)}) \ {End(t, 1)}
          = db \ (Read(t) \cup LeftLinks(t) \cup {End(t, 1), End(t, 2)})
  BY DEF Apart
<1>5. {[r EXCEPT !.body = "live"] : r \in {End(t, 1)}} = {[End(t, 1) EXCEPT !.body = "live"]}
  OBVIOUS
<1>6. Updated(Apart(t) \cup {End(t, 1)}, {End(t, 1)}) \cup Rewire(t)
        = (db \ (Read(t) \cup LeftLinks(t) \cup {End(t, 1), End(t, 2)}))
            \cup Rewire(t) \cup {[End(t, 1) EXCEPT !.body = "live"]}
  BY <1>4, <1>5 DEF Updated
<1>7. \A m \in Rewire(t) : /\ \A s \in db \ Read(t) : ~Meets(s, m, {"key"})
                           /\ \E r \in Read(t) :
                                 /\ m = [r EXCEPT !.ref = Turned(t, r.ref)]
                                 /\ r.tab = "kg_memory_entities" \/ End(t, 1).id \notin r.ref
  BY DEF Rewire, Turned
<1> QED BY <1>1, <1>2, <1>3, <1>6, <1>7

(* and the local merge.                                                    *)
ReadNow(t) ==
    IF \E l \in Read(t) : l.tab = "kg_memory_entities"
    THEN {r \in db : r.tab = "kg_relations" /\ End(t, 2).id \in r.ref}
    ELSE {r \in Read(t) : r.tab = "kg_relations"}
Rest(t) == db \ ({m[1] : m \in Moved(t)} \cup LeftLinks(t) \cup {e \in Entities : e.id = End(t, 2).id})
Kept(t) ==
    {m \in {x[2] : x \in Moved(t)} :
        m.ref # {End(t, 1).id} /\ \A r \in Rest(t) : ~Meets(r, m, {"key"})}
Links(t) == {l \in Relinked(t) : \A r \in Rest(t) : ~Meets(r, l, {"key"})}

(* The local merge commits what it leaves, moves and links.                *)
LEMMA LocalMergeIs ==
    ASSUME RowsInv, NEW t \in Threads, LocalMergeWrites(t)
    PROVE  /\ Open(t) /\ tx[t].write = MergeLocalEntities /\ Merges(tx[t].write) /\ ops' = ops
           /\ \A key \in {1, 2} : /\ End(t, key) \in tx[t].seen /\ End(t, key).tab = "kg_entities"
                                  /\ End(t, key).key = key
           /\ Committed(t, Rest(t) \cup Kept(t) \cup Links(t))
           /\ \A m \in Kept(t) : \E r \in ReadNow(t), q \in Rows(Leaver, {"kg_relations"}) :
                 q.id = r.id /\ q \notin Rest(t) /\ m = [q EXCEPT !.ref = Turned(t, r.ref)]
           /\ \A l \in Links(t) :
                 /\ \E r \in Read(t) : r.tab = "kg_memory_entities" /\ l = [r EXCEPT !.ref = {End(t, 1).id}]
                 /\ \A s \in Rest(t) : ~Meets(s, l, {"key"})
<1>1. /\ Open(t) /\ tx[t].write = MergeLocalEntities /\ ops' = ops
      /\ Committed(t, Rest(t) \cup Kept(t) \cup Links(t))
  BY DEF LocalMergeWrites, LeftLinks, Rest, Kept, Links
<1>2. Merges(tx[t].write)
  BY <1>1, MergesAre
<1>3. \A key \in {1, 2} : /\ End(t, key) \in tx[t].seen /\ End(t, key).tab = "kg_entities"
                          /\ End(t, key).key = key
  BY <1>1, <1>2, EndsAre
<1>4. ASSUME NEW m \in Kept(t)
      PROVE  \E r \in ReadNow(t), q \in Rows(Leaver, {"kg_relations"}) :
                q.id = r.id /\ q \notin Rest(t) /\ m = [q EXCEPT !.ref = Turned(t, r.ref)]
  <2>1. PICK x \in Moved(t) : m = x[2]
    BY DEF Kept
  <2>2. Moved(t) = {<<y[2], [y[2] EXCEPT !.ref = Turned(t, y[1].ref)]>> :
                       y \in {z \in ReadNow(t) \X Rows(Leaver, {"kg_relations"}) : z[1].id = z[2].id}}
    BY DEF Moved, ReadNow, Turned
  <2>3. PICK y \in ReadNow(t) \X Rows(Leaver, {"kg_relations"}) :
           y[1].id = y[2].id /\ x = <<y[2], [y[2] EXCEPT !.ref = Turned(t, y[1].ref)]>>
    BY <2>1, <2>2
  <2>4. y[1] \in ReadNow(t) /\ y[2] \in Rows(Leaver, {"kg_relations"})
    OBVIOUS
  <2>5. x[1] = y[2] /\ x[2] = [y[2] EXCEPT !.ref = Turned(t, y[1].ref)]
    BY <2>3
  <2>6. y[2] \notin Rest(t)
    BY <2>1, <2>5 DEF Rest
  <2> QED BY <2>1, <2>3, <2>4, <2>5, <2>6
<1>5. \A l \in Links(t) :
         /\ \E r \in Read(t) : r.tab = "kg_memory_entities" /\ l = [r EXCEPT !.ref = {End(t, 1).id}]
         /\ \A s \in Rest(t) : ~Meets(s, l, {"key"})
  BY DEF Links, Relinked
<1> QED BY <1>1, <1>2, <1>3, <1>4, <1>5

(* What is read again was seen or is there.                                *)
LEMMA ReadIsSeen ==
    ASSUME NEW t PROVE Read(t) \subseteq tx[t].seen /\ ReadNow(t) \subseteq db \cup Read(t)
BY DEF Read, ReadNow

(* So what a merge leaves is typed.                                        *)
LEMMA MergeTyped ==
    ASSUME RowsInv, TypedInv, NEW t \in Threads, MergeWrites(t) \/ LocalMergeWrites(t)
    PROVE  \A r \in db' : Typed(r)
<1>1. \A r \in db \cup tx[t].seen : IsRow(r) /\ Typed(r)
  BY DbRows DEF TypedInv, TypedTx
<1>2. Read(t) \subseteq tx[t].seen /\ ReadNow(t) \subseteq db \cup tx[t].seen
  BY ReadIsSeen
<1>3. End(t, 1) \in tx[t].seen
  BY MergeIs, LocalMergeIs
<1>4. ASSUME NEW ref \in SUBSET Nat PROVE Turned(t, ref) \in SUBSET Nat
  BY <1>1, <1>3 DEF Turned, Typed
<1>5. CASE MergeWrites(t)
  <2>1. \A m \in Rewire(t) : Typed(m)
    <3> SUFFICES ASSUME NEW m \in Rewire(t) PROVE Typed(m)
      OBVIOUS
    <3>1. PICK r \in Read(t) : m = [r EXCEPT !.ref = Turned(t, r.ref)]
      BY <1>5, MergeIs
    <3>2. IsRow(r) /\ Typed(r) /\ r.ref \in SUBSET Nat
      BY <1>1, <1>2 DEF Typed
    <3>3. Turned(t, r.ref) \in SUBSET Nat
      BY <1>4, <3>2
    <3> HIDE DEF Turned
    <3>4. LET c == [r EXCEPT !.ref = Turned(t, r.ref)] IN Typed(c)
      BY <3>2, <3>3, RefTyped
    <3> QED BY <3>1, <3>4
  <2>2. \A q \in Updated(Apart(t) \cup {End(t, 1)}, {End(t, 1)}) : Typed(q)
    <3>1. "live" \in Bodies
      BY DEF Bodies
    <3>2. \A r \in Apart(t) \cup {End(t, 1)} : IsRow(r) /\ Typed(r)
      BY <1>1, <1>3 DEF Apart
    <3> DEFINE D == Apart(t) \cup {End(t, 1)}
    <3>3. {End(t, 1)} \in SUBSET D /\ \A r \in D : IsRow(r) /\ Typed(r)
      BY <3>2
    <3>4. D = Apart(t) \cup {End(t, 1)}
      OBVIOUS
    <3> HIDE DEF D
    <3>5. \A q \in (D \ {End(t, 1)}) \cup {[r EXCEPT !.body = "live"] : r \in {End(t, 1)}} : Typed(q)
      BY <3>1, <3>3, CopiesTyped
    <3>6. \A q \in Updated(D, {End(t, 1)}) : Typed(q)
      BY <3>5 DEF Updated
    <3> QED BY <3>4, <3>6
  <2>3. db' = Updated(Apart(t) \cup {End(t, 1)}, {End(t, 1)}) \cup Rewire(t)
    BY <1>5, MergeIs DEF Committed
  <2> QED BY <2>1, <2>2, <2>3
<1>6. CASE LocalMergeWrites(t)
  <2>1. \A m \in Kept(t) : Typed(m)
    <3> SUFFICES ASSUME NEW m \in Kept(t) PROVE Typed(m)
      OBVIOUS
    <3>1. PICK r \in ReadNow(t), q \in Rows(Leaver, {"kg_relations"}) :
             m = [q EXCEPT !.ref = Turned(t, r.ref)]
      <4>1. \E r \in ReadNow(t), q \in Rows(Leaver, {"kg_relations"}) :
               q.id = r.id /\ q \notin Rest(t) /\ m = [q EXCEPT !.ref = Turned(t, r.ref)]
        BY <1>6, LocalMergeIs
      <4> HIDE DEF Turned
      <4> QED BY <4>1
    <3>2. q \in db
      BY DEF Rows
    <3>3. IsRow(q) /\ Typed(q) /\ r.ref \in SUBSET Nat
      BY <1>1, <1>2, <3>2 DEF Typed
    <3>4. Turned(t, r.ref) \in SUBSET Nat
      BY <1>4, <3>3
    <3>5. LET c == [q EXCEPT !.ref = Turned(t, r.ref)] IN Typed(c)
      BY <3>3, <3>4, RefTyped
    <3> QED BY <3>1, <3>5
  <2>2. \A l \in Links(t) : Typed(l)
    <3> SUFFICES ASSUME NEW l \in Links(t) PROVE Typed(l)
      OBVIOUS
    <3>1. PICK r \in Read(t) : l = [r EXCEPT !.ref = {End(t, 1).id}]
      BY <1>6, LocalMergeIs
    <3>2. IsRow(r) /\ Typed(r) /\ {End(t, 1).id} \in SUBSET Nat
      BY <1>1, <1>2, <1>3 DEF Typed
    <3>3. LET c == [r EXCEPT !.ref = {End(t, 1).id}] IN Typed(c)
      BY <3>2, RefTyped
    <3> QED BY <3>1, <3>3
  <2>3. db' = Rest(t) \cup Kept(t) \cup Links(t)
    BY <1>6, LocalMergeIs DEF Committed
  <2> QED BY <1>1, <2>1, <2>2, <2>3 DEF Rest
<1> QED BY <1>5, <1>6

-----------------------------------------------------------------------------
(* Each write to the graph goes to one of its tables; those of Postgres    *)
(* delete nothing, and take no locks on links.                             *)
LEMMA GraphWritesAre ==
    /\ \A w \in GraphWrites \cup LocalGraphWrites :
          "kg_memory_entities" \in DOMAIN w => "kg_entities" \notin DOMAIN w /\ "kg_relations" \notin DOMAIN w
    /\ \A w \in GraphWrites :
          /\ ~Drops(w) /\ w # MergeLocalEntities /\ \A tab \in DOMAIN w : w[tab] # "replace"
          /\ Locking(w) => DOMAIN w \subseteq {"kg_entities", "kg_relations"}
<1> DEFINE one(tab, verb) == [x \in {tab} |-> verb]
<1>1. \A tab, verb : DOMAIN one(tab, verb) = {tab} /\ one(tab, verb)[tab] = verb
  OBVIOUS
<1>2. /\ UpsertEntity = one("kg_entities", "put") /\ UpsertRelation = one("kg_relations", "put")
      /\ LinkMemory = one("kg_memory_entities", "upsert") /\ MergeEntities = one("kg_entities", "merge")
      /\ UpsertLocalEntity = one("kg_entities", "find") /\ UpsertLocalRelation = one("kg_relations", "find")
      /\ LinkLocalMemory = one("kg_memory_entities", "upsert")
      /\ UnlinkLocalMemory = one("kg_memory_entities", "drop")
      /\ MergeLocalEntities = one("kg_entities", "join")
  BY DEF UpsertEntity, UpsertRelation, LinkMemory, MergeEntities, UpsertLocalEntity,
         UpsertLocalRelation, LinkLocalMemory, UnlinkLocalMemory, MergeLocalEntities
<1> HIDE DEF one
<1>3. \A w \in GraphWrites : w \in {one("kg_entities", "put"), one("kg_relations", "put"),
                                    one("kg_memory_entities", "upsert"), one("kg_entities", "merge")}
  BY <1>2 DEF GraphWrites, CloseRelation
<1>4. \A w \in LocalGraphWrites :
         w \in {one("kg_entities", "find"), one("kg_relations", "find"),
                one("kg_memory_entities", "upsert"), one("kg_memory_entities", "drop"),
                one("kg_entities", "join")}
  BY <1>2 DEF LocalGraphWrites, CloseLocalRelation
<1>5. \A w \in GraphWrites \cup LocalGraphWrites : \E tab \in GraphTabs : DOMAIN w = {tab}
  BY <1>1, <1>3, <1>4 DEF GraphTabs
<1>6. ASSUME NEW w \in GraphWrites
      PROVE  /\ w # MergeLocalEntities /\ ~Drops(w) /\ \A tab \in DOMAIN w : w[tab] # "replace"
             /\ Locking(w) => DOMAIN w \subseteq {"kg_entities", "kg_relations"}
  <2>1. PICK tab \in GraphTabs, verb \in {"put", "upsert", "merge"} :
           w = one(tab, verb) /\ (tab = "kg_memory_entities" => verb = "upsert")
    BY <1>3 DEF GraphTabs
  <2>2. DOMAIN w = {tab} /\ w[tab] = verb
    BY <1>1, <2>1
  <2>3. w # MergeLocalEntities
    <3>1. DOMAIN MergeLocalEntities = {"kg_entities"} /\ MergeLocalEntities["kg_entities"] = "join"
      BY <1>1, <1>2
    <3> QED BY <2>2, <3>1
  <2>4. ~Drops(w) /\ \A x \in DOMAIN w : w[x] # "replace"
    BY <2>2 DEF Drops
  <2>5. Locking(w) => tab # "kg_memory_entities"
    BY <2>1, <2>2 DEF Locking
  <2> QED BY <2>2, <2>3, <2>4, <2>5 DEF GraphTabs
<1>7. \A w \in GraphWrites \cup LocalGraphWrites :
         "kg_memory_entities" \in DOMAIN w => "kg_entities" \notin DOMAIN w /\ "kg_relations" \notin DOMAIN w
  <2> SUFFICES ASSUME NEW w \in GraphWrites \cup LocalGraphWrites, "kg_memory_entities" \in DOMAIN w
               PROVE  "kg_entities" \notin DOMAIN w /\ "kg_relations" \notin DOMAIN w
    OBVIOUS
  <2>1. PICK tab \in GraphTabs : DOMAIN w = {tab}
    BY <1>5
  <2> QED BY <2>1
<1> QED BY <1>6, <1>7

(* A memory is linked to one entity: what a transaction has read to link   *)
(* it to is the target alone, and what a merge has read are the relations  *)
(* and links of its source.                                                *)
LinksTo(x) ==
    /\ \A r \in x.seen : Linking(r)
    /\ x # Idle /\ Merges(x.write) => \A r \in x.seen : r.tab # "kg_entities" =>
          /\ r.tab \in {"kg_relations", "kg_memory_entities"}
          /\ \E e \in x.seen : e.tab = "kg_entities" /\ e.key = 2 /\ e.id \in r.ref
    /\ x # Idle /\ "kg_memory_entities" \in DOMAIN x.write =>
          /\ \E p \in x.seen : p.tab = "kg_entities"
          /\ \A p \in x.seen : p.tab = "kg_entities" => p.key = 2
LinksInv ==
    Graphs => (\A r \in db \cup pend : Linking(r)) /\ \A t \in Threads : LinksTo(tx[t])

(* A write begins so,                                                      *)
LEMMA LinksBegin ==
    ASSUME RowsInv, LinksInv, Graphs, NEW t \in Threads, Begin(t)
    PROVE  LinksTo(tx'[t])
<1>1. PICK w \in Kind[kind].writes, key \in {1, 2} :
         /\ ~Merges(w) /\ Owned(w) /\ tx'[t].write = w /\ tx'[t].seen = Sees(DOMAIN w, key)
  BY BegunIs
<1>2. kind \in {"graph", "local_graph"} /\ w \in GraphWrites \cup LocalGraphWrites
  BY <1>1, GraphsAre DEF Graphs
<1>3. \A r \in Sees(DOMAIN w, key) : Linking(r)
  BY SeenIsThere DEF LinksInv
<1>4. ASSUME "kg_memory_entities" \in DOMAIN w
      PROVE  /\ \E p \in Sees(DOMAIN w, key) : p.tab = "kg_entities"
             /\ \A p \in Sees(DOMAIN w, key) : p.tab = "kg_entities" => p.key = 2
  <2>1. "kg_entities" \notin DOMAIN w /\ "kg_relations" \notin DOMAIN w
    BY <1>2, <1>4, GraphWritesAre
  <2>2. DOMAIN w \subseteq GraphTabs
    BY <1>1, <1>2, TableIs, GraphsAre DEF Fitting, Writable
  <2>3. DOMAIN w = {"kg_memory_entities"}
    BY <1>4, <2>1, <2>2 DEF GraphTabs
  <2>4. /\ Table("kg_memory_entities").parent = "kg_entities"
        /\ Table("kg_memory_entities").refs = {2}
    BY <1>2, GraphsAre, TableIs
  <2>5. {p.key : p \in Parents("kg_memory_entities")} = {2}
    BY <1>1, <1>4, <2>1, <2>4 DEF Owned
  <2>6. \A p \in Parents("kg_memory_entities") : p.tab = "kg_entities" /\ p.key = 2
    BY <2>4 DEF Parents, Rows
  <2>7. Sees(DOMAIN w, key) = {r \in Rows(Leaver, DOMAIN w) : r.key = key}
                                 \cup Parents("kg_memory_entities")
    BY <2>3 DEF Sees
  <2>8. \A r \in Rows(Leaver, DOMAIN w) : r.tab # "kg_entities"
    BY <2>1 DEF Rows
  <2> QED BY <2>5, <2>6, <2>7, <2>8
<1> QED BY <1>1, <1>3, <1>4 DEF LinksTo

(* a merge begins so,                                                      *)
LEMMA LinksMerge ==
    ASSUME RowsInv, LinksInv, Graphs, NEW t \in Threads, MergeReads(t)
    PROVE  LinksTo(tx'[t])
<1>1. /\ tx'[t].seen = Entities \cup Rewired /\ tx'[t].write \in Kind[kind].writes
      /\ Merges(tx'[t].write)
  BY MergingIs
<1>2. tx'[t].write \in GraphWrites \cup LocalGraphWrites
  BY <1>1, GraphsAre DEF Graphs
<1>3. "kg_memory_entities" \notin DOMAIN tx'[t].write
  BY <1>1, <1>2, GraphWritesAre DEF Merges
<1>4. \A r \in Entities \cup Rewired : Linking(r)
  BY SeenIsThere DEF LinksInv
<1>5. \A e \in Entities : e.tab = "kg_entities"
  BY DEF Entities, Rows
<1>6. \A r \in Rewired : /\ r.tab \in {"kg_relations", "kg_memory_entities"}
                         /\ \E e \in Entities : e.key = 2 /\ e.id \in r.ref
  BY DEF Rewired, FromSource, Rows
<1> QED BY <1>1, <1>3, <1>4, <1>5, <1>6 DEF LinksTo

(* and both stay so until they end.                                        *)
LEMMA LinksKept ==
    ASSUME NEW x, NEW y, LinksTo(x), LinksTo(Idle), y = Idle \/ (x # Idle /\ SameTx(x, y))
    PROVE  LinksTo(y)
BY DEF LinksTo, SameTx

(* The constraints of the tables hold of what is committed, together with  *)
(* what a migration has yet to commit, and of what a transaction has read. *)
UniqueInv ==
    /\ Unlike(store.tables, db) /\ Unlike(store.tables, pend) /\ Clear(store.tables, db, pend)
    /\ \A t \in Threads : Unlike(store.tables, tx[t].seen)

(* So an open transaction has read at most one entity of a key,            *)
LEMMA OneEntity ==
    ASSUME RowsInv, LinksInv, UniqueInv, Graphs, NEW t \in Threads, NEW p \in tx[t].seen,
           NEW q \in tx[t].seen, p.tab = "kg_entities", q.tab = "kg_entities", p.key = q.key
    PROVE  p = q
<1>1. p.owner = q.owner
  BY DbRows
<1>2. p.ref = {} /\ q.ref = {}
  BY DEF LinksInv, LinksTo, Linking
<1>3. "key" \in store.tables["kg_entities"].unique
  BY GraphsAre DEF Graphs, RowsInv
<1>4. Meets(p, q, store.tables[p.tab].unique)
  BY <1>1, <1>2, <1>3 DEF Meets
<1> QED BY <1>4 DEF UniqueInv, Unlike

(* what it has read to be rewired is of the source,                        *)
LEMMA OfTheSource ==
    ASSUME RowsInv, LinksInv, UniqueInv, Graphs, NEW t \in Threads, Open(t), Merges(tx[t].write),
           NEW r \in Read(t)
    PROVE  /\ r \in tx[t].seen /\ r.tab \in {"kg_relations", "kg_memory_entities"}
           /\ End(t, 2).id \in r.ref
           /\ r.tab = "kg_memory_entities" => r.ref = {End(t, 2).id}
<1>1. r \in tx[t].seen /\ r.tab # "kg_entities"
  BY DEF Read
<1>2. LinksTo(tx[t]) /\ Linking(r)
  BY <1>1 DEF LinksInv, LinksTo
<1>3. PICK e \in tx[t].seen : e.tab = "kg_entities" /\ e.key = 2 /\ e.id \in r.ref
  BY <1>1, <1>2 DEF LinksTo, Open
<1>4. e = End(t, 2)
  BY <1>3, EndsAre, OneEntity
<1> QED BY <1>1, <1>2, <1>3, <1>4 DEF LinksTo, Linking, Open

(* and it links a memory to one entity.                                    *)
LEMMA WrittenLinks ==
    ASSUME RowsInv, LinksInv, UniqueInv, Graphs, NEW t \in Threads, Open(t), NEW tab \in Tabs(t)
    PROVE  Linking(Written(t, tab))
<1> DEFINE n == Written(t, tab)
<1>1. /\ n.tab = tab
      /\ n.ref = IF Table(tab).parent \in Tabs(t) THEN Standing(t, Table(tab).parent)
                 ELSE {p.id : p \in {q \in tx[t].seen : q.tab = Table(tab).parent}}
  BY DEF Written
<1> HIDE DEF n
<1>2. /\ kind \in {"graph", "local_graph"} /\ Tabs(t) \subseteq GraphTabs
      /\ \A q \in tx[t].seen : q.tab \in GraphTabs
      /\ tx[t].write \in GraphWrites \cup LocalGraphWrites
  BY OpenFits, DbRows, GraphsAre DEF Graphs, Fits
<1>3. ASSUME tab = "kg_entities" PROVE n.ref = {}
  <2>1. Table(tab).parent = "" /\ "" \notin GraphTabs
    BY <1>2, <1>3, TableIs, GraphsAre DEF GraphTabs
  <2> QED BY <1>1, <1>2, <2>1
<1>4. ASSUME tab = "kg_memory_entities" PROVE \E i : n.ref = {i}
  <2>1. Table(tab).parent = "kg_entities" /\ "kg_entities" \notin Tabs(t)
    BY <1>2, <1>4, TableIs, GraphsAre, GraphWritesAre DEF Tabs
  <2>2. n.ref = {p.id : p \in {q \in tx[t].seen : q.tab = "kg_entities"}}
    BY <1>1, <2>1
  <2>3. LinksTo(tx[t]) /\ "kg_memory_entities" \in DOMAIN tx[t].write
    BY <1>4 DEF LinksInv, Tabs
  <2>4. PICK p \in tx[t].seen : p.tab = "kg_entities"
    BY <2>3 DEF LinksTo, Open
  <2>5. \A q \in tx[t].seen : q.tab = "kg_entities" => q.key = 2
    BY <2>3 DEF LinksTo, Open
  <2>6. \A q \in tx[t].seen : q.tab = "kg_entities" => q = p
    BY <2>4, <2>5, OneEntity
  <2>7. {q \in tx[t].seen : q.tab = "kg_entities"} = {p}
    BY <2>4, <2>6
  <2>8. n.ref = {p.id}
    BY <2>2, <2>7
  <2> QED BY <2>8
<1>5. Linking(n)
  BY <1>1, <1>3, <1>4 DEF Linking
<1> QED BY <1>5 DEF n

(* What a live write writes is a body.                                     *)
LEMMA LiveIsBody == "live" \in Bodies
BY DEF Bodies

(* A row with another body has the same links,                             *)
LEMMA BodyLinks ==
    ASSUME NEW D, \A r \in D : IsRow(r) /\ Linking(r), NEW rows \in SUBSET D, NEW x \in Bodies
    PROVE  \A q \in (D \ rows) \cup {[r EXCEPT !.body = x] : r \in rows} : Linking(q)
<1>1. ASSUME NEW r \in rows PROVE Linking([r EXCEPT !.body = x])
  <2> DEFINE c == [r EXCEPT !.body = x]
  <2>1. c.tab = r.tab /\ c.ref = r.ref /\ Linking(r)
    BY BodyMeets
  <2> HIDE DEF c
  <2>2. Linking(c)
    BY <2>1 DEF Linking
  <2> QED BY <2>2 DEF c
<1> QED BY <1>1

(* so a write leaves them.                                                 *)
LEMMA WriteLinks ==
    ASSUME RowsInv, LinksInv, UniqueInv, Graphs, NEW t \in Threads, Write(t)
    PROVE  \A r \in db' : Linking(r)
<1>1. \A r \in db : Linking(r) /\ IsRow(r)
  BY DbRows DEF LinksInv
<1>2. CASE Committed(t, db)
  BY <1>1, <1>2 DEF Committed
<1>3. CASE Committed(t, Left(t))
  <2>1. /\ Open(t) /\ Found(t) \subseteq db
        /\ \A n \in Adding(t) : \E tab \in Tabs(t) : n = Written(t, tab)
    BY WriteIs
  <2>2. \A n \in Adding(t) : Linking(n)
    BY <2>1, WrittenLinks
  <2> DEFINE D == db \ Replaced(t)
             R == Found(t) \ Replaced(t)
  <2>3. R \in SUBSET D /\ \A r \in D : IsRow(r) /\ Linking(r)
    BY <1>1, <2>1
  <2>4. Left(t) = Updated(D, R) \cup Adding(t)
    BY DEF Left
  <2> HIDE DEF D, R
  <2>5. \A q \in (D \ R) \cup {[r EXCEPT !.body = "live"] : r \in R} : Linking(q)
    BY <2>3, LiveIsBody, BodyLinks
  <2>6. \A q \in Updated(D, R) : Linking(q)
    BY <2>5 DEF Updated
  <2> QED BY <1>3, <2>2, <2>4, <2>6 DEF Committed
<1> QED BY <1>2, <1>3, WriteIs

(* What is read at a merge may be written again.                           *)
LEMMA RefLinks ==
    ASSUME NEW r, IsRow(r), NEW x, r.tab = "kg_relations" \/ (r.tab = "kg_memory_entities" /\ \E i : x = {i})
    PROVE  LET c == [r EXCEPT !.ref = x]
           IN  /\ Linking(c) /\ IsRow(c) /\ c.ref = x
               /\ c.tab = r.tab /\ c.owner = r.owner /\ c.id = r.id /\ c.key = r.key /\ c.body = r.body
BY DEF IsRow, Linking

(* What pointed to the source points to the target,                        *)
LEMMA TurnedIs ==
    ASSUME NEW t, NEW ref, End(t, 2).id \in ref
    PROVE  End(t, 1).id \in Turned(t, ref) /\ (ref = {End(t, 2).id} => Turned(t, ref) = {End(t, 1).id})
BY DEF Turned

(* The rows of a merge, and what it makes of them,                         *)
LEMMA RewiredIs ==
    ASSUME RowsInv, LinksInv, UniqueInv, Graphs, NEW t \in Threads, MergeWrites(t), NEW m \in Rewire(t)
    PROVE  /\ Linking(m) /\ IsRow(m)
           /\ \E r \in Read(t) :
                 /\ m = [r EXCEPT !.ref = Turned(t, r.ref)]
                 /\ r.tab = "kg_memory_entities" \/ End(t, 1).id \notin r.ref
                 /\ m.tab = r.tab /\ m.owner = r.owner /\ m.id = r.id /\ m.key = r.key
                 /\ m.body = r.body /\ m.ref = Turned(t, r.ref)
<1>1. Open(t) /\ Merges(tx[t].write)
  BY MergeIs
<1>2. PICK r \in Read(t) : /\ m = [r EXCEPT !.ref = Turned(t, r.ref)]
                           /\ r.tab = "kg_memory_entities" \/ End(t, 1).id \notin r.ref
  BY MergeIs
<1>3. /\ r \in tx[t].seen /\ r.tab \in {"kg_relations", "kg_memory_entities"}
      /\ r.tab = "kg_memory_entities" => r.ref = {End(t, 2).id}
      /\ End(t, 2).id \in r.ref
  BY <1>1, OfTheSource
<1>4. IsRow(r)
  BY <1>3, DbRows
<1>5. r.tab = "kg_memory_entities" => \E i : Turned(t, r.ref) = {i}
  BY <1>3, TurnedIs
<1> DEFINE x == Turned(t, r.ref)
<1>6. m = [r EXCEPT !.ref = x] /\ (r.tab = "kg_memory_entities" => \E i : x = {i})
  BY <1>2, <1>5
<1> HIDE DEF x
<1>a. r.tab = "kg_relations" \/ (r.tab = "kg_memory_entities" /\ \E i : x = {i})
  BY <1>3, <1>6
<1>b. LET c == [r EXCEPT !.ref = x]
      IN  /\ Linking(c) /\ IsRow(c) /\ c.ref = x
          /\ c.tab = r.tab /\ c.owner = r.owner /\ c.id = r.id /\ c.key = r.key /\ c.body = r.body
  BY <1>4, <1>a, RefLinks
<1>7. /\ Linking(m) /\ IsRow(m) /\ m.ref = x
      /\ m.tab = r.tab /\ m.owner = r.owner /\ m.id = r.id /\ m.key = r.key /\ m.body = r.body
  BY <1>6, <1>b
<1>8. m.ref = Turned(t, r.ref)
  BY <1>7 DEF x
<1>9. /\ m = [r EXCEPT !.ref = Turned(t, r.ref)]
      /\ r.tab = "kg_memory_entities" \/ End(t, 1).id \notin r.ref
      /\ m.tab = r.tab /\ m.owner = r.owner /\ m.id = r.id /\ m.key = r.key
      /\ m.body = r.body /\ m.ref = Turned(t, r.ref)
  BY <1>2, <1>7, <1>8, Zenon
<1> QED BY <1>7, <1>9, Zenon

(* and of a local one.                                                     *)
LEMMA MovedIs ==
    ASSUME RowsInv, LinksInv, UniqueInv, Graphs, NEW t \in Threads, LocalMergeWrites(t), NEW m \in Kept(t)
    PROVE  /\ Linking(m) /\ IsRow(m)
           /\ \E r \in ReadNow(t), q \in Rows(Leaver, {"kg_relations"}) :
                 /\ q.id = r.id /\ q \notin Rest(t) /\ m = [q EXCEPT !.ref = Turned(t, r.ref)]
                 /\ m.tab = q.tab /\ m.owner = q.owner /\ m.id = q.id /\ m.key = q.key
<1>1. PICK r \in ReadNow(t), q \in Rows(Leaver, {"kg_relations"}) :
         q.id = r.id /\ q \notin Rest(t) /\ m = [q EXCEPT !.ref = Turned(t, r.ref)]
  <2>1. \E r \in ReadNow(t), q \in Rows(Leaver, {"kg_relations"}) :
           q.id = r.id /\ q \notin Rest(t) /\ m = [q EXCEPT !.ref = Turned(t, r.ref)]
    BY LocalMergeIs
  <2> HIDE DEF Turned
  <2> QED BY <2>1
<1>2. q \in db /\ q.tab = "kg_relations"
  BY DEF Rows
<1>3. IsRow(q)
  BY <1>2, DbRows
<1> DEFINE x == Turned(t, r.ref)
<1>4. m = [q EXCEPT !.ref = x]
  BY <1>1
<1> HIDE DEF x
<1>5. Linking(m) /\ IsRow(m) /\ m.tab = q.tab /\ m.owner = q.owner /\ m.id = q.id /\ m.key = q.key
  BY <1>2, <1>3, <1>4, RefLinks
<1> QED BY <1>1, <1>5

(* Its links are rewired to the target alone,                              *)
LEMMA RelinkedIs ==
    ASSUME RowsInv, LinksInv, UniqueInv, Graphs, NEW t \in Threads, LocalMergeWrites(t), NEW l \in Links(t)
    PROVE  /\ Linking(l) /\ IsRow(l)
           /\ \E r \in Read(t) :
                 /\ r.tab = "kg_memory_entities" /\ l = [r EXCEPT !.ref = {End(t, 1).id}]
                 /\ l.tab = r.tab /\ l.owner = r.owner /\ l.key = r.key
<1>1. PICK r \in Read(t) : r.tab = "kg_memory_entities" /\ l = [r EXCEPT !.ref = {End(t, 1).id}]
  BY LocalMergeIs
<1>2. IsRow(r)
  BY DbRows DEF Read
<1>3. Linking(l) /\ IsRow(l) /\ l.tab = r.tab /\ l.owner = r.owner /\ l.key = r.key
  BY <1>1, <1>2, RefLinks
<1> QED BY <1>1, <1>3

(* so a merge leaves a memory with links to one entity each.               *)
LEMMA MergeLinks ==
    ASSUME RowsInv, LinksInv, UniqueInv, Graphs, NEW t \in Threads, MergeWrites(t) \/ LocalMergeWrites(t)
    PROVE  \A r \in db' : Linking(r)
<1>1. \A r \in db : Linking(r) /\ IsRow(r)
  BY DbRows DEF LinksInv
<1>2. CASE LocalMergeWrites(t)
  <2>1. db' = Rest(t) \cup Kept(t) \cup Links(t)
    BY <1>2, LocalMergeIs DEF Committed
  <2>2. Rest(t) \subseteq db
    BY DEF Rest
  <2> QED BY <1>1, <1>2, <2>1, <2>2, MovedIs, RelinkedIs
<1>3. CASE MergeWrites(t)
  <2> DEFINE D == Apart(t) \cup {End(t, 1)}
             R == {End(t, 1)}
  <2>1. End(t, 1) \in tx[t].seen
    BY <1>3, MergeIs
  <2>2. IsRow(End(t, 1)) /\ Linking(End(t, 1))
    BY <2>1, DbRows DEF LinksInv, LinksTo
  <2>3. R \in SUBSET D /\ \A r \in D : IsRow(r) /\ Linking(r)
    BY <1>1, <2>2 DEF Apart
  <2>4. db' = Updated(D, R) \cup Rewire(t)
    BY <1>3, MergeIs DEF Committed
  <2> HIDE DEF D, R
  <2>5. \A q \in (D \ R) \cup {[r EXCEPT !.body = "live"] : r \in R} : Linking(q)
    BY <2>3, LiveIsBody, BodyLinks
  <2>6. \A q \in Updated(D, R) : Linking(q)
    BY <2>5 DEF Updated
  <2> QED BY <1>3, <2>4, <2>6, RewiredIs
<1> QED BY <1>2, <1>3

(* The rows that the transactions on the graph in Postgres have locked are *)
(* there, and no two have locked the same.                                 *)
LocksInv ==
    kind = "graph" =>
       /\ \A t \in Threads : Locked(t) \subseteq db
       /\ \A t, u \in Threads : t # u => Locked(t) \cap Locked(u) = {}

(* The store in Postgres has locks, the local one has none.                *)
LEMMA GraphIs ==
    ASSUME RowsInv, kind = "graph"
    PROVE  /\ Graphs /\ Kind[kind].writes = GraphWrites /\ ~Agents /\ kind \notin DOMAIN Local
           /\ \A t \in Threads : ~LocalMergeWrites(t) /\ ~Delete(t)
<1>1. Graphs /\ Kind[kind].writes = GraphWrites /\ ~Agents /\ kind \notin DOMAIN Local
  BY GraphsAre DEF Graphs, Agents
<1>2. ASSUME NEW t \in Threads PROVE ~LocalMergeWrites(t)
  <2>1. LocalMergeWrites(t) => Open(t) /\ tx[t].write = MergeLocalEntities
    BY DEF LocalMergeWrites
  <2>2. Open(t) => tx[t].write \in GraphWrites
    BY <1>1, OpenFits
  <2> QED BY <2>1, <2>2, GraphWritesAre
<1>3. ASSUME NEW t \in Threads PROVE ~Delete(t)
  BY <1>1, GraphWritesAre DEF Delete
<1> QED BY <1>1, <1>2, <1>3

(* A merge has locked the entities and the relations it has read.          *)
LEMMA LockedIs ==
    ASSUME RowsInv, kind = "graph", NEW t \in Threads
    PROVE  /\ Locked(t) \subseteq {r \in tx[t].seen : r.tab \in {"kg_entities", "kg_relations"}}
           /\ tx[t] = Idle => Locked(t) = {}
           /\ Open(t) /\ tx[t].write = MergeEntities =>
                 Locked(t) = {r \in tx[t].seen : r.tab \in {"kg_entities", "kg_relations"}}
<1>1. CASE tx[t] = Idle
  <2>1. tx[t].write = <<>> /\ DOMAIN <<>> = {}
    BY <1>1 DEF Idle
  <2>2. ~Locking(tx[t].write)
    BY <2>1 DEF Locking
  <2> QED BY <1>1, <2>2 DEF Locked, Open
<1>2. CASE Open(t)
  <2>1. tx[t].write \in GraphWrites
    BY <1>2, GraphIs, OpenFits
  <2>2. Locking(tx[t].write) => Tabs(t) \subseteq {"kg_entities", "kg_relations"}
    BY <2>1, GraphWritesAre DEF Tabs
  <2>3. tx[t].write = MergeEntities => Locking(tx[t].write) /\ Tabs(t) = {"kg_entities"}
    BY DEF MergeEntities, Locking, Tabs
  <2> QED BY <1>2, <2>2, <2>3 DEF Locked, Open
<1> QED BY <1>1, <1>2 DEF Open

-----------------------------------------------------------------------------
(* Rows that a row does not find in its way it does not meet.              *)
LEMMA NotInTheWay ==
    ASSUME NEW n, NEW rows, InTheWay(n, rows) = {}, NEW r \in rows
    PROVE  /\ ~Meets(r, n, store.tables[r.tab].unique)
           /\ ~Meets(n, r, store.tables[n.tab].unique)
<1>1. ~Meets(r, n, store.tables[n.tab].unique)
  BY DEF InTheWay, Table
<1>2. Meets(r, n, store.tables[r.tab].unique) => r.tab = n.tab
  BY DEF Meets
<1> QED BY <1>1, <1>2, MeetsBack

(* What a commit keeps and updates is told apart,                          *)
LEMMA UpdatedUnique ==
    ASSUME NEW T, NEW D, \A r \in D : IsRow(r), NEW R \in SUBSET D
    PROVE  /\ Unlike(T, D) => Unlike(T, Updated(D, R))
           /\ \A S : Clear(T, D, S) => Clear(T, Updated(D, R), S)
<1>1. Updated(D, R) = (D \ R) \cup WithStatus(R, "live")
  BY DEF Updated, WithStatus
<1>2. Unlike(T, D) => Unlike(T, (D \ R) \cup WithStatus(R, "live"))
  BY UnlikeCopies
<1>3. ASSUME NEW S, Clear(T, D, S) PROVE  Clear(T, (D \ R) \cup WithStatus(R, "live"), S)
  BY <1>3, ClearCopies
<1> QED BY <1>1, <1>2, <1>3

(* and what it adds from it, if that is.                                   *)
LEMMA CommitUnique ==
    ASSUME RowsInv, UniqueInv, NEW D \in SUBSET db, NEW R \in SUBSET D, NEW N,
           Unlike(store.tables, N), Clear(store.tables, D, N), \A n \in N : InTheWay(n, pend) = {}
    PROVE  /\ Unlike(store.tables, Updated(D, R) \cup N)
           /\ Clear(store.tables, Updated(D, R) \cup N, pend)
<1> DEFINE T == store.tables
           U == Updated(D, R)
<1>1. Unlike(T, D) /\ Clear(T, D, pend) /\ \A r \in D : IsRow(r)
  BY UnlikeParts, DbRows DEF UniqueInv, Clear
<1>2. Clear(T, N, pend)
  BY NotInTheWay DEF Clear
<1>3. Unlike(T, N) /\ Clear(T, D, N)
  OBVIOUS
<1> HIDE DEF T
<1>4. Unlike(T, U) /\ Clear(T, U, pend) /\ Clear(T, U, N)
  BY <1>1, <1>3, UpdatedUnique
<1> HIDE DEF U
<1>5. Unlike(T, U \cup N)
  BY <1>3, <1>4, UnlikeUnion
<1>6. Clear(T, U \cup N, pend)
  BY <1>2, <1>4 DEF Clear
<1> QED BY <1>5, <1>6 DEF T, U

(* So what a write leaves is told apart,                                   *)
LEMMA WriteUnique ==
    ASSUME RowsInv, UniqueInv, NEW t \in Threads, Write(t)
    PROVE  Unlike(store.tables, db') /\ Clear(store.tables, db', pend)
<1>1. CASE Committed(t, db)
  BY <1>1 DEF Committed, UniqueInv
<1>2. CASE /\ Committed(t, Left(t))
           /\ \A n \in Adding(t) : InTheWay(n, db \ Replaced(t)) = {}
  <2>1. /\ Found(t) \subseteq db
        /\ \A n \in Adding(t) : \E tab \in Tabs(t) : n = Written(t, tab) /\ n.tab = tab
        /\ \A n \in Adding(t) : InTheWay(n, pend) = {}
    BY WriteIs
  <2>2. Unlike(store.tables, Adding(t))
    <3>1. ASSUME NEW n \in Adding(t), NEW m \in Adding(t), n.tab = m.tab PROVE n = m
      BY <2>1, <3>1
    <3> QED BY <3>1 DEF Unlike, Meets
  <2>3. Clear(store.tables, db \ Replaced(t), Adding(t))
    BY <1>2, NotInTheWay DEF Clear
  <2>4. Found(t) \ Replaced(t) \in SUBSET (db \ Replaced(t)) /\ db \ Replaced(t) \in SUBSET db
    BY <2>1
  <2>5. /\ Unlike(store.tables, Left(t)) /\ Clear(store.tables, Left(t), pend)
    BY <2>1, <2>2, <2>3, <2>4, CommitUnique DEF Left
  <2> QED BY <1>2, <2>5 DEF Committed
<1> QED BY <1>1, <1>2, WriteIs

(* by a merge as well: of the relations that it rewires no two become the  *)
(* same,                                                                   *)
LEMMA TurnedApart ==
    ASSUME NEW t, NEW r \in SUBSET Nat, NEW s \in SUBSET Nat, End(t, 2).id \in r, End(t, 2).id \in s,
           End(t, 1).id \notin r, End(t, 1).id \notin s, Turned(t, r) = Turned(t, s)
    PROVE  r = s
<1>1. ASSUME NEW x, x \in r PROVE x \in s
  BY <1>1 DEF Turned
<1>2. ASSUME NEW x, x \in s PROVE x \in r
  BY <1>2 DEF Turned
<1>3. \A x : x \in r <=> x \in s
  BY <1>1, <1>2
<1> QED BY <1>3

(* The two merges are of the two stores of the graph.                      *)
LEMMA MergingKinds ==
    ASSUME RowsInv, NEW t \in Threads
    PROVE  /\ MergeWrites(t) => kind = "graph" /\ Graphs
           /\ LocalMergeWrites(t) => kind = "local_graph" /\ Graphs
<1> DEFINE one(tab, verb) == [x \in {tab} |-> verb]
<1>1. \A tab, verb : DOMAIN one(tab, verb) = {tab} /\ one(tab, verb)[tab] = verb
  OBVIOUS
<1>2. /\ MergeEntities = one("kg_entities", "merge") /\ MergeLocalEntities = one("kg_entities", "join")
      /\ UpsertLocalEntity = one("kg_entities", "find") /\ UpsertLocalRelation = one("kg_relations", "find")
      /\ LinkLocalMemory = one("kg_memory_entities", "upsert")
      /\ UnlinkLocalMemory = one("kg_memory_entities", "drop")
  BY DEF MergeEntities, UpsertLocalEntity,
         UpsertLocalRelation, LinkLocalMemory, UnlinkLocalMemory, MergeLocalEntities
<1> HIDE DEF one
<1>3. MergeEntities \notin LocalGraphWrites
  <2>1. DOMAIN MergeEntities = {"kg_entities"} /\ MergeEntities["kg_entities"] = "merge"
    BY <1>1, <1>2
  <2>2. \A w \in LocalGraphWrites :
           w \in {one("kg_entities", "find"), one("kg_relations", "find"),
                  one("kg_memory_entities", "upsert"), one("kg_memory_entities", "drop"),
                  one("kg_entities", "join")}
    BY <1>2 DEF LocalGraphWrites, CloseLocalRelation
  <2>3. \A w \in LocalGraphWrites : DOMAIN w = {"kg_entities"} => w["kg_entities"] # "merge"
    <3> SUFFICES ASSUME NEW w \in LocalGraphWrites, DOMAIN w = {"kg_entities"}
                 PROVE  w["kg_entities"] # "merge"
      OBVIOUS
    <3>1. PICK tab \in GraphTabs, verb \in {"find", "upsert", "drop", "join"} : w = one(tab, verb)
      BY <2>2 DEF GraphTabs
    <3>2. DOMAIN w = {tab} /\ w[tab] = verb
      BY <1>1, <3>1
    <3> QED BY <3>2
  <2> QED BY <2>1, <2>3
<1>4. MergeLocalEntities \notin GraphWrites
  BY GraphWritesAre
<1>5. "kg_entities" \in DOMAIN MergeEntities /\ "kg_entities" \in DOMAIN MergeLocalEntities
  BY <1>1, <1>2
<1>6. ASSUME Open(t), tx[t].write \in {MergeEntities, MergeLocalEntities} PROVE Graphs
  <2>1. "kg_entities" \in DOMAIN Kind[kind].tables /\ kind \in DOMAIN Kind
    BY <1>5, <1>6, OpenFits DEF Tabs, RowsInv
  <2> QED BY <2>1, GraphsOnly DEF Graphs, GraphTabs
<1>7. Open(t) => tx[t].write \in Kind[kind].writes
  BY OpenFits
<1>8. MergeWrites(t) => Open(t) /\ tx[t].write = MergeEntities
  BY DEF MergeWrites
<1>9. LocalMergeWrites(t) => Open(t) /\ tx[t].write = MergeLocalEntities
  BY DEF LocalMergeWrites
<1> QED BY <1>3, <1>4, <1>6, <1>7, <1>8, <1>9, GraphsAre DEF Graphs

(* What a merge rewires are relations, told apart by id or by key, and     *)
(* links, told apart by key.                                               *)
LEMMA GraphUnique ==
    ASSUME RowsInv, Graphs
    PROVE  /\ "id" \in store.tables["kg_relations"].unique
           /\ store.tables["kg_memory_entities"].unique = {"key"}
           /\ kind = "local_graph" => store.tables["kg_relations"].unique = {"id"}
BY GraphsAre DEF Graphs, RowsInv

(* Two rows meet in a way,                                                 *)
LEMMA MeetsBy ==
    ASSUME NEW r, NEW s, NEW ways
    PROVE  /\ Meets(r, s, ways) => r.tab = s.tab /\ (Meets(r, s, {"key"}) \/ ("id" \in ways /\ r.id = s.id))
           /\ r.tab = s.tab /\ r.id = s.id /\ "id" \in ways => Meets(r, s, ways)
           /\ Meets(r, s, {"key"}) => r.tab = s.tab /\ r.owner = s.owner /\ r.key = s.key /\ r.ref = s.ref
           /\ r.tab = s.tab /\ r.owner = s.owner /\ r.key = s.key /\ r.ref = s.ref /\ "key" \in ways
                 => Meets(r, s, ways)
           /\ "key" \notin ways /\ Meets(r, s, ways) => r.id = s.id
BY DEF Meets

(* What a merge rewires is told apart,                                     *)
LEMMA RewiredUnlike ==
    ASSUME RowsInv, TypedInv, LinksInv, UniqueInv, NEW t \in Threads, MergeWrites(t)
    PROVE  Unlike(store.tables, Rewire(t))
<1> SUFFICES ASSUME NEW m \in Rewire(t), NEW n \in Rewire(t), Meets(m, n, store.tables[m.tab].unique)
             PROVE  m = n
  BY DEF Unlike
<1>1. Graphs /\ Open(t) /\ Merges(tx[t].write)
  BY MergingKinds, MergeIs
<1>2. PICK r \in Read(t) :
         /\ m = [r EXCEPT !.ref = Turned(t, r.ref)]
         /\ r.tab = "kg_memory_entities" \/ End(t, 1).id \notin r.ref
         /\ m.tab = r.tab /\ m.owner = r.owner /\ m.id = r.id /\ m.key = r.key
         /\ m.ref = Turned(t, r.ref)
  BY <1>1, RewiredIs
<1>3. PICK s \in Read(t) :
         /\ n = [s EXCEPT !.ref = Turned(t, s.ref)]
         /\ s.tab = "kg_memory_entities" \/ End(t, 1).id \notin s.ref
         /\ n.tab = s.tab /\ n.owner = s.owner /\ n.id = s.id /\ n.key = s.key
         /\ n.ref = Turned(t, s.ref)
  BY <1>1, RewiredIs
<1>4. /\ r \in tx[t].seen /\ s \in tx[t].seen /\ r.tab \in {"kg_relations", "kg_memory_entities"}
      /\ End(t, 2).id \in r.ref /\ End(t, 2).id \in s.ref
      /\ r.tab = "kg_memory_entities" => r.ref = {End(t, 2).id}
      /\ s.tab = "kg_memory_entities" => s.ref = {End(t, 2).id}
  BY <1>1, OfTheSource
<1>5. r.ref \in SUBSET Nat /\ s.ref \in SUBSET Nat
  BY <1>4 DEF TypedInv, TypedTx, Typed
<1>6. r.tab = s.tab
  BY <1>2, <1>3, MeetsBy
<1>7. Meets(r, s, store.tables[r.tab].unique) => r = s
  BY <1>4 DEF UniqueInv, Unlike
<1>8. Meets(m, n, {"key"}) => r.ref = s.ref
  <2>1. Meets(m, n, {"key"}) => Turned(t, r.ref) = Turned(t, s.ref)
    BY <1>2, <1>3, MeetsBy
  <2> QED BY <1>2, <1>3, <1>4, <1>5, <1>6, <2>1, TurnedApart
<1>9. r = s
  <2> HIDE DEF Turned
  <2>1. CASE "id" \in store.tables[m.tab].unique /\ m.id = n.id
    BY <1>2, <1>3, <1>6, <1>7, <2>1, MeetsBy
  <2>2. CASE Meets(m, n, {"key"}) /\ "key" \in store.tables[m.tab].unique
    <3>1. m.owner = n.owner /\ m.key = n.key
      BY <2>2, MeetsBy
    <3>2. r.owner = s.owner /\ r.key = s.key /\ r.ref = s.ref
      BY <1>2, <1>3, <1>8, <2>2, <3>1
    <3>3. "key" \in store.tables[r.tab].unique
      BY <1>2, <2>2
    <3> QED BY <1>6, <1>7, <3>2, <3>3, MeetsBy
  <2>3. "key" \notin store.tables[m.tab].unique => "id" \in store.tables[m.tab].unique
    <3>1. m.tab \in {"kg_relations", "kg_memory_entities"}
      BY <1>2, <1>4
    <3> QED BY <1>1, <3>1, GraphUnique
  <2> QED BY <2>1, <2>2, <2>3, MeetsBy
<1> QED BY <1>2, <1>3, <1>9

(* also from what it leaves alone,                                         *)
LEMMA RewiredClear ==
    ASSUME RowsInv, LinksInv, UniqueInv, LocksInv, NEW t \in Threads, MergeWrites(t),
           NEW D \in SUBSET (db \ Read(t))
    PROVE  Clear(store.tables, D, Rewire(t))
<1> SUFFICES ASSUME NEW s \in D, NEW m \in Rewire(t), Meets(s, m, store.tables[s.tab].unique)
             PROVE  FALSE
  BY DEF Clear
<1>1. Graphs /\ Open(t) /\ Merges(tx[t].write) /\ kind = "graph" /\ tx[t].write = MergeEntities
  BY MergingKinds, MergeIs
<1>2. ~Meets(s, m, {"key"})
  BY MergeIs
<1>3. "id" \in store.tables[s.tab].unique /\ s.id = m.id /\ s.tab = m.tab
  BY <1>2, MeetsBy
<1>4. PICK r \in Read(t) : m.tab = r.tab /\ m.id = r.id
  BY <1>1, RewiredIs
<1>5. r \in tx[t].seen /\ r.tab \in {"kg_relations", "kg_memory_entities"}
  BY <1>1, OfTheSource
<1>6. r.tab = "kg_relations"
  BY <1>1, <1>3, <1>4, <1>5, GraphUnique
<1>7. r \in db
  BY <1>1, <1>5, <1>6, LockedIs DEF LocksInv
<1>8. Meets(s, r, store.tables[s.tab].unique)
  BY <1>3, <1>4, MeetsBy
<1> QED BY <1>7, <1>8 DEF UniqueInv, Unlike

(* so what it leaves is.                                                   *)
LEMMA MergeUnique ==
    ASSUME RowsInv, TypedInv, LinksInv, UniqueInv, LocksInv, NEW t \in Threads, MergeWrites(t)
    PROVE  Unlike(store.tables, db') /\ Clear(store.tables, db', pend)
<1> DEFINE D == Apart(t) \cup {End(t, 1)}
<1>1. kind = "graph" /\ Open(t) /\ tx[t].write = MergeEntities
  BY MergingKinds, MergeIs
<1>2. End(t, 1) \in tx[t].seen /\ End(t, 1).tab = "kg_entities"
  BY MergeIs
<1>3. End(t, 1) \in db \ Read(t)
  BY <1>1, <1>2, LockedIs DEF LocksInv, Read
<1>4. D \in SUBSET (db \ Read(t))
  BY <1>3 DEF Apart
<1>5. {End(t, 1)} \in SUBSET D /\ \A n \in Rewire(t) : InTheWay(n, pend) = {}
  BY MergeIs
<1>6. db' = Updated(D, {End(t, 1)}) \cup Rewire(t)
  BY MergeIs DEF Committed
<1> HIDE DEF D
<1>7. D \in SUBSET db
  BY <1>4
<1> QED BY <1>4, <1>5, <1>6, <1>7, RewiredUnlike, RewiredClear, CommitUnique

(* The local stores have no script.                                        *)
LEMMA LocalUnscripted == \A k \in DOMAIN Local : Kind[k].script = <<>>
<1> SUFFICES ASSUME NEW k \in DOMAIN Local PROVE Kind[k].script = <<>>
  OBVIOUS
<1>1. \E T, w : Kind[k] = Store(T, w, <<>>)
  BY KindsAre DEF Local
<1> QED BY <1>1 DEF Store

(* Stores without a migration have no rows of one.                         *)
LEMMA NoneCopied ==
    ASSUME FenceInv, RowsInv, Script = <<>>
    PROVE  pend = {} /\ mig.at = "none" /\ mig.left = {}
BY DEF FenceInv, RowsInv

(* The local merge moves a relation once;                                  *)
LEMMA MergeSourcesDiffer ==
    ASSUME RowsInv, UniqueInv, Graphs, kind = "local_graph", NEW t \in Threads,
           NEW r \in ReadNow(t), NEW s \in ReadNow(t), r.id = s.id
    PROVE  r = s
<1>1. r.tab = "kg_relations" /\ s.tab = "kg_relations"
  BY DEF ReadNow
<1>2. Meets(r, s, store.tables[r.tab].unique)
  BY <1>1, GraphUnique, MeetsBy
<1>3. CASE \E l \in Read(t) : l.tab = "kg_memory_entities"
  <2>1. r \in db /\ s \in db
    BY <1>3 DEF ReadNow
  <2> QED BY <1>2, <2>1 DEF UniqueInv, Unlike
<1>4. CASE ~\E l \in Read(t) : l.tab = "kg_memory_entities"
  <2>1. r \in tx[t].seen /\ s \in tx[t].seen
    BY <1>4 DEF ReadNow, Read
  <2> QED BY <1>2, <2>1 DEF UniqueInv, Unlike
<1> QED BY <1>3, <1>4

(* what it moves is told apart,                                            *)
LEMMA KeptUnlike ==
    ASSUME RowsInv, LinksInv, UniqueInv, NEW t \in Threads, LocalMergeWrites(t)
    PROVE  /\ Unlike(store.tables, Kept(t)) /\ Clear(store.tables, Rest(t), Kept(t))
           /\ \A m \in Kept(t) : m.tab = "kg_relations"
<1>1. Graphs /\ kind = "local_graph"
  BY MergingKinds
<1>2. ASSUME NEW m \in Kept(t)
      PROVE  m.tab = "kg_relations" /\ \E q \in db : q.tab = m.tab /\ q.id = m.id /\ q \notin Rest(t)
  <2>1. PICK r \in ReadNow(t), q \in Rows(Leaver, {"kg_relations"}) :
           q \notin Rest(t) /\ m.tab = q.tab /\ m.id = q.id
    <3>1. \E r \in ReadNow(t), q \in Rows(Leaver, {"kg_relations"}) :
             /\ q.id = r.id /\ q \notin Rest(t) /\ m = [q EXCEPT !.ref = Turned(t, r.ref)]
             /\ m.tab = q.tab /\ m.owner = q.owner /\ m.id = q.id /\ m.key = q.key
      BY <1>1, MovedIs
    <3> QED BY <3>1
  <2> QED BY <2>1 DEF Rows
<1>3. ASSUME NEW m \in Kept(t), NEW s \in Rest(t), Meets(s, m, store.tables[s.tab].unique)
      PROVE  FALSE
  <2>1. PICK q \in db : q.tab = m.tab /\ q.id = m.id /\ q \notin Rest(t)
    BY <1>2
  <2>2. s \in db /\ s.tab = m.tab
    BY <1>3, MeetsBy DEF Rest
  <2>3. store.tables[s.tab].unique = {"id"}
    BY <1>1, <1>2, <2>2, GraphUnique
  <2>4. s.id = q.id /\ s.tab = q.tab
    BY <1>3, <2>1, <2>2, <2>3, MeetsBy
  <2>5. Meets(s, q, store.tables[s.tab].unique)
    BY <2>3, <2>4, MeetsBy
  <2> QED BY <2>1, <2>2, <2>5 DEF UniqueInv, Unlike
<1>4. ASSUME NEW m \in Kept(t), NEW n \in Kept(t), Meets(m, n, store.tables[m.tab].unique)
      PROVE  m = n
  <2>1. store.tables[m.tab].unique = {"id"}
    BY <1>1, <1>2, GraphUnique
  <2>2. m.id = n.id
    BY <1>4, <2>1, MeetsBy
  <2>3. PICK r \in ReadNow(t), q \in Rows(Leaver, {"kg_relations"}) :
           q.id = r.id /\ m = [q EXCEPT !.ref = Turned(t, r.ref)] /\ m.id = q.id
    <3>1. \E r \in ReadNow(t), q \in Rows(Leaver, {"kg_relations"}) :
             /\ q.id = r.id /\ q \notin Rest(t) /\ m = [q EXCEPT !.ref = Turned(t, r.ref)]
             /\ m.tab = q.tab /\ m.owner = q.owner /\ m.id = q.id /\ m.key = q.key
      BY <1>1, MovedIs
    <3> HIDE DEF Turned
    <3> QED BY <3>1
  <2>4. PICK s \in ReadNow(t), p \in Rows(Leaver, {"kg_relations"}) :
           p.id = s.id /\ n = [p EXCEPT !.ref = Turned(t, s.ref)] /\ n.id = p.id
    <3>1. \E s \in ReadNow(t), p \in Rows(Leaver, {"kg_relations"}) :
             /\ p.id = s.id /\ p \notin Rest(t) /\ n = [p EXCEPT !.ref = Turned(t, s.ref)]
             /\ n.tab = p.tab /\ n.owner = p.owner /\ n.id = p.id /\ n.key = p.key
      BY <1>1, MovedIs
    <3> HIDE DEF Turned
    <3> QED BY <3>1
  <2>5. r = s
    <3>1. r.id = s.id
      BY <2>2, <2>3, <2>4
    <3> QED BY <1>1, <3>1, MergeSourcesDiffer
  <2>6. p = q
    <3>1. p \in db /\ q \in db /\ p.tab = "kg_relations" /\ q.tab = "kg_relations"
      BY DEF Rows
    <3>2. Meets(p, q, store.tables[p.tab].unique)
      <4>1. p.id = q.id
        BY <2>2, <2>3, <2>4
      <4> QED BY <1>1, <3>1, <4>1, GraphUnique, MeetsBy
    <3> QED BY <3>1, <3>2 DEF UniqueInv, Unlike
  <2> QED BY <2>3, <2>4, <2>5, <2>6
<1> QED BY <1>2, <1>3, <1>4 DEF Unlike, Clear

(* and what it links,                                                      *)
LEMMA LinksUnlike ==
    ASSUME RowsInv, LinksInv, UniqueInv, NEW t \in Threads, LocalMergeWrites(t)
    PROVE  /\ Unlike(store.tables, Links(t)) /\ Clear(store.tables, Rest(t), Links(t))
           /\ \A l \in Links(t) : l.tab = "kg_memory_entities"
<1>1. Graphs /\ kind = "local_graph" /\ Open(t) /\ Merges(tx[t].write)
  BY MergingKinds, LocalMergeIs
<1>2. store.tables["kg_memory_entities"].unique = {"key"}
  BY <1>1, GraphUnique
<1>3. ASSUME NEW l \in Links(t)
      PROVE  \E r \in Read(t) :
                /\ r.tab = "kg_memory_entities" /\ l = [r EXCEPT !.ref = {End(t, 1).id}]
                /\ l.tab = r.tab /\ l.owner = r.owner /\ l.key = r.key
  BY <1>1, RelinkedIs
<1>4. \A l \in Links(t) : l.tab = "kg_memory_entities"
  BY <1>3
<1>5. ASSUME NEW l \in Links(t), NEW s \in Rest(t) PROVE ~Meets(s, l, store.tables[s.tab].unique)
  <2>1. ~Meets(s, l, {"key"})
    BY LocalMergeIs
  <2>2. s.tab = l.tab => store.tables[s.tab].unique = {"key"}
    BY <1>2, <1>4
  <2> QED BY <2>1, <2>2, MeetsBy
<1>6. ASSUME NEW l \in Links(t), NEW m \in Links(t), Meets(l, m, store.tables[l.tab].unique)
      PROVE  l = m
  <2>1. PICK r \in Read(t) :
           /\ r.tab = "kg_memory_entities" /\ l = [r EXCEPT !.ref = {End(t, 1).id}]
           /\ l.tab = r.tab /\ l.owner = r.owner /\ l.key = r.key
    BY <1>3
  <2>2. PICK s \in Read(t) :
           /\ s.tab = "kg_memory_entities" /\ m = [s EXCEPT !.ref = {End(t, 1).id}]
           /\ m.tab = s.tab /\ m.owner = s.owner /\ m.key = s.key
    BY <1>3
  <2>3. r \in tx[t].seen /\ s \in tx[t].seen /\ r.ref = s.ref
    BY <1>1, <2>1, <2>2, OfTheSource
  <2>4. Meets(l, m, {"key"})
    BY <1>2, <1>4, <1>6
  <2>5. r.owner = s.owner /\ r.key = s.key
    <3>1. l.owner = m.owner /\ l.key = m.key
      BY <2>4, MeetsBy
    <3> QED BY <2>1, <2>2, <3>1
  <2>6. Meets(r, s, store.tables[r.tab].unique)
    BY <1>2, <2>1, <2>2, <2>3, <2>5, MeetsBy
  <2>7. r = s
    BY <2>3, <2>6 DEF UniqueInv, Unlike
  <2> QED BY <2>1, <2>2, <2>7
<1> QED BY <1>4, <1>5, <1>6 DEF Unlike, Clear

(* so what it leaves is.                                                   *)
LEMMA LocalMergeUnique ==
    ASSUME FenceInv, RowsInv, LinksInv, UniqueInv, NEW t \in Threads, LocalMergeWrites(t)
    PROVE  Unlike(store.tables, db') /\ Clear(store.tables, db', pend)
<1>1. pend = {}
  <2>1. kind \in DOMAIN Local
    BY MergingKinds, GraphsAre
  <2>2. Script = <<>>
    BY <2>1, LocalUnscripted DEF Script
  <2> QED BY <2>2, NoneCopied
<1>2. db' = Rest(t) \cup Kept(t) \cup Links(t)
  BY LocalMergeIs DEF Committed
<1>3. Unlike(store.tables, Rest(t))
  BY UnlikeParts DEF UniqueInv, Rest
<1> DEFINE T == store.tables
           K == Kept(t)
           L == Links(t)
           R == Rest(t)
<1>4. /\ Unlike(T, R) /\ Unlike(T, K) /\ Unlike(T, L) /\ Clear(T, R, K) /\ Clear(T, R, L)
      /\ \A m \in K : m.tab = "kg_relations"
      /\ \A l \in L : l.tab = "kg_memory_entities"
      /\ db' = R \cup K \cup L
  BY <1>2, <1>3, KeptUnlike, LinksUnlike
<1> HIDE DEF T, K, L, R
<1>5. Clear(T, K, L)
  BY <1>4 DEF Clear, Meets
<1>6. Unlike(T, R \cup K)
  BY <1>4, UnlikeUnion
<1>7. Clear(T, R \cup K, L)
  BY <1>4, <1>5 DEF Clear
<1>8. Unlike(T, (R \cup K) \cup L)
  BY <1>4, <1>6, <1>7, UnlikeUnion
<1>9. Unlike(store.tables, db')
  BY <1>4, <1>8 DEF T
<1> QED BY <1>1, <1>9 DEF Clear
================================================================================
