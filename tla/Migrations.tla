------------------------------- MODULE Migrations -------------------------------
(***************************************************************************)
(* The migration of a store's rows from the SQLite file to Postgres: the   *)
(* source is read and validated, then one target transaction locks its     *)
(* owners in order and replays the rows, statement by statement, beside    *)
(* the live writes.  It may be run again.                                  *)
(***************************************************************************)
EXTENDS TenantWrites

CONSTANT MaxRuns
ASSUME MaxRunsAssumption == MaxRuns \in Nat

VARIABLES
    mig,    \* the migration: where it is, for whom, rows left at this statement
    runs
migVars == <<mig, runs>>

NoRun == [at |-> "none", sel |-> {}, step |-> 0, left |-> {}, known |-> {}]
MigrationInit == mig = NoRun /\ runs = 0

Script == Kind[kind].script
Scripted == {Script[n][2] : n \in 1..Len(Script)}

(* The rows of the old file that a run is for.                             *)
Source(sel, tabs) ==
    {r \in OldRows(kind) : r.owner \in sel /\ r.tab \in tabs /\ ~Incompatible(r)}

(* What is in the target before the first migration.                       *)
Targets(k) ==
    LET scripted == {Kind[k].script[n][2] : n \in 1..Len(Kind[k].script)}
        rest == {r \in OldRows(k) : r.tab \notin scripted}
    IN IF scripted = {} THEN {rest} ELSE {rest, {}}

StartMigration ==
    \E sel \in IF kind \in OneTenant THEN {{Leaver}} ELSE {Owners, {Leaver}} :
       /\ mig.at = "none" /\ runs < MaxRuns /\ Script # <<>>
       /\ mig' = [NoRun EXCEPT !.at = "lock", !.sel = sel]
       /\ runs' = runs + 1 /\ overtaken' = FALSE
       /\ UNCHANGED <<store, db, seq, tx, pend, locks, fenced, settled, muddled, ops>>

Rollback ==
    /\ mig' = NoRun /\ pend' = {} /\ locks' = {}
    /\ UNCHANGED <<store, db, seq, tx, fenced, overtaken, settled, muddled, ops, runs>>

At(n) ==
    [mig EXCEPT !.at = "replay", !.step = n, !.left =
        IF n <= Len(Script) THEN Source(mig.sel, {Script[n][2]}) ELSE {}]

(* require_active_tenant of every owner, in sorted order.                  *)
LockOwner ==
    /\ mig.at = "lock"
    /\ LET left == mig.sel \ locks
           next == CHOOSE o \in left : \A p \in left : o <= p
       IN IF next = Leaver /\ fenced THEN Rollback
          ELSE /\ locks' = locks \cup {next}
               /\ mig' = IF left = {next} THEN At(1) ELSE mig
               /\ UNCHANGED <<store, db, seq, tx, pend, fenced, overtaken, settled, muddled, ops, runs>>

-----------------------------------------------------------------------------
(* The statements, one row at a time, in the order of the source's SELECT. *)
(* They see what is committed and their own rows.                          *)
Earlier(r, s) == r.owner < s.owner \/ (r.owner = s.owner /\ r.key < s.key)
Upcoming == {r \in mig.left : ~\E s \in mig.left : Earlier(s, r)}
Visible == db \cup pend
Turn(verb, r) ==
    /\ mig.at = "replay" /\ mig.step <= Len(Script)
    /\ Script[mig.step][1] = verb /\ r \in mig.left
Replayed(r, rows, known) ==
    /\ pend' = pend \cup rows
    /\ mig' = [mig EXCEPT !.left = @ \ {r}, !.known = @ \cup known]
    /\ UNCHANGED <<store, db, seq, tx, locks, fenced, overtaken, settled, muddled, ops, runs>>

(* Preflight: a row of the same identity must be the same row.             *)
Check(r) ==
    LET there == {s \in Visible : Meets(s, r, IF "id" \in Table(r.tab).unique THEN {"id"} ELSE {"key"})}
    IN /\ Turn("check", r)
       /\ IF there \subseteq {r} THEN Replayed(r, {}, there) ELSE Rollback

(* INSERT ... ON CONFLICT (covered) DO NOTHING; any other conflict, and a  *)
(* parent that a foreign key misses, ends the run.                         *)
Insert(r) ==
    LET covered == Script[mig.step][3]
        absent == ~\E s \in Visible : Meets(s, r, covered)
    IN /\ Turn("skip", r)
       /\ IF r \in mig.known \/ ~absent THEN Replayed(r, {}, {})
          ELSE IF InTheWay(r, Visible) # {} \/ Dangling(r, Visible) THEN Rollback
          ELSE Replayed(r, {r}, {})

(* Items go with the runs that were inserted, not with those skipped.      *)
InsertItem(r) ==
    /\ Turn("with", r)
    /\ Replayed(r, IF \E p \in pend : p.tab = Table(r.tab).parent /\ p.id \in r.ref THEN {r} ELSE {}, {})

(* Stages have no identity of their own: the ledger has one for them.      *)
Claim(r) ==
    [tab |-> "youtube_sqlite_migration_ledger", owner |-> r.owner, id |-> 1, key |-> r.key,
     ref |-> r.ref, body |-> "claimed"]
(* The id that the table gives a stage, above those of the live writes.    *)
StageId(o) == 100 + Leaver + MaxOps + 2 * runs + (IF o = Leaver THEN 1 ELSE 0)
(* Mutant of InsertOnce: the claim is not kept.                            *)
InsertOnceUnclaimed(r) ==
    /\ Turn("once", r)
    /\ Replayed(r, {[r EXCEPT !.id = StageId(r.owner)]}, {})
InsertOnce(r) ==
    /\ Turn("once", r)
    /\ Replayed(r, IF Claim(r) \in db THEN {}
                   ELSE {Claim(r), [r EXCEPT !.id = StageId(r.owner)]}, {})

(* A review is taken over only if the registry has its video already.      *)
InsertReview(r) ==
    /\ Turn("needs", r)
    /\ IF ~\E p \in db : p.tab = Table(r.tab).parent /\ p.owner = r.owner /\ p.id \in r.ref
       THEN Rollback
       ELSE Replayed(r, IF InTheWay(r, Visible) = {} THEN {r} ELSE {}, {})

(* Whatever was deleted meanwhile is missed at the end.                    *)
Parity(r) ==
    /\ Turn("parity", r)
    /\ IF \E s \in Visible : Meets(s, r, {"key"}) THEN Replayed(r, {}, {}) ELSE Rollback

(* setval above the largest id that is visible; sequences roll nothing     *)
(* back.                                                                   *)
SetSequence ==
    /\ mig.at = "replay" /\ mig.step <= Len(Script) /\ Script[mig.step][1] = "setval"
    /\ LET ids == {r.id : r \in Visible} IN
       seq' = IF ids = {} THEN 1 ELSE 1 + CHOOSE n \in ids : \A i \in ids : i <= n
    /\ mig' = At(mig.step + 1)
    /\ muddled' = (muddled \/ \E t \in Threads : Open(t))
    /\ UNCHANGED <<store, db, tx, pend, locks, fenced, overtaken, settled, ops, runs>>

NextStatement ==
    /\ mig.at = "replay" /\ mig.step <= Len(Script) /\ mig.left = {}
    /\ Script[mig.step][1] # "setval"
    /\ mig' = At(mig.step + 1)
    /\ UNCHANGED <<tableVars, runs>>

Finishing == mig.at = "replay" /\ mig.step = Len(Script) + 1
FinishMigration ==
    /\ Finishing
    /\ db' = Visible /\ pend' = {} /\ locks' = {} /\ mig' = NoRun
    /\ tx' = [t \in Threads |-> IF Open(t) THEN [tx[t] EXCEPT !.crossed = @ \/ pend # {}] ELSE Idle]
    /\ settled' = IF overtaken THEN {} ELSE settled \cup mig.sel
    /\ muddled' = (muddled \/ (kind = "events" /\ \E t \in Threads : Open(t)))
    /\ UNCHANGED <<store, seq, fenced, overtaken, ops, runs>>

MigrationStep ==
    \/ StartMigration \/ LockOwner \/ NextStatement \/ SetSequence \/ FinishMigration
    \/ \E r \in Upcoming :
          \/ Check(r) \/ Insert(r) \/ InsertItem(r) \/ InsertOnce(r)
          \/ InsertReview(r) \/ Parity(r)
=============================================================================
