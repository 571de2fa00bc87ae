------------------------------ MODULE PgProofs ------------------------------
(* Proofs about PgJobQueue for every set of jobs, items, workers, clients  *)
(* and requests and every bound: what the row locks and the erasure fence  *)
(* protect.                                                                *)
EXTENDS PgJobQueue, ItemCounts

USE ItemsAssumption, JobOfAssumption, AskedAssumption, ResultsAssumption,
    BoundsAssumption, NoneAssumption, NoneIsNoSession

-----------------------------------------------------------------------------
(* The strengthening: what an open transaction may rely on.                *)

(* A worker with something to report has an item.                          *)
WorkersHoldItems ==
    \A w \in Workers : wpc[w] \in {"working", "rescuing"} => witem[w] \in Items

(* Items exist only with their job.                                        *)
RowsMatch == \A i \in Items : ~HasRow(JobOf[i]) => istat[i] = "none"

(* A claim that has chosen its item holds it, and it is still open.        *)
ClaimFits(s) ==
    txn[s].op = "claim" /\ txn[s].step # 1
        => /\ txn[s].item \in Items /\ txn[s].job = JobOf[txn[s].item]
           /\ lock[ItemRow(txn[s].item)] = s
           /\ istat[txn[s].item] \in {"queued", "processing"}

(* A report that has locked its item finds it in progress until it ends.   *)
ReportFits(s) ==
    txn[s].op = "complete"
        => /\ txn[s].item \in Items /\ txn[s].job = JobOf[txn[s].item]
           /\ txn[s].result \in Outcomes
           /\ txn[s].step # 1 => /\ lock[ItemRow(txn[s].item)] = s
                                 /\ istat[txn[s].item] = "processing"

(* A request holds its job, which is there and is not a cancelled one.     *)
ControlFits(s) ==
    txn[s].op \in {"cancel", "retry", "delete"}
        => /\ txn[s].job \in Jobs
           /\ lock[JobRow(txn[s].job)] = s
           /\ HasRow(txn[s].job)
           /\ txn[s].op # "delete" => status[txn[s].job] # "cancelled"

CreateFits(s) ==
    txn[s].op = "create" => txn[s].job \in Jobs /\ status[txn[s].job] = "absent"

BeatFits(s) == txn[s].op = "beat" => txn[s].item \in Items

Fits(s) == ClaimFits(s) /\ ReportFits(s) /\ ControlFits(s) /\ CreateFits(s) /\ BeatFits(s)

(* A job is created once.                                                  *)
CreatesDiffer ==
    \A s, t \in Sessions : txn[s].op = "create" /\ txn[t].op = "create" /\ s # t
                             => txn[s].job # txn[t].job

(* Behind the fence nobody writes; behind the erasure there is no job.     *)
FenceInv ==
    /\ fenced => \A s \in Sessions : txn[s].op \in {"none", "delete", "erase"}
    /\ \A s \in Sessions : txn[s].op = "erase" => fenced
    /\ erased => fenced /\ \A j \in Jobs : ~HasRow(j)

IInv ==
    /\ TypeOK
    /\ WorkersHoldItems
    /\ RowsMatch
    /\ \A s \in Sessions : Fits(s)
    /\ CreatesDiffer
    /\ FenceInv
    /\ JobsCloseWithTheirItems

LEMMA NoSnapshotIsTyped == NoSnapshot \in Snapshots
BY DEF NoSnapshot, Snapshots

LEMMA NoTxnIsTyped == NoTxn \in Transactions
BY NoSnapshotIsTyped DEF NoTxn, Open, Transactions, Ops

LEMMA OpenIsTyped ==
    ASSUME NEW op \in Ops, NEW n \in 0..3, NEW j \in Jobs \cup {None},
           NEW i \in Items \cup {None}
    PROVE  /\ Open(op, n, j, i) \in Transactions
           /\ Open(op, n, j, i).op = op /\ Open(op, n, j, i).step = n
           /\ Open(op, n, j, i).job = j /\ Open(op, n, j, i).item = i
BY NoSnapshotIsTyped DEF Open, Transactions

(* The strengthened invariant holds initially.                             *)
LEMMA InitIInv == Init => IInv
<1> SUFFICES ASSUME Init PROVE IInv
  OBVIOUS
<1>1. \A s \in Sessions : txn[s] = NoTxn
  BY DEF Init
<1>2. TypeOK
  <2>1. txn \in [Sessions -> Transactions] /\ lock \in [Rows -> Sessions \cup {None}]
    BY NoTxnIsTyped DEF Init
  <2>2. tally \in [Jobs -> [Tallies -> Nat]]
    BY DEF Init
  <2>3. paused \in [Jobs -> BOOLEAN] /\ late \in [Items -> BOOLEAN]
    BY DEF Init
  <2>4. /\ status \in [Jobs -> Statuses]
        /\ istat \in [Items -> Tallies \cup {"none", "cancelled"}]
        /\ lease \in [Items -> Workers \cup {None}]
        /\ wpc \in [Workers -> {"idle", "working", "rescuing", "dead"}]
        /\ witem \in [Workers -> Items \cup {None}]
    BY DEF Init, Statuses
  <2>5. fenced \in BOOLEAN /\ erased \in BOOLEAN
    BY DEF Init
  <2>6. asks \in 0..MaxAsked /\ faults \in 0..MaxFaults
    BY DEF Init
  <2> QED BY <2>1, <2>2, <2>3, <2>4, <2>5, <2>6 DEF TypeOK
<1>3. \A s \in Sessions : Fits(s)
  BY <1>1 DEF NoTxn, Open, Fits, ClaimFits, ReportFits, ControlFits, CreateFits, BeatFits
<1>4. CreatesDiffer /\ FenceInv
  BY <1>1 DEF NoTxn, Open, CreatesDiffer, FenceInv, Init
<1>5. WorkersHoldItems /\ RowsMatch /\ JobsCloseWithTheirItems
  BY DEF Init, WorkersHoldItems, RowsMatch, JobsCloseWithTheirItems
<1> QED BY <1>2, <1>3, <1>4, <1>5 DEF IInv

-----------------------------------------------------------------------------
(* Locks: what session s does leaves the transactions and locks of the     *)
(* others alone.                                                           *)

Private(s) ==
    \A t \in Sessions : t # s => /\ txn'[t] = txn[t]
                                 /\ \A r \in Rows : lock[r] = t => lock'[r] = t

(* The first statement of a transaction takes only locks that are free.    *)
LEMMA BeginIsPrivate ==
    ASSUME TypeOK, NEW s \in Sessions, NEW t, NEW R, Begin(s, t, R)
    PROVE  /\ Private(s) /\ txn'[s] = t
           /\ \A r \in Rows : r \in R => lock'[r] = s
BY DEF Begin, Locking, Private, TypeOK

(* A later statement runs only when nobody else holds the locks it needs.  *)
LEMMA StatementIsPrivate ==
    ASSUME TypeOK, NEW s \in Sessions, MayRun(s), Statement(s)
    PROVE  /\ Private(s)
           /\ txn'[s] = [txn[s] EXCEPT !.step = @ + 1]
           /\ \A r \in Rows : r \in StatementRows(s) \/ lock[r] = s => lock'[r] = s
<1>1. \A r \in Rows : r \in StatementRows(s) => lock[r] \in {None, s}
  BY DEF MayRun, WaitsFor
<1> QED BY <1>1 DEF Statement, Locking, Private, TypeOK

(* A transaction that ends frees its own locks.                            *)
LEMMA EndIsPrivate ==
    ASSUME TypeOK, NEW s \in Sessions, End(s)
    PROVE  Private(s) /\ txn'[s] = NoTxn
BY DEF End, Private, TypeOK

(* The committed rows a session s may change without disturbing the others *)
(* are those that nobody else has locked.                                  *)
Careful(s) ==
    /\ \A i \in Items : \/ istat'[i] = istat[i]
                        \/ lock[ItemRow(i)] \in {None, s}
                        \/ istat[i] \notin {"queued", "processing"}
    /\ \A j \in Jobs : \/ status'[j] = status[j]
                       \/ HasRow(j) /\ lock[JobRow(j)] \in {None, s} /\ status'[j] # "absent"
                       \/ txn[s].op = "create" /\ txn[s].job = j

(* What the others' transactions rely on survives a careful step.          *)
LEMMA OthersFit ==
    ASSUME TypeOK, \A t \in Sessions : Fits(t), CreatesDiffer,
           NEW s \in Sessions, Private(s), Careful(s)
    PROVE  \A t \in Sessions : t # s => Fits(t)'
<1> SUFFICES ASSUME NEW t \in Sessions, t # s PROVE Fits(t)'
  OBVIOUS
<1>1. txn'[t] = txn[t] /\ Fits(t) /\ t # None
  BY DEF Private
<1>2. ClaimFits(t)'
  BY <1>1 DEF Fits, ClaimFits, Private, Careful, Rows
<1>3. ReportFits(t)'
  <2> SUFFICES ASSUME txn[t].op = "complete" PROVE ReportFits(t)'
    BY <1>1 DEF ReportFits
  <2>1. /\ txn[t].item \in Items /\ txn[t].job = JobOf[txn[t].item]
        /\ txn[t].result \in Outcomes
        /\ txn[t].step # 1 => /\ lock[ItemRow(txn[t].item)] = t
                              /\ istat[txn[t].item] = "processing"
    BY <1>1 DEF Fits, ReportFits
  <2>2. ASSUME txn[t].step # 1
        PROVE  lock'[ItemRow(txn[t].item)] = t /\ istat'[txn[t].item] = "processing"
    <3>1. ItemRow(txn[t].item) \in Rows
      BY <2>1 DEF Rows
    <3>2. lock[ItemRow(txn[t].item)] = t /\ istat[txn[t].item] = "processing"
      BY <2>1, <2>2
    <3> QED BY <1>1, <2>1, <3>1, <3>2 DEF Private, Careful
  <2> QED BY <1>1, <2>1, <2>2 DEF ReportFits
<1>4. ControlFits(t)'
  <2> SUFFICES ASSUME txn[t].op \in {"cancel", "retry", "delete"} PROVE ControlFits(t)'
    BY <1>1 DEF ControlFits
  <2>1. /\ txn[t].job \in Jobs /\ lock[JobRow(txn[t].job)] = t /\ HasRow(txn[t].job)
        /\ txn[t].op # "delete" => status[txn[t].job] # "cancelled"
    BY <1>1 DEF Fits, ControlFits
  <2>2. lock'[JobRow(txn[t].job)] = t
    BY <2>1 DEF Private, Rows
  <2>3. ~(txn[s].op = "create" /\ txn[s].job = txn[t].job)
    BY <2>1 DEF Fits, CreateFits, HasRow
  <2>4. status'[txn[t].job] = status[txn[t].job]
    BY <2>1, <2>3 DEF Careful
  <2> QED BY <1>1, <2>1, <2>2, <2>4 DEF ControlFits, HasRow
<1>5. CreateFits(t)'
  BY <1>1 DEF Fits, CreateFits, Careful, CreatesDiffer, HasRow
<1>6. BeatFits(t)'
  BY <1>1 DEF Fits, BeatFits
<1> QED BY <1>2, <1>3, <1>4, <1>5, <1>6 DEF Fits

(* A step that commits nothing others read is careful.                     *)
LEMMA SameRowsCareful ==
    ASSUME UNCHANGED <<status, istat>>, NEW s PROVE Careful(s)
BY DEF Careful

-----------------------------------------------------------------------------
(* The steps of a transaction that commit nothing.                         *)

TxnInv == (\A s \in Sessions : Fits(s)) /\ CreatesDiffer

LockTypes == /\ txn \in [Sessions -> Transactions]
             /\ lock \in [Rows -> Sessions \cup {None}]

(* The variables keep their types through a transaction's steps.           *)
LEMMA BeginTypes ==
    ASSUME TypeOK, NEW s \in Sessions, NEW t \in Transactions, NEW R, Begin(s, t, R)
    PROVE  LockTypes'
BY DEF Begin, Locking, LockTypes, TypeOK

LEMMA StepsAreTyped ==
    ASSUME NEW t \in Transactions, NEW n \in 0..3
    PROVE  [t EXCEPT !.step = n] \in Transactions
BY DEF Transactions

LEMMA StatementTypes ==
    ASSUME TypeOK, NEW s \in Sessions, txn[s].step \in 0..2, Statement(s)
    PROVE  LockTypes'
<1>1. [txn[s] EXCEPT !.step = @ + 1] \in Transactions
  <2>1. txn[s].step + 1 \in 0..3
    OBVIOUS
  <2>2. txn[s] \in Transactions
    BY DEF TypeOK
  <2>3. [txn[s] EXCEPT !.step = txn[s].step + 1] \in Transactions
    BY <2>1, <2>2, StepsAreTyped
  <2> QED BY <2>3
<1>2. txn' = [txn EXCEPT ![s] = [txn[s] EXCEPT !.step = @ + 1]]
  BY DEF Statement, TypeOK
<1>3. txn' \in [Sessions -> Transactions]
  BY <1>1, <1>2 DEF TypeOK
<1>4. lock' \in [Rows -> Sessions \cup {None}]
  BY DEF Statement, Locking, TypeOK
<1> QED BY <1>3, <1>4 DEF LockTypes

LEMMA EndTypes ==
    ASSUME TypeOK, NEW s \in Sessions, End(s) PROVE LockTypes'
BY NoTxnIsTyped DEF End, LockTypes, TypeOK

(* One session's careful step keeps what all transactions rely on, if its  *)
(* own transaction does.                                                   *)
LEMMA TxnStep ==
    ASSUME TypeOK, TxnInv, NEW s \in Sessions, Private(s), Careful(s), Fits(s)',
           \A t \in Sessions : t # s /\ txn'[s].op = "create" /\ txn[t].op = "create"
                                 => txn[t].job # txn'[s].job
    PROVE  TxnInv'
<1>1. \A t \in Sessions : Fits(t)'
  BY OthersFit DEF TxnInv
<1>2. CreatesDiffer'
  BY DEF TxnInv, CreatesDiffer, Private
<1> QED BY <1>1, <1>2 DEF TxnInv

(* A transaction that is over relies on nothing.                           *)
LEMMA NoTxnFits == ASSUME NEW s, txn'[s] = NoTxn PROVE Fits(s)'
BY DEF NoTxn, Open, Fits, ClaimFits, ReportFits, ControlFits, CreateFits, BeatFits

(* Between its first statement and its end a transaction goes on relying   *)
(* on what it found.                                                       *)
LEMMA StatementFits ==
    ASSUME TypeOK, TxnInv, NEW s \in Sessions, MayRun(s), Statement(s), txn[s].step = 2
    PROVE  Fits(s)'
<1>1. /\ txn'[s].op = txn[s].op /\ txn'[s].item = txn[s].item /\ txn'[s].job = txn[s].job
      /\ txn'[s].result = txn[s].result /\ txn'[s].step = 3
  <2>1. txn'[s] = [txn[s] EXCEPT !.step = @ + 1]
    BY StatementIsPrivate
  <2>2. txn[s] \in Transactions
    BY DEF TypeOK
  <2> QED BY <2>1, <2>2 DEF Transactions
<1>2. \A r \in Rows : lock[r] = s => lock'[r] = s
  BY StatementIsPrivate
<1>3. UNCHANGED <<status, istat>>
  BY DEF Statement, dbVars, jobVars, itemVars
<1>4. Fits(s)
  BY DEF TxnInv
<1>5. ClaimFits(s)' /\ ReportFits(s)'
  <2>0. \A i \in Items : lock[ItemRow(i)] = s => lock'[ItemRow(i)] = s
    BY <1>2 DEF Rows
  <2>1. ClaimFits(s)'
    <3>1. ClaimFits(s)
      BY <1>4 DEF Fits
    <3>2. txn[s].step # 1
      OBVIOUS
    <3> QED BY <1>1, <1>3, <2>0, <3>1, <3>2, Zenon DEF ClaimFits
  <2>2. ReportFits(s)'
    <3>1. ReportFits(s)
      BY <1>4 DEF Fits
    <3> QED BY <1>1, <1>3, <2>0, <3>1, Zenon DEF ReportFits
  <2> QED BY <2>1, <2>2
<1>6. ControlFits(s)' /\ CreateFits(s)' /\ BeatFits(s)'
  BY <1>1, <1>2, <1>3, <1>4 DEF Fits, ControlFits, CreateFits, BeatFits, HasRow, Rows
<1> QED BY <1>5, <1>6 DEF Fits

(* What a step that commits no status has to show.                         *)
LEMMA SameStatus ==
    ASSUME IInv, UNCHANGED <<status, istat, fenced, erased>>,
           NEW s \in Sessions, Private(s), Fits(s)',
           fenced => txn'[s].op \in {"none", "delete", "erase"},
           txn'[s].op = "erase" => fenced,
           \A t \in Sessions : t # s /\ txn'[s].op = "create" /\ txn[t].op = "create"
                                 => txn[t].job # txn'[s].job
    PROVE  TxnInv' /\ RowsMatch' /\ JobsCloseWithTheirItems' /\ FenceInv'
<1>1. TxnInv'
  BY SameRowsCareful, TxnStep DEF IInv, TxnInv
<1>2. RowsMatch' /\ JobsCloseWithTheirItems'
  BY DEF IInv, RowsMatch, HasRow, JobsCloseWithTheirItems, Unfinished, InState
<1>3. FenceInv'
  BY DEF IInv, FenceInv, Private, HasRow
<1> QED BY <1>1, <1>2, <1>3

LEMMA SameTransactions ==
    ASSUME IInv, UNCHANGED <<status, istat, fenced, erased, txn, lock>>
    PROVE  TxnInv' /\ RowsMatch' /\ JobsCloseWithTheirItems' /\ FenceInv'
<1>1. TxnInv'
  BY DEF IInv, TxnInv, CreatesDiffer, Fits, ClaimFits, ReportFits, ControlFits,
     CreateFits, BeatFits, HasRow
<1>2. RowsMatch' /\ JobsCloseWithTheirItems' /\ FenceInv'
  BY DEF IInv, RowsMatch, HasRow, JobsCloseWithTheirItems, Unfinished, InState, FenceInv
<1> QED BY <1>1, <1>2

(* The committed rows keep their types.                                    *)
RowTypes ==
    /\ status \in [Jobs -> Statuses] /\ paused \in [Jobs -> BOOLEAN]
    /\ tally \in [Jobs -> [Tallies -> Nat]]
    /\ istat \in [Items -> Tallies \cup {"none", "cancelled"}]
    /\ lease \in [Items -> Workers \cup {None}] /\ late \in [Items -> BOOLEAN]
    /\ fenced \in BOOLEAN /\ erased \in BOOLEAN

WorkTypes ==
    /\ wpc \in [Workers -> {"idle", "working", "rescuing", "dead"}]
    /\ witem \in [Workers -> Items \cup {None}]
    /\ asks \in 0..MaxAsked /\ faults \in 0..MaxFaults

LEMMA TypesTogether == RowTypes' /\ WorkTypes' /\ LockTypes' => TypeOK'
BY Zenon DEF TypeOK, RowTypes, WorkTypes, LockTypes

LEMMA SameRowTypes == ASSUME IInv, UNCHANGED dbVars PROVE RowTypes'
<1>1. UNCHANGED <<status, paused, tally, istat, lease, late, fenced, erased>>
  BY DEF dbVars, jobVars, itemVars
<1> QED BY <1>1, Zenon DEF IInv, TypeOK, RowTypes

LEMMA QuietStep ==
    ASSUME IInv, UNCHANGED dbVars, NEW s \in Sessions, Private(s), Fits(s)', LockTypes',
           fenced => txn'[s].op \in {"none", "delete", "erase"},
           txn'[s].op = "erase" => fenced,
           \A t \in Sessions : t # s /\ txn'[s].op = "create" /\ txn[t].op = "create"
                                 => txn[t].job # txn'[s].job,
           wpc' \in [Workers -> {"idle", "working", "rescuing", "dead"}],
           witem' \in [Workers -> Items \cup {None}],
           WorkersHoldItems', asks' \in 0..MaxAsked, faults' \in 0..MaxFaults
    PROVE  IInv'
<1>1. UNCHANGED <<status, istat, fenced, erased>>
  BY DEF dbVars, jobVars, itemVars
<1>2. TypeOK'
  BY SameRowTypes, TypesTogether DEF WorkTypes
<1> QED BY <1>1, <1>2, SameStatus DEF IInv, TxnInv

(* The three forms of such a step.                                         *)
LEMMA QuietBegin ==
    ASSUME IInv, NEW s \in Sessions, NEW t \in Transactions, NEW R, Begin(s, t, R),
           Fits(s)', fenced => t.op \in {"none", "delete", "erase"},
           t.op = "erase" => fenced,
           \A u \in Sessions : t.op = "create" /\ txn[u].op = "create"
                                 => txn[u].job # t.job,
           UNCHANGED workVars, asks' \in 0..MaxAsked, faults' \in 0..MaxFaults
    PROVE  IInv'
<1>1. TypeOK /\ UNCHANGED <<dbVars, wpc, witem>>
  BY DEF IInv, Begin, workVars
<1>2. Private(s) /\ txn'[s] = t /\ LockTypes'
  BY <1>1, BeginIsPrivate, BeginTypes
<1>3. WorkersHoldItems'
  BY <1>1 DEF IInv, WorkersHoldItems
<1> QED BY <1>1, <1>2, <1>3, QuietStep DEF TypeOK

LEMMA QuietStatement ==
    ASSUME IInv, NEW s \in Sessions, MayRun(s), Statement(s), txn[s].step = 2,
           txn[s].op # "create", UNCHANGED <<workVars, bounds>>
    PROVE  IInv'
<1>1. TypeOK /\ TxnInv /\ UNCHANGED <<dbVars, wpc, witem, asks, faults>>
  BY DEF IInv, TxnInv, Statement, workVars, bounds
<1>2. Private(s) /\ LockTypes' /\ Fits(s)'
  <2>1. txn[s].step \in 0..2
    OBVIOUS
  <2> QED BY <1>1, <2>1, StatementIsPrivate, StatementTypes, StatementFits
<1>3. txn'[s].op = txn[s].op
  <2>1. txn'[s] = [txn[s] EXCEPT !.step = @ + 1] /\ txn[s] \in Transactions
    BY <1>1, StatementIsPrivate DEF TypeOK
  <2> QED BY <2>1 DEF Transactions
<1>4. /\ WorkersHoldItems' /\ (fenced => txn[s].op \in {"none", "delete", "erase"})
      /\ txn[s].op = "erase" => fenced
  BY <1>1 DEF IInv, WorkersHoldItems, FenceInv
<1> QED BY <1>1, <1>2, <1>3, <1>4, QuietStep DEF TypeOK

LEMMA QuietEnd ==
    ASSUME IInv, UNCHANGED dbVars, NEW s \in Sessions, End(s),
           wpc' \in [Workers -> {"idle", "working", "rescuing", "dead"}],
           witem' \in [Workers -> Items \cup {None}],
           WorkersHoldItems', UNCHANGED bounds
    PROVE  IInv'
<1>1. TypeOK /\ UNCHANGED <<asks, faults>>
  BY DEF IInv, bounds
<1>2. Private(s) /\ txn'[s] = NoTxn /\ LockTypes' /\ Fits(s)'
  BY <1>1, EndIsPrivate, EndTypes, NoTxnFits
<1>3. NoTxn.op = "none"
  BY DEF NoTxn, Open
<1> QED BY <1>1, <1>2, <1>3, QuietStep DEF TypeOK

(* A worker that goes back to its loop.                                    *)
LEMMA IdleTypes ==
    ASSUME IInv, NEW w \in Workers, Idle(w)
    PROVE  /\ wpc' \in [Workers -> {"idle", "working", "rescuing", "dead"}]
           /\ witem' \in [Workers -> Items \cup {None}]
           /\ WorkersHoldItems'
BY DEF IInv, TypeOK, Idle, WorkersHoldItems

LEMMA SessionsAre ==
    /\ \A w \in Workers : Main(w) \in Sessions /\ Beat(w) \in Sessions
    /\ \A c \in Clients : Client(c) \in Sessions
    /\ Eraser \in Sessions
BY DEF Sessions

(* claim_next_item up to its last statement.                               *)
LEMMA ClaimingKeeps ==
    ASSUME IInv, NEW w \in Workers,
           BeginClaim(w) \/ ClaimNothing(w) \/ ClaimLease(w) \/ \E i \in Items : ClaimItem(w, i)
    PROVE  IInv'
<1> DEFINE s == Main(w)
<1>0. s \in Sessions /\ TypeOK /\ TxnInv
  BY SessionsAre DEF IInv, TxnInv
<1>1. CASE BeginClaim(w)
  <2> DEFINE open == {i \in Items : Eligible(JobOf[i])}
             seen == [queued  |-> {i \in open : istat[i] = "queued"},
                      expired |-> {i \in open : Expired(i)},
                      late    |-> {i \in open : late[i]}]
             t == [Open("claim", 1, None, None) EXCEPT !.seen = seen]
  <2>1. Begin(s, t, {})
    BY <1>1 DEF BeginClaim
  <2>2. t \in Transactions /\ t.op = "claim" /\ t.step = 1
    <3>1. seen \in Snapshots
      BY DEF Snapshots
    <3> HIDE DEF seen
    <3> QED BY <3>1, OpenIsTyped DEF Transactions, Ops, Open
  <2>3. txn'[s] = t
    BY <1>0, <2>1, BeginIsPrivate
  <2> HIDE DEF t
  <2>4. Fits(s)'
    BY <2>2, <2>3 DEF Fits, ClaimFits, ReportFits, ControlFits, CreateFits, BeatFits
  <2>5. ~fenced /\ UNCHANGED <<workVars, asks, faults>>
    BY <1>1 DEF BeginClaim, bounds
  <2> QED BY <1>0, <2>1, <2>2, <2>4, <2>5, QuietBegin DEF TypeOK
<1>2. CASE ClaimNothing(w)
  <2>1. End(s) /\ UNCHANGED <<dbVars, bounds, wpc, witem>>
    BY <1>2 DEF ClaimNothing, workVars
  <2>2. WorkersHoldItems'
    BY <2>1 DEF IInv, WorkersHoldItems
  <2> QED BY <1>0, <2>1, <2>2, QuietEnd DEF TypeOK
<1>3. CASE ClaimLease(w)
  BY <1>0, <1>3, QuietStatement DEF ClaimLease, InTxn
<1>4. ASSUME NEW i \in Items, ClaimItem(w, i) PROVE IInv'
  <2> DEFINE t == Open("claim", 2, JobOf[i], i)
  <2>1. /\ t \in Transactions /\ t.op = "claim" /\ t.step = 2 /\ t.item = i
        /\ t.job = JobOf[i]
    BY OpenIsTyped DEF Ops
  <2>2. /\ txn' = [txn EXCEPT ![s] = t]
        /\ lock' = [lock EXCEPT ![ItemRow(i)] = s]
        /\ UNCHANGED <<dbVars, wpc, witem, asks, faults>>
        /\ StillClaimable(txn[s].seen, i)
        /\ txn[s].op = "claim"
    BY <1>4 DEF ClaimItem, InTxn, workVars, bounds
  <2> HIDE DEF t
  <2>3. ItemRow(i) \in Rows
    BY DEF Rows
  <2>4. lock[ItemRow(i)] = None /\ istat[i] \in {"queued", "processing"}
    BY <2>2 DEF StillClaimable
  <2>5. Private(s) /\ txn'[s] = t /\ lock'[ItemRow(i)] = s
    BY <1>0, <2>2, <2>3, <2>4 DEF Private, TypeOK
  <2>6. LockTypes'
    BY <1>0, <2>1, <2>2 DEF LockTypes, TypeOK
  <2>7. Fits(s)'
    BY <2>1, <2>2, <2>4, <2>5 DEF Fits, ClaimFits, ReportFits, ControlFits, CreateFits,
       BeatFits, dbVars, itemVars
  <2>8. ~fenced /\ WorkersHoldItems'
    BY <1>0, <2>2 DEF IInv, FenceInv, WorkersHoldItems
  <2> QED BY <1>0, <2>1, <2>2, <2>5, <2>6, <2>7, <2>8, QuietStep DEF TypeOK
<1> QED BY <1>1, <1>2, <1>3, <1>4

(* _process_item up to the last statement of its report.                   *)
LEMMA ReportingKeeps ==
    ASSUME IInv, NEW w \in Workers,
           \/ ContextGone(w) \/ DiscardStale(w)
           \/ \E r \in Results \cup {"failed"} : BeginComplete(w, r)
           \/ CompleteItem(w) \/ CompleteLease(w)
    PROVE  IInv'
<1> DEFINE s == Main(w)
<1>0. s \in Sessions /\ TypeOK /\ TxnInv
  BY SessionsAre DEF IInv, TxnInv
<1>1. CASE ContextGone(w) \/ DiscardStale(w)
  <2>1. Idle(w) /\ UNCHANGED <<dbVars, txn, lock, bounds>>
    BY <1>1 DEF ContextGone, DiscardStale
  <2>2. TypeOK'
    <3>1. UNCHANGED <<txn, lock, asks, faults>>
      BY <2>1 DEF bounds
    <3>2. LockTypes' /\ asks' \in 0..MaxAsked /\ faults' \in 0..MaxFaults
      BY <1>0, <3>1 DEF TypeOK, LockTypes
    <3> QED BY <2>1, <3>2, SameRowTypes, IdleTypes, TypesTogether DEF WorkTypes
  <2>3. TxnInv' /\ RowsMatch' /\ JobsCloseWithTheirItems' /\ FenceInv'
    BY <2>1, SameTransactions DEF dbVars, jobVars, itemVars
  <2> QED BY <2>1, <2>2, <2>3, IdleTypes DEF IInv, TxnInv
<1>2. ASSUME NEW r \in Results \cup {"failed"}, BeginComplete(w, r) PROVE IInv'
  <2>1. PICK i \in Items : i = witem[w]
    BY <1>2 DEF BeginComplete, IInv, WorkersHoldItems
  <2> DEFINE t == [Open("complete", 1, JobOf[i], i) EXCEPT !.result = r]
  <2>2. t \in Transactions /\ t.op = "complete" /\ t.step = 1 /\ t.item = i
        /\ t.job = JobOf[i] /\ t.result = r /\ r \in Outcomes
    BY OpenIsTyped DEF Transactions, Ops, Open, Outcomes
  <2>3. Begin(s, t, {}) /\ ~fenced /\ UNCHANGED <<workVars, asks, faults>>
    BY <1>2, <2>1 DEF BeginComplete, bounds
  <2> HIDE DEF t
  <2>4. txn'[s] = t
    BY <1>0, <2>3, BeginIsPrivate
  <2>5. Fits(s)'
    BY <2>2, <2>4 DEF Fits, ClaimFits, ReportFits, ControlFits, CreateFits, BeatFits
  <2> QED BY <1>0, <2>2, <2>3, <2>5, QuietBegin DEF TypeOK
<1>3. CASE CompleteItem(w) /\ RowStill(txn[s].item)
  <2>1. /\ MayRun(s) /\ Statement(s) /\ txn[s].op = "complete" /\ txn[s].step = 1
        /\ UNCHANGED <<dbVars, workVars, bounds>>
    BY <1>3 DEF CompleteItem, InTxn, Statement
  <2>2. /\ txn'[s].op = "complete" /\ txn'[s].item = txn[s].item
        /\ txn'[s].job = txn[s].job /\ txn'[s].result = txn[s].result /\ txn'[s].step = 2
    <3>1. txn'[s] = [txn[s] EXCEPT !.step = @ + 1] /\ txn[s] \in Transactions
      BY <1>0, <2>1, StatementIsPrivate DEF TypeOK
    <3> QED BY <2>1, <3>1 DEF Transactions
  <2>3. /\ txn[s].item \in Items /\ txn[s].job = JobOf[txn[s].item]
        /\ txn[s].result \in Outcomes
    BY <1>0, <2>1 DEF TxnInv, Fits, ReportFits
  <2>4. ItemRow(txn[s].item) \in Rows /\ ItemRow(txn[s].item) \in StatementRows(s)
    BY <2>1, <2>3 DEF Rows, StatementRows, InTxn
  <2>5. Private(s) /\ LockTypes' /\ lock'[ItemRow(txn[s].item)] = s
    <3>1. txn[s].step \in 0..2
      BY <2>1
    <3> QED BY <1>0, <2>1, <2>4, <3>1, StatementIsPrivate, StatementTypes
  <2>6. istat'[txn[s].item] = "processing"
    BY <1>3, <2>1 DEF RowStill, dbVars, itemVars
  <2>7. Fits(s)'
    BY <2>2, <2>3, <2>5, <2>6 DEF Fits, ClaimFits, ReportFits, ControlFits, CreateFits,
       BeatFits
  <2>8. WorkersHoldItems' /\ ~fenced /\ UNCHANGED <<wpc, witem, asks, faults>>
    BY <1>0, <2>1 DEF IInv, WorkersHoldItems, FenceInv, workVars, bounds
  <2> QED BY <1>0, <2>1, <2>2, <2>5, <2>7, <2>8, QuietStep DEF TypeOK
<1>4. CASE CompleteItem(w) /\ ~RowStill(txn[s].item)
  <2>1. End(s) /\ Idle(w) /\ UNCHANGED <<dbVars, bounds>>
    BY <1>4 DEF CompleteItem
  <2> QED BY <1>0, <2>1, IdleTypes, QuietEnd
<1>5. CASE CompleteLease(w)
  BY <1>0, <1>5, QuietStatement DEF CompleteLease, InTxn
<1> QED BY <1>1, <1>2, <1>3, <1>4, <1>5

(* A transaction of the form Open(op, n, j, i) is the one its session has. *)
LEMMA OpenFits ==
    ASSUME NEW s, NEW op \in {"claim", "beat", "create", "erase"}, NEW n, NEW j, NEW i,
           txn'[s] = Open(op, n, j, i),
           op = "claim" => n = 1, op = "beat" => i \in Items,
           op = "create" => j \in Jobs /\ status'[j] = "absent"
    PROVE  Fits(s)'
BY DEF Open, Fits, ClaimFits, ReportFits, ControlFits, CreateFits, BeatFits

(* A heartbeat, and time.                                                  *)
LEMMA BeatingKeeps ==
    ASSUME IInv, NEW w \in Workers, BeatStep(w)
    PROVE  IInv'
<1> DEFINE s == Beat(w)
<1>0. s \in Sessions /\ TypeOK /\ TxnInv
  BY SessionsAre DEF IInv, TxnInv
<1>1. CASE BeatLease(w)
  <2>1. PICK i \in Items : i = witem[w]
    BY <1>1 DEF BeatLease, IInv, WorkersHoldItems
  <2> DEFINE t == Open("beat", 2, JobOf[i], i)
  <2>2. t \in Transactions /\ t.op = "beat"
    BY OpenIsTyped DEF Ops
  <2>3. Begin(s, t, {LeaseRow(i)}) /\ ~fenced /\ UNCHANGED <<workVars, asks, faults>>
    BY <1>1, <2>1 DEF BeatLease, bounds
  <2>4. Fits(s)'
    <3>1. txn'[s] = Open("beat", 2, JobOf[i], i)
      BY <1>0, <2>3, BeginIsPrivate
    <3> QED BY <3>1, OpenFits
  <2> HIDE DEF t
  <2> QED BY <1>0, <2>2, <2>3, <2>4, QuietBegin DEF TypeOK
<1>2. CASE BeatItem(w)
  BY <1>0, <1>2, QuietStatement DEF BeatItem, InTxn
<1>3. CASE BeatJob(w)
  <2>1. /\ End(s) /\ late' = [late EXCEPT ![txn[s].item] = FALSE]
        /\ UNCHANGED <<jobVars, istat, lease, fenced, erased, workVars, bounds>>
    BY <1>3 DEF BeatJob
  <2>2. UNCHANGED <<status, paused, tally, istat, lease, fenced, erased, wpc, witem,
                    asks, faults>>
    BY <2>1 DEF jobVars, workVars, bounds
  <2>3. late' \in [Items -> BOOLEAN]
    BY <1>0, <2>1 DEF TypeOK
  <2>4. TypeOK'
    <3>1. LockTypes'
      BY <1>0, <2>1, EndTypes
    <3>2. WorkTypes' /\ RowTypes'
      BY <1>0, <2>2, <2>3, Zenon DEF TypeOK, WorkTypes, RowTypes
    <3> QED BY <3>1, <3>2, TypesTogether
  <2>5. Private(s) /\ txn'[s] = NoTxn /\ Fits(s)'
    BY <1>0, <2>1, EndIsPrivate, NoTxnFits
  <2>6. NoTxn.op = "none"
    BY DEF NoTxn, Open
  <2>7. TxnInv' /\ RowsMatch' /\ JobsCloseWithTheirItems' /\ FenceInv'
    BY <1>0, <2>2, <2>5, <2>6, SameStatus
  <2>8. WorkersHoldItems'
    BY <2>2 DEF IInv, WorkersHoldItems
  <2> QED BY <2>4, <2>7, <2>8 DEF IInv, TxnInv
<1> QED BY <1>1, <1>2, <1>3 DEF BeatStep

LEMMA TimeKeeps ==
    ASSUME IInv, NEW i \in Items, LeaseRunsOut(i)
    PROVE  IInv'
<1>1. UNCHANGED <<status, paused, tally, istat, lease, fenced, erased, wpc, witem,
                  txn, lock, asks>>
  BY DEF LeaseRunsOut, jobVars, workVars
<1>2. late' \in [Items -> BOOLEAN]
  BY DEF LeaseRunsOut, IInv, TypeOK
<1>3. faults' \in 0..MaxFaults
  BY DEF LeaseRunsOut, IInv, TypeOK
<1>4. TypeOK'
  <2>1. RowTypes' /\ WorkTypes' /\ LockTypes'
    BY <1>1, <1>2, <1>3, Zenon DEF IInv, TypeOK, RowTypes, WorkTypes, LockTypes
  <2> QED BY <2>1, TypesTogether
<1>5. TxnInv' /\ RowsMatch' /\ JobsCloseWithTheirItems' /\ FenceInv'
  BY <1>1, SameTransactions
<1>6. WorkersHoldItems'
  BY <1>1 DEF IInv, WorkersHoldItems
<1> QED BY <1>4, <1>5, <1>6 DEF IInv, TxnInv

(* Requests up to their last statement, and those of one statement.        *)
LEMMA AskingKeeps ==
    ASSUME IInv, NEW c \in Clients, NEW j \in Jobs,
           \/ BeginCreate(c, j) \/ DeleteLeases(c)
           \/ \E op \in Requests : LockJob(c, op, j) \/ SetPaused(c, op, j)
    PROVE  IInv'
<1> DEFINE s == Client(c)
<1>0. s \in Sessions /\ TypeOK /\ TxnInv
  BY SessionsAre DEF IInv, TxnInv
<1>1. CASE BeginCreate(c, j)
  <2> DEFINE t == Open("create", 1, j, None)
  <2>1. t \in Transactions /\ t.op = "create" /\ t.job = j
    <3>1. "create" \in Ops /\ 1 \in 0..3
      BY DEF Ops, Requests
    <3>2. j \in Jobs \cup {None} /\ None \in Items \cup {None}
      OBVIOUS
    <3> QED BY <3>1, <3>2, NoSnapshotIsTyped DEF Open, Transactions
  <2>2. /\ Begin(s, t, {}) /\ ~fenced /\ UNCHANGED workVars
        /\ asks' \in 0..MaxAsked /\ faults' \in 0..MaxFaults
    BY <1>0, <1>1 DEF BeginCreate, Ask, TypeOK
  <2>3. status[j] = "absent" /\ status' = status /\ \A u \in Sessions : txn[u].job # j
    BY <1>1, <2>2 DEF BeginCreate, Begin, dbVars, jobVars
  <2>4. Fits(s)'
    <3>1. txn'[s] = Open("create", 1, j, None)
      BY <1>0, <2>2, BeginIsPrivate
    <3> QED BY <2>3, <3>1, OpenFits
  <2> HIDE DEF t
  <2> QED BY <1>0, <2>1, <2>2, <2>3, <2>4, QuietBegin
<1>2. CASE DeleteLeases(c)
  BY <1>0, <1>2, QuietStatement DEF DeleteLeases, InTxn
<1>3. ASSUME NEW op \in Requests, LockJob(c, op, j) PROVE IInv'
  <2> DEFINE t == Open(op, 2, j, None)
  <2>1. t \in Transactions /\ t.op = op /\ t.job = j
    <3>1. op \in Ops /\ 2 \in 0..3
      BY DEF Ops, Requests
    <3>2. j \in Jobs \cup {None} /\ None \in Items \cup {None}
      OBVIOUS
    <3> QED BY <3>1, <3>2, NoSnapshotIsTyped DEF Open, Transactions
  <2>2. /\ Begin(s, t, {JobRow(j)}) /\ UNCHANGED workVars
        /\ op \in {"cancel", "retry", "delete"} /\ (fenced => op = "delete")
        /\ asks' \in 0..MaxAsked /\ faults' \in 0..MaxFaults
        /\ ~Refused(op, j)
    BY <1>0, <1>3 DEF LockJob, Ask, TypeOK
  <2>3. status' = status /\ HasRow(j) /\ (op # "delete" => status[j] # "cancelled")
    BY <2>2 DEF Begin, Refused, dbVars, jobVars
  <2>4. txn'[s] = t /\ lock'[JobRow(j)] = s
    BY <1>0, <2>2, BeginIsPrivate DEF Rows
  <2> HIDE DEF t
  <2>5. Fits(s)'
    BY <2>1, <2>2, <2>3, <2>4 DEF Fits, ClaimFits, ReportFits, ControlFits, CreateFits,
       BeatFits, HasRow
  <2> QED BY <1>0, <2>1, <2>2, <2>5, QuietBegin
<1>4. ASSUME NEW op \in Requests, SetPaused(c, op, j) PROVE IInv'
  <2>1. UNCHANGED <<status, tally, istat, lease, late, fenced, erased, wpc, witem,
                    txn, lock, faults>>
    BY <1>4 DEF SetPaused, itemVars, workVars
  <2>2. paused' \in [Jobs -> BOOLEAN] /\ asks' \in 0..MaxAsked
    <3>1. paused' = [paused EXCEPT ![j] = (op = "pause")]
      BY <1>4 DEF SetPaused
    <3>2. paused' \in [Jobs -> BOOLEAN]
      BY <1>0, <3>1 DEF TypeOK
    <3>3. asks' \in 0..MaxAsked
      BY <1>0, <1>4 DEF SetPaused, Ask, TypeOK
    <3> QED BY <3>2, <3>3
  <2>3. TypeOK'
    <3>1. RowTypes' /\ WorkTypes' /\ LockTypes'
      BY <1>0, <2>1, <2>2, Zenon DEF TypeOK, RowTypes, WorkTypes, LockTypes
    <3> QED BY <3>1, TypesTogether
  <2>4. TxnInv' /\ RowsMatch' /\ JobsCloseWithTheirItems' /\ FenceInv'
    BY <2>1, SameTransactions
  <2>5. WorkersHoldItems'
    BY <2>1 DEF IInv, WorkersHoldItems
  <2> QED BY <2>3, <2>4, <2>5 DEF IInv, TxnInv
<1> QED BY <1>1, <1>2, <1>3, <1>4

(* The erasure up to its last statement.                                   *)
LEMMA ErasingKeeps ==
    ASSUME IInv, Fence \/ EraseLeases \/ EraseItems
    PROVE  IInv'
<1> DEFINE s == Eraser
<1>0. s \in Sessions /\ TypeOK /\ TxnInv
  BY SessionsAre DEF IInv, TxnInv
<1>1. CASE Fence
  <2>1. /\ UNCHANGED <<status, paused, tally, istat, lease, late, erased, wpc, witem,
                       txn, lock, asks, faults>>
        /\ fenced' = TRUE /\ Writers = {}
    BY <1>1 DEF Fence, jobVars, itemVars, workVars, bounds
  <2>2. TypeOK'
    <3>1. RowTypes' /\ WorkTypes' /\ LockTypes'
      BY <1>0, <2>1, Zenon DEF TypeOK, RowTypes, WorkTypes, LockTypes
    <3> QED BY <3>1, TypesTogether
  <2>3. FenceInv'
    BY <2>1 DEF IInv, FenceInv, Writers, HasRow
  <2>4. TxnInv' /\ WorkersHoldItems' /\ RowsMatch' /\ JobsCloseWithTheirItems'
    <3>1. TxnInv'
      BY <1>0, <2>1 DEF TxnInv, CreatesDiffer, Fits, ClaimFits, ReportFits, ControlFits,
         CreateFits, BeatFits, HasRow
    <3> QED BY <2>1, <3>1 DEF IInv, WorkersHoldItems, RowsMatch, HasRow,
               JobsCloseWithTheirItems, Unfinished, InState
  <2> QED BY <2>2, <2>3, <2>4 DEF IInv, TxnInv
<1>2. CASE EraseLeases
  <2> DEFINE t == Open("erase", 2, None, None)
             R == {LeaseRow(i) : i \in {k \in Items : lease[k] # None}}
  <2>1. t \in Transactions /\ t.op = "erase"
    <3>1. "erase" \in Ops /\ 2 \in 0..3
      BY DEF Ops, Requests
    <3>2. None \in Jobs \cup {None} /\ None \in Items \cup {None}
      OBVIOUS
    <3> QED BY <3>1, <3>2, NoSnapshotIsTyped DEF Open, Transactions
  <2>2. Begin(s, t, R) /\ fenced /\ UNCHANGED <<workVars, asks, faults>>
    BY <1>2 DEF EraseLeases, bounds
  <2>3. Fits(s)'
    <3>1. txn'[s] = Open("erase", 2, None, None)
      BY <1>0, <2>2, BeginIsPrivate
    <3> QED BY <3>1, OpenFits
  <2> HIDE DEF t, R
  <2> QED BY <1>0, <2>1, <2>2, <2>3, QuietBegin DEF TypeOK
<1>3. CASE EraseItems
  BY <1>0, <1>3, QuietStatement DEF EraseItems, InTxn
<1> QED BY <1>1, <1>2, <1>3

(* Failures.                                                               *)
LEMMA FailingKeeps ==
    ASSUME IInv, (\E s \in Sessions : Abort(s)) \/ (\E w \in Workers : WorkerDies(w))
    PROVE  IInv'
<1>0. TypeOK /\ TxnInv
  BY DEF IInv, TxnInv
<1>1. ASSUME NEW s \in Sessions, Abort(s) PROVE IInv'
  <2>1. End(s) /\ UNCHANGED <<dbVars, bounds>>
    BY <1>1 DEF Abort
  <2>2. CASE UNCHANGED workVars
    <3>1. UNCHANGED <<wpc, witem>>
      BY <2>2 DEF workVars
    <3>2. WorkersHoldItems'
      BY <3>1 DEF IInv, WorkersHoldItems
    <3> QED BY <1>0, <2>1, <3>1, <3>2, QuietEnd DEF TypeOK
  <2>3. CASE wpc[s[2]] = "working" /\ wpc' = [wpc EXCEPT ![s[2]] = "rescuing"]
             /\ UNCHANGED witem
    <3>1. wpc' \in [Workers -> {"idle", "working", "rescuing", "dead"}]
      BY <1>0, <2>3 DEF TypeOK
    <3>2. WorkersHoldItems'
      BY <1>0, <2>3 DEF IInv, TypeOK, WorkersHoldItems
    <3> QED BY <1>0, <2>1, <2>3, <3>1, <3>2, QuietEnd DEF TypeOK
  <2>4. CASE Idle(s[2])
    <3>1. /\ wpc' \in [Workers -> {"idle", "working", "rescuing", "dead"}]
          /\ witem' \in [Workers -> Items \cup {None}]
      BY <1>0, <2>4 DEF Idle, TypeOK
    <3>2. WorkersHoldItems'
      BY <1>0, <2>4 DEF Idle, IInv, TypeOK, WorkersHoldItems
    <3> QED BY <2>1, <3>1, <3>2, QuietEnd
  <2> QED BY <1>1, <2>2, <2>3, <2>4 DEF Abort
<1>2. ASSUME NEW w \in Workers, WorkerDies(w) PROVE IInv'
  <2>1. /\ UNCHANGED <<status, paused, tally, istat, lease, late, fenced, erased, asks>>
        /\ wpc' = [wpc EXCEPT ![w] = "dead"] /\ witem' = [witem EXCEPT ![w] = None]
        /\ faults < MaxFaults /\ faults' = faults + 1
    BY <1>2 DEF WorkerDies, dbVars, jobVars, itemVars
  <2>2. \A t \in Sessions : \/ txn'[t] = NoTxn
                            \/ /\ txn'[t] = txn[t]
                               /\ \A r \in Rows : lock[r] = t => lock'[r] = t
    BY <1>0, <1>2, SessionsAre DEF WorkerDies, TypeOK
  <2>3. LockTypes'
    <3>1. txn' \in [Sessions -> Transactions]
      BY <1>0, <1>2, NoTxnIsTyped DEF WorkerDies, TypeOK
    <3>2. lock' \in [Rows -> Sessions \cup {None}]
      BY <1>0, <1>2 DEF WorkerDies, TypeOK
    <3> QED BY <3>1, <3>2 DEF LockTypes
  <2>4. TypeOK' /\ WorkersHoldItems'
    <3>1. RowTypes'
      BY <1>0, <2>1, Zenon DEF TypeOK, RowTypes
    <3>2. WorkTypes'
      BY <1>0, <2>1 DEF TypeOK, WorkTypes
    <3>3. WorkersHoldItems'
      BY <1>0, <2>1 DEF TypeOK, IInv, WorkersHoldItems
    <3> QED BY <2>3, <3>1, <3>2, <3>3, TypesTogether
  <2>5. \A t \in Sessions : Fits(t)'
    <3> TAKE t \in Sessions
    <3>1. CASE txn'[t] = NoTxn
      BY <3>1, NoTxnFits
    <3>2. CASE txn'[t] = txn[t] /\ \A r \in Rows : lock[r] = t => lock'[r] = t
      <4>1. Fits(t)
        BY <1>0 DEF TxnInv
      <4>2. ClaimFits(t)' /\ CreateFits(t)' /\ BeatFits(t)'
        BY <2>1, <3>2, <4>1 DEF Fits, ClaimFits, CreateFits, BeatFits, Rows
      <4>3. ReportFits(t)' /\ ControlFits(t)'
        BY <2>1, <3>2, <4>1 DEF Fits, ReportFits, ControlFits, HasRow, Rows
      <4> QED BY <4>2, <4>3 DEF Fits
    <3> QED BY <2>2, <3>1, <3>2
  <2>6. CreatesDiffer' /\ FenceInv'
    <3>1. NoTxn.op = "none"
      BY DEF NoTxn, Open
    <3> QED BY <1>0, <2>1, <2>2, <3>1 DEF TxnInv, CreatesDiffer, IInv, FenceInv, HasRow
  <2>7. RowsMatch' /\ JobsCloseWithTheirItems'
    BY <2>1 DEF IInv, RowsMatch, HasRow, JobsCloseWithTheirItems, Unfinished, InState
  <2> QED BY <2>4, <2>5, <2>6, <2>7 DEF IInv
<1> QED BY <1>1, <1>2

-----------------------------------------------------------------------------
(* The statements that commit.                                             *)

(* What such a step has to show.                                           *)
LEMMA CommitStep ==
    ASSUME IInv, NEW s \in Sessions, End(s), Careful(s), RowTypes', WorkTypes',
           WorkersHoldItems', RowsMatch', JobsCloseWithTheirItems',
           fenced' = fenced, erased' => fenced' /\ \A j \in Jobs : ~HasRow(j)'
    PROVE  IInv'
<1>1. TypeOK /\ TxnInv
  BY DEF IInv, TxnInv
<1>2. Private(s) /\ txn'[s] = NoTxn /\ Fits(s)' /\ LockTypes'
  BY <1>1, EndIsPrivate, EndTypes, NoTxnFits
<1>3. NoTxn.op = "none"
  BY DEF NoTxn, Open
<1>4. TypeOK'
  BY <1>2, TypesTogether
<1>5. TxnInv'
  BY <1>1, <1>2, <1>3, TxnStep
<1>6. FenceInv'
  BY <1>2, <1>3 DEF IInv, FenceInv, Private
<1> QED BY <1>4, <1>5, <1>6 DEF IInv, TxnInv

(* A step that touches one job and its items leaves the others as they are. *)
LEMMA OneJobCloses ==
    ASSUME IInv, NEW j \in Jobs,
           \A i \in Items : JobOf[i] # j => istat'[i] = istat[i],
           \A k \in Jobs : k # j => status'[k] = status[k],
           status'[j] \in {"absent", "deleted"} => \A i \in ItemsOf(j) : istat'[i] = "none",
           status'[j] = "completed"
             => \A i \in ItemsOf(j) : istat'[i] \notin {"queued", "processing"},
           status'[j] = "running"
             => \E i \in ItemsOf(j) : istat'[i] \in {"queued", "processing"},
           status'[j] = "cancelled" => \A i \in ItemsOf(j) : istat'[i] # "queued"
    PROVE  RowsMatch' /\ JobsCloseWithTheirItems'
<1>1. RowsMatch'
  BY DEF IInv, RowsMatch, HasRow, ItemsOf
<1>2. ASSUME NEW k \in Jobs
      PROVE  /\ status'[k] = "completed" => Unfinished(k)' = {}
             /\ status'[k] = "running"   => Unfinished(k)' # {}
             /\ status'[k] = "cancelled" => InState(k, "queued")' = {}
  <2>1. CASE k = j
    BY <2>1 DEF Unfinished, InState
  <2>2. CASE k # j
    <3>1. \A i \in ItemsOf(k) : istat'[i] = istat[i]
      BY <2>2 DEF ItemsOf
    <3>2. ASSUME NEW t PROVE InState(k, t)' = InState(k, t)
      BY <3>1 DEF InState
    <3>3. Unfinished(k)' = Unfinished(k) /\ InState(k, "queued")' = InState(k, "queued")
      BY <3>2 DEF Unfinished
    <3> QED BY <2>2, <3>3 DEF IInv, JobsCloseWithTheirItems
  <2> QED BY <2>1, <2>2
<1> QED BY <1>1, <1>2 DEF JobsCloseWithTheirItems

(* A statement runs when nobody else holds its rows.                       *)
LEMMA MayRunLocks ==
    ASSUME NEW s, MayRun(s)
    PROVE  \A r \in StatementRows(s) : lock[r] \in {None, s}
BY DEF MayRun, WaitsFor

(* What a claim finds and does when it commits: a queued item still counts *)
(* for a job that is open, because no cancel gets past the item's lock.    *)
LEMMA ClaimFacts ==
    ASSUME IInv, NEW w \in Workers, ClaimJob(w)
    PROVE  \E i \in Items :
              /\ i = txn[Main(w)].item /\ lock[ItemRow(i)] = Main(w)
              /\ istat[i] \in {"queued", "processing"}
              /\ istat' = [istat EXCEPT ![i] = "processing"]
              /\ HasRow(JobOf[i]) /\ status[JobOf[i]] # "completed"
              /\ istat[i] = "queued" => Live(JobOf[i])
              /\ Live(JobOf[i]) => lock[JobRow(JobOf[i])] \in {None, Main(w)}
              /\ status' = IF Live(JobOf[i])
                           THEN [status EXCEPT ![JobOf[i]] = "running"] ELSE status
              /\ tally' = IF Live(JobOf[i]) /\ istat[i] = "queued"
                          THEN [tally EXCEPT ![JobOf[i]]["processing"] = @ + 1,
                                             ![JobOf[i]]["queued"] = Less1(@)]
                          ELSE tally
<1> DEFINE s == Main(w)
           i == txn[s].item
<1>1. s \in Sessions
  BY SessionsAre
<1>2. txn[s].op = "claim" /\ txn[s].step = 3 /\ MayRun(s)
  BY DEF ClaimJob, InTxn
<1>3. /\ i \in Items /\ txn[s].job = JobOf[i]
      /\ lock[ItemRow(i)] = s /\ istat[i] \in {"queued", "processing"}
  BY <1>1, <1>2 DEF IInv, Fits, ClaimFits
<1>4. HasRow(JobOf[i])
  BY <1>3 DEF IInv, RowsMatch
<1>5. i \in ItemsOf(JobOf[i]) /\ JobOf[i] \in Jobs
  BY <1>3 DEF ItemsOf
<1>6. status[JobOf[i]] # "completed" /\ (istat[i] = "queued" => status[JobOf[i]] # "cancelled")
  BY <1>3, <1>5 DEF IInv, JobsCloseWithTheirItems, Unfinished, InState
<1>7. istat[i] = "queued" => Live(JobOf[i])
  <2>1. status[JobOf[i]] \in Statuses
    BY <1>5 DEF IInv, TypeOK
  <2> QED BY <1>4, <1>6, <2>1 DEF Live, HasRow, Statuses
<1>8. Live(JobOf[i]) => lock[JobRow(JobOf[i])] \in {None, s}
  <2>1. Live(JobOf[i]) => JobRow(JobOf[i]) \in StatementRows(s)
    BY <1>2, <1>3 DEF StatementRows, InTxn
  <2> QED BY <1>2, <2>1, MayRunLocks
<1>9. /\ istat' = [istat EXCEPT ![i] = "processing"]
      /\ status' = IF Live(JobOf[i]) THEN [status EXCEPT ![JobOf[i]] = "running"] ELSE status
      /\ tally' = IF Live(JobOf[i]) /\ istat[i] = "queued"
                  THEN [tally EXCEPT ![JobOf[i]]["processing"] = @ + 1,
                                     ![JobOf[i]]["queued"] = Less1(@)]
                  ELSE tally
  BY <1>3 DEF ClaimJob
<1>10. i = txn[Main(w)].item /\ s = Main(w)
  OBVIOUS
<1> HIDE DEF i, s
<1> QED BY <1>3, <1>4, <1>6, <1>7, <1>8, <1>9, <1>10, Zenon

(* What a report finds and does when it commits.                           *)
LEMMA ReportFacts ==
    ASSUME IInv, NEW w \in Workers, CompleteJob(w)
    PROVE  \E i \in Items, r \in Outcomes :
              /\ i = txn[Main(w)].item /\ lock[ItemRow(i)] = Main(w)
              /\ istat[i] = "processing"
              /\ istat' = [istat EXCEPT ![i] = r]
              /\ HasRow(JobOf[i]) /\ lock[JobRow(JobOf[i])] \in {None, Main(w)}
              /\ status' = IF LastOpen(i) /\ status[JobOf[i]] # "cancelled"
                           THEN [status EXCEPT ![JobOf[i]] = "completed"] ELSE status
              /\ tally' = [tally EXCEPT ![JobOf[i]]["processing"] = Less1(@),
                                        ![JobOf[i]][r] = @ + 1]
<1> DEFINE s == Main(w)
           i == txn[s].item
<1>1. s \in Sessions
  BY SessionsAre
<1>2. txn[s].op = "complete" /\ txn[s].step = 3 /\ MayRun(s)
  BY DEF CompleteJob, InTxn
<1>3. /\ i \in Items /\ txn[s].job = JobOf[i] /\ txn[s].result \in Outcomes
      /\ lock[ItemRow(i)] = s /\ istat[i] = "processing"
  BY <1>1, <1>2 DEF IInv, Fits, ReportFits
<1>4. HasRow(JobOf[i])
  BY <1>3 DEF IInv, RowsMatch
<1>5. lock[JobRow(JobOf[i])] \in {None, s}
  <2>1. JobRow(JobOf[i]) \in StatementRows(s)
    BY <1>2, <1>3, <1>4 DEF StatementRows, InTxn
  <2> QED BY <1>2, <2>1, MayRunLocks
<1> QED BY <1>3, <1>4, <1>5 DEF CompleteJob

LEMMA ClaimKeeps ==
    ASSUME IInv, NEW w \in Workers, ClaimJob(w) PROVE IInv'
<1> DEFINE s == Main(w)
<1>0. s \in Sessions /\ TypeOK /\ End(s)
  BY SessionsAre DEF IInv, ClaimJob
<1>1. PICK i \in Items :
         /\ i = txn[s].item /\ lock[ItemRow(i)] = s
         /\ istat[i] \in {"queued", "processing"}
         /\ istat' = [istat EXCEPT ![i] = "processing"]
         /\ HasRow(JobOf[i]) /\ status[JobOf[i]] # "completed"
         /\ istat[i] = "queued" => Live(JobOf[i])
         /\ Live(JobOf[i]) => lock[JobRow(JobOf[i])] \in {None, s}
         /\ status' = IF Live(JobOf[i])
                      THEN [status EXCEPT ![JobOf[i]] = "running"] ELSE status
         /\ tally' = IF Live(JobOf[i]) /\ istat[i] = "queued"
                     THEN [tally EXCEPT ![JobOf[i]]["processing"] = @ + 1,
                                        ![JobOf[i]]["queued"] = Less1(@)]
                     ELSE tally
  BY ClaimFacts
<1>2. PICK j \in Jobs : j = JobOf[i]
  OBVIOUS
<1>3. /\ lease' = [lease EXCEPT ![i] = w] /\ late' = [late EXCEPT ![i] = FALSE]
      /\ wpc' = [wpc EXCEPT ![w] = "working"] /\ witem' = [witem EXCEPT ![w] = i]
      /\ UNCHANGED <<paused, fenced, erased, asks, faults>>
  BY <1>1 DEF ClaimJob, bounds
<1>4. Careful(s)
  BY <1>0, <1>1, <1>2 DEF Careful, TypeOK
<1>5. RowTypes'
  <2>1. tally' \in [Jobs -> [Tallies -> Nat]]
    <3>1. CASE Live(j) /\ istat[i] = "queued"
      <4>1. tally' = [tally EXCEPT ![j]["processing"] = @ + 1, ![j]["queued"] = Less1(@)]
        BY <1>1, <1>2, <3>1
      <4>2. tally[j] \in [Tallies -> Nat]
        BY <1>0 DEF TypeOK
      <4>3. [tally[j] EXCEPT !["processing"] = @ + 1, !["queued"] = Less1(@)]
              \in [Tallies -> Nat]
        BY <4>2 DEF Tallies, Outcomes, Less1
      <4>4. tally' = [tally EXCEPT ![j] = [tally[j] EXCEPT !["processing"] = @ + 1,
                                                        !["queued"] = Less1(@)]]
        BY <1>0, <4>1 DEF TypeOK
      <4> QED BY <1>0, <4>3, <4>4 DEF TypeOK
    <3>2. CASE ~(Live(j) /\ istat[i] = "queued")
      BY <1>0, <1>1, <1>2, <3>2 DEF TypeOK
    <3> QED BY <3>1, <3>2
  <2>2. /\ status' \in [Jobs -> Statuses] /\ lease' \in [Items -> Workers \cup {None}]
        /\ istat' \in [Items -> Tallies \cup {"none", "cancelled"}]
    BY <1>0, <1>1, <1>3 DEF TypeOK, Tallies, Statuses
  <2>3. /\ late' \in [Items -> BOOLEAN] /\ paused' \in [Jobs -> BOOLEAN]
        /\ fenced' \in BOOLEAN /\ erased' \in BOOLEAN
    BY <1>0, <1>3 DEF TypeOK
  <2> QED BY <2>1, <2>2, <2>3 DEF RowTypes
<1>6. WorkTypes' /\ WorkersHoldItems'
  BY <1>0, <1>3 DEF TypeOK, WorkTypes, IInv, WorkersHoldItems
<1>7. RowsMatch' /\ JobsCloseWithTheirItems'
  <2>1. \A k \in Items : JobOf[k] # j => istat'[k] = istat[k]
    BY <1>0, <1>1, <1>2 DEF TypeOK
  <2>2. \A k \in Jobs : k # j => status'[k] = status[k]
    BY <1>0, <1>1, <1>2 DEF TypeOK
  <2>3. status'[j] \notin {"absent", "deleted", "completed"}
    BY <1>0, <1>1, <1>2 DEF TypeOK, HasRow
  <2>4. i \in ItemsOf(j) /\ istat'[i] = "processing"
    BY <1>0, <1>1, <1>2 DEF TypeOK, ItemsOf
  <2>5. status'[j] = "cancelled" => \A k \in ItemsOf(j) : istat'[k] # "queued"
    <3>1. status'[j] = "cancelled" => status[j] = "cancelled"
      BY <1>0, <1>1, <1>2 DEF TypeOK
    <3>2. status[j] = "cancelled" => \A k \in ItemsOf(j) : istat[k] # "queued"
      BY DEF IInv, JobsCloseWithTheirItems, InState
    <3> QED BY <1>0, <1>1, <3>1, <3>2 DEF TypeOK, ItemsOf
  <2> QED BY <2>1, <2>2, <2>3, <2>4, <2>5, OneJobCloses
<1>8. erased' => fenced' /\ \A k \in Jobs : ~HasRow(k)'
  BY <1>1, <1>2, <1>3 DEF IInv, FenceInv
<1> QED BY <1>0, <1>3, <1>4, <1>5, <1>6, <1>7, <1>8, CommitStep

LEMMA ReportKeeps ==
    ASSUME IInv, NEW w \in Workers, CompleteJob(w) PROVE IInv'
<1> DEFINE s == Main(w)
<1>0. s \in Sessions /\ TypeOK /\ End(s) /\ Idle(w)
  BY SessionsAre DEF IInv, CompleteJob
<1>1. PICK i \in Items, r \in Outcomes :
         /\ i = txn[s].item /\ lock[ItemRow(i)] = s
         /\ istat[i] = "processing"
         /\ istat' = [istat EXCEPT ![i] = r]
         /\ HasRow(JobOf[i]) /\ lock[JobRow(JobOf[i])] \in {None, s}
         /\ status' = IF LastOpen(i) /\ status[JobOf[i]] # "cancelled"
                      THEN [status EXCEPT ![JobOf[i]] = "completed"] ELSE status
         /\ tally' = [tally EXCEPT ![JobOf[i]]["processing"] = Less1(@),
                                   ![JobOf[i]][r] = @ + 1]
  BY ReportFacts
<1>2. PICK j \in Jobs : j = JobOf[i]
  OBVIOUS
<1>3. /\ lease' = [lease EXCEPT ![i] = IF @ = w THEN None ELSE @]
      /\ late' = [late EXCEPT ![i] = lease[i] # w /\ @]
      /\ UNCHANGED <<paused, fenced, erased, asks, faults>>
  BY <1>1 DEF CompleteJob, bounds
<1>4. Careful(s)
  BY <1>0, <1>1, <1>2 DEF Careful, TypeOK
<1>5. RowTypes'
  <2>1. tally' \in [Jobs -> [Tallies -> Nat]]
    <3>1. tally \in [Jobs -> [Tallies -> Nat]] /\ JobOf[i] \in Jobs
      BY <1>0 DEF TypeOK
    <3>2. \A n \in Nat : Less1(n) \in Nat /\ n + 1 \in Nat
      BY DEF Less1
    <3>3. "processing" \in Tallies /\ r \in Tallies /\ r # "processing"
      BY DEF Tallies, Outcomes
    <3>4. \A t \in [Tallies -> Nat] :
             [t EXCEPT !["processing"] = Less1(@), ![r] = @ + 1] \in [Tallies -> Nat]
      BY <3>2, <3>3
    <3> QED BY <1>1, <3>1, <3>4
  <2>2. /\ status' \in [Jobs -> Statuses] /\ lease' \in [Items -> Workers \cup {None}]
        /\ istat' \in [Items -> Tallies \cup {"none", "cancelled"}]
    BY <1>0, <1>1, <1>3 DEF TypeOK, Tallies, Statuses
  <2>3. /\ late' \in [Items -> BOOLEAN] /\ paused' \in [Jobs -> BOOLEAN]
        /\ fenced' \in BOOLEAN /\ erased' \in BOOLEAN
    BY <1>0, <1>3 DEF TypeOK
  <2> QED BY <2>1, <2>2, <2>3 DEF RowTypes
<1>6. WorkTypes' /\ WorkersHoldItems'
  BY <1>0, <1>3, IdleTypes DEF TypeOK, WorkTypes
<1>7. RowsMatch' /\ JobsCloseWithTheirItems'
  <2>1. \A k \in Items : JobOf[k] # j => istat'[k] = istat[k]
    BY <1>0, <1>1, <1>2 DEF TypeOK
  <2>2. \A k \in Jobs : k # j => status'[k] = status[k]
    BY <1>0, <1>1, <1>2 DEF TypeOK
  <2>3. i \in ItemsOf(j) /\ Unfinished(j) # {} /\ status[j] # "completed"
    BY <1>1, <1>2 DEF IInv, JobsCloseWithTheirItems, Unfinished, InState, ItemsOf
  <2>4. status'[j] \notin {"absent", "deleted"}
    BY <1>0, <1>1, <1>2 DEF TypeOK, HasRow
  <2>5. status'[j] = "completed"
          => \A k \in ItemsOf(j) : istat'[k] \notin {"queued", "processing"}
    <3> SUFFICES ASSUME status'[j] = "completed", NEW k \in ItemsOf(j)
                 PROVE  istat'[k] \notin {"queued", "processing"}
      OBVIOUS
    <3>1. LastOpen(i)
      BY <1>0, <1>1, <1>2, <2>3 DEF TypeOK
    <3>2. k # i => istat[k] \notin {"queued", "processing"}
      BY <1>2, <3>1 DEF LastOpen, Unfinished, InState
    <3> QED BY <1>0, <1>1, <3>2 DEF TypeOK, Outcomes, ItemsOf
  <2>6. status'[j] = "running"
          => \E k \in ItemsOf(j) : istat'[k] \in {"queued", "processing"}
    <3> SUFFICES ASSUME status'[j] = "running"
                 PROVE  \E k \in ItemsOf(j) : istat'[k] \in {"queued", "processing"}
      OBVIOUS
    <3>1. ~LastOpen(i)
      BY <1>0, <1>1, <1>2 DEF TypeOK
    <3>2. PICK k \in ItemsOf(j) : k # i /\ istat[k] \in {"queued", "processing"}
      BY <1>2, <3>1 DEF LastOpen, Unfinished, InState
    <3> QED BY <1>0, <1>1, <3>2 DEF TypeOK, ItemsOf
  <2>7. status'[j] = "cancelled" => \A k \in ItemsOf(j) : istat'[k] # "queued"
    <3>1. status'[j] = "cancelled" => status[j] = "cancelled"
      BY <1>0, <1>1, <1>2 DEF TypeOK
    <3>2. status[j] = "cancelled" => \A k \in ItemsOf(j) : istat[k] # "queued"
      BY DEF IInv, JobsCloseWithTheirItems, InState
    <3> QED BY <1>0, <1>1, <3>1, <3>2 DEF TypeOK, Outcomes, ItemsOf
  <2> QED BY <2>1, <2>2, <2>4, <2>5, <2>6, <2>7, OneJobCloses
<1>8. erased' => fenced' /\ \A k \in Jobs : ~HasRow(k)'
  BY <1>1, <1>2, <1>3 DEF IInv, FenceInv
<1> QED BY <1>0, <1>3, <1>4, <1>5, <1>6, <1>7, <1>8, CommitStep

LEMMA CountsAreNat ==
    ASSUME NEW S \in SUBSET Items PROVE Cardinality(S) \in Nat
BY FS_Subset, FS_CardinalityType

(* What a creation finds and does when it commits.                         *)
LEMMA CreateFacts ==
    ASSUME IInv, NEW c \in Clients, CreateJob(c)
    PROVE  \E j \in Jobs :
              /\ txn[Client(c)].op = "create" /\ txn[Client(c)].job = j
              /\ status[j] = "absent" /\ ~fenced
              /\ \A i \in ItemsOf(j) : istat[i] = "none"
              /\ status' = [status EXCEPT ![j] = "queued"]
              /\ tally' = [tally EXCEPT ![j]["queued"] = Cardinality(ItemsOf(j))]
              /\ istat' = [i \in Items |-> IF JobOf[i] = j THEN "queued" ELSE istat[i]]
<1> DEFINE s == Client(c)
<1>1. s \in Sessions /\ txn[s].op = "create"
  BY SessionsAre DEF CreateJob, InTxn
<1>2. txn[s].job \in Jobs /\ status[txn[s].job] = "absent"
  BY <1>1 DEF IInv, Fits, CreateFits
<1>3. ~fenced
  BY <1>1 DEF IInv, FenceInv
<1>4. \A i \in ItemsOf(txn[s].job) : istat[i] = "none"
  BY <1>2 DEF IInv, RowsMatch, HasRow, ItemsOf
<1> QED BY <1>1, <1>2, <1>3, <1>4 DEF CreateJob

LEMMA CreateKeeps ==
    ASSUME IInv, NEW c \in Clients, CreateJob(c) PROVE IInv'
<1> DEFINE s == Client(c)
<1>0. s \in Sessions /\ TypeOK /\ End(s)
  BY SessionsAre DEF IInv, CreateJob
<1>1. PICK j \in Jobs :
         /\ txn[s].op = "create" /\ txn[s].job = j
         /\ status[j] = "absent" /\ ~fenced
         /\ \A i \in ItemsOf(j) : istat[i] = "none"
         /\ status' = [status EXCEPT ![j] = "queued"]
         /\ tally' = [tally EXCEPT ![j]["queued"] = Cardinality(ItemsOf(j))]
         /\ istat' = [i \in Items |-> IF JobOf[i] = j THEN "queued" ELSE istat[i]]
  BY CreateFacts
<1>2. UNCHANGED <<paused, lease, late, fenced, erased, wpc, witem, asks, faults>>
  BY DEF CreateJob, workVars, bounds
<1>3. Careful(s)
  BY <1>0, <1>1 DEF Careful, TypeOK, ItemsOf
<1>4. RowTypes'
  <2>1. tally' \in [Jobs -> [Tallies -> Nat]]
    <3>1. Cardinality(ItemsOf(j)) \in Nat
      BY CountsAreNat DEF ItemsOf
    <3> QED BY <1>0, <1>1, <3>1 DEF TypeOK, Tallies, Outcomes
  <2>2. /\ status' \in [Jobs -> Statuses]
        /\ istat' \in [Items -> Tallies \cup {"none", "cancelled"}]
    BY <1>0, <1>1 DEF TypeOK, Tallies, Statuses
  <2> QED BY <1>0, <1>2, <2>1, <2>2, Zenon DEF TypeOK, RowTypes
<1>5. WorkTypes' /\ WorkersHoldItems'
  BY <1>0, <1>2, Zenon DEF TypeOK, WorkTypes, IInv, WorkersHoldItems
<1>6. RowsMatch' /\ JobsCloseWithTheirItems'
  <2>1. status'[j] = "queued" /\ \A k \in Jobs : k # j => status'[k] = status[k]
    BY <1>0, <1>1 DEF TypeOK
  <2>2. \A i \in Items : JobOf[i] # j => istat'[i] = istat[i]
    BY <1>1
  <2> QED BY <2>1, <2>2, OneJobCloses
<1>7. ~erased'
  BY <1>1, <1>2 DEF IInv, FenceInv
<1> QED BY <1>0, <1>2, <1>3, <1>4, <1>5, <1>6, <1>7, CommitStep

(* What the requests that hold their job's row find.                       *)
LEMMA RequestFacts ==
    ASSUME IInv, NEW c \in Clients,
           CancelJob(c) \/ RetryFailed(c) \/ DeleteJob(c)
    PROVE  \E j \in Jobs :
              /\ j = txn[Client(c)].job /\ lock[JobRow(j)] = Client(c)
              /\ HasRow(j)
              /\ ~DeleteJob(c) => status[j] # "cancelled"
              /\ CancelJob(c) => \A i \in InState(j, "queued") :
                                    lock[ItemRow(i)] \in {None, Client(c)}
              /\ DeleteJob(c) => \A i \in ItemsOf(j) :
                                    \/ istat[i] = "none"
                                    \/ lock[ItemRow(i)] \in {None, Client(c)}
<1> DEFINE s == Client(c)
<1>1. /\ s \in Sessions /\ MayRun(s)
      /\ CancelJob(c) => InTxn(s, "cancel", 2)
      /\ RetryFailed(c) => InTxn(s, "retry", 2)
      /\ DeleteJob(c) => InTxn(s, "delete", 3)
  BY SessionsAre DEF CancelJob, RetryFailed, DeleteJob
<1>2. /\ txn[s].job \in Jobs /\ lock[JobRow(txn[s].job)] = s /\ HasRow(txn[s].job)
      /\ txn[s].op # "delete" => status[txn[s].job] # "cancelled"
  <2>1. txn[s].op \in {"cancel", "retry", "delete"}
    BY <1>1 DEF InTxn
  <2> QED BY <1>1, <2>1 DEF IInv, Fits, ControlFits
<1>3. ~DeleteJob(c) => status[txn[s].job] # "cancelled"
  BY <1>1, <1>2 DEF InTxn
<1>4. CancelJob(c) => \A i \in InState(txn[s].job, "queued") :
                         lock[ItemRow(i)] \in {None, s}
  <2> SUFFICES ASSUME CancelJob(c), NEW i \in InState(txn[s].job, "queued")
               PROVE  lock[ItemRow(i)] \in {None, s}
    OBVIOUS
  <2>1. ItemRow(i) \in StatementRows(s)
    BY <1>1 DEF StatementRows, InTxn
  <2> QED BY <1>1, <2>1, MayRunLocks
<1>5. DeleteJob(c) => \A i \in ItemsOf(txn[s].job) :
                         istat[i] = "none" \/ lock[ItemRow(i)] \in {None, s}
  <2> SUFFICES ASSUME DeleteJob(c), NEW i \in ItemsOf(txn[s].job), istat[i] # "none"
               PROVE  lock[ItemRow(i)] \in {None, s}
    OBVIOUS
  <2>1. ItemRow(i) \in StatementRows(s)
    BY <1>1 DEF StatementRows, InTxn
  <2> QED BY <1>1, <2>1, MayRunLocks
<1> QED BY <1>2, <1>3, <1>4, <1>5

LEMMA CancelKeeps ==
    ASSUME IInv, NEW c \in Clients, CancelJob(c) PROVE IInv'
<1> DEFINE s == Client(c)
<1>0. s \in Sessions /\ TypeOK /\ End(s)
  BY SessionsAre DEF IInv, CancelJob
<1>1. PICK j \in Jobs :
         /\ j = txn[s].job /\ lock[JobRow(j)] = s /\ HasRow(j)
         /\ \A i \in InState(j, "queued") : lock[ItemRow(i)] \in {None, s}
  BY RequestFacts
<1>2. /\ istat' = [i \in Items |-> IF i \in InState(j, "queued")
                                   THEN "cancelled" ELSE istat[i]]
      /\ status' = [status EXCEPT ![j] = "cancelled"]
      /\ paused' = [paused EXCEPT ![j] = TRUE]
      /\ tally' = [tally EXCEPT ![j]["queued"] = 0]
      /\ UNCHANGED <<lease, late, fenced, erased, wpc, witem, asks, faults>>
  BY <1>1 DEF CancelJob, workVars, bounds
<1>3. Careful(s)
  BY <1>0, <1>1, <1>2 DEF Careful, TypeOK
<1>4. RowTypes'
  <2>1. tally' \in [Jobs -> [Tallies -> Nat]]
    BY <1>0, <1>2 DEF TypeOK, Tallies, Outcomes
  <2>2. /\ status' \in [Jobs -> Statuses]
        /\ istat' \in [Items -> Tallies \cup {"none", "cancelled"}]
    BY <1>0, <1>2 DEF TypeOK, Tallies, Statuses
  <2>3. paused' \in [Jobs -> BOOLEAN]
    BY <1>0, <1>2 DEF TypeOK
  <2> QED BY <1>0, <1>2, <2>1, <2>2, <2>3, Zenon DEF TypeOK, RowTypes
<1>5. WorkTypes' /\ WorkersHoldItems'
  BY <1>0, <1>2, Zenon DEF TypeOK, WorkTypes, IInv, WorkersHoldItems
<1>6. RowsMatch' /\ JobsCloseWithTheirItems'
  <2>1. status'[j] = "cancelled" /\ \A k \in Jobs : k # j => status'[k] = status[k]
    BY <1>0, <1>2 DEF TypeOK
  <2>2. \A i \in Items : JobOf[i] # j => istat'[i] = istat[i]
    BY <1>2 DEF InState, ItemsOf
  <2>3. \A i \in ItemsOf(j) : istat'[i] # "queued"
    BY <1>2 DEF InState, ItemsOf
  <2> QED BY <2>1, <2>2, <2>3, OneJobCloses
<1>7. erased' => fenced' /\ \A k \in Jobs : ~HasRow(k)'
  BY <1>1, <1>2 DEF IInv, FenceInv
<1> QED BY <1>0, <1>2, <1>3, <1>4, <1>5, <1>6, <1>7, CommitStep

LEMMA RetryKeeps ==
    ASSUME IInv, NEW c \in Clients, RetryFailed(c) PROVE IInv'
<1> DEFINE s == Client(c)
<1>0. s \in Sessions /\ TypeOK /\ End(s)
  BY SessionsAre DEF IInv, RetryFailed
<1>1. PICK j \in Jobs : j = txn[s].job /\ lock[JobRow(j)] = s /\ HasRow(j)
  BY RequestFacts
<1>2. /\ istat' = [i \in Items |-> IF i \in InState(j, "failed")
                                   THEN "queued" ELSE istat[i]]
      /\ status' = [status EXCEPT ![j] = "queued"]
      /\ paused' = [paused EXCEPT ![j] = FALSE]
      /\ tally' = [tally EXCEPT ![j]["failed"] = 0,
                                ![j]["queued"] = Cardinality(InState(j, "queued")
                                                             \cup InState(j, "failed"))]
      /\ UNCHANGED <<lease, late, fenced, erased, wpc, witem, asks, faults>>
  BY <1>1 DEF RetryFailed, workVars, bounds
<1>3. Careful(s)
  BY <1>0, <1>1, <1>2 DEF Careful, TypeOK, InState
<1>4. RowTypes'
  <2>1. tally' \in [Jobs -> [Tallies -> Nat]]
    <3>1. Cardinality(InState(j, "queued") \cup InState(j, "failed")) \in Nat
      BY CountsAreNat DEF InState, ItemsOf
    <3> QED BY <1>0, <1>2, <3>1 DEF TypeOK, Tallies, Outcomes
  <2>2. /\ status' \in [Jobs -> Statuses]
        /\ istat' \in [Items -> Tallies \cup {"none", "cancelled"}]
    BY <1>0, <1>2 DEF TypeOK, Tallies, Statuses
  <2>3. paused' \in [Jobs -> BOOLEAN]
    BY <1>0, <1>2 DEF TypeOK
  <2> QED BY <1>0, <1>2, <2>1, <2>2, <2>3, Zenon DEF TypeOK, RowTypes
<1>5. WorkTypes' /\ WorkersHoldItems'
  BY <1>0, <1>2, Zenon DEF TypeOK, WorkTypes, IInv, WorkersHoldItems
<1>6. RowsMatch' /\ JobsCloseWithTheirItems'
  <2>1. status'[j] = "queued" /\ \A k \in Jobs : k # j => status'[k] = status[k]
    BY <1>0, <1>2 DEF TypeOK
  <2>2. \A i \in Items : JobOf[i] # j => istat'[i] = istat[i]
    BY <1>2 DEF InState, ItemsOf
  <2> QED BY <2>1, <2>2, OneJobCloses
<1>7. erased' => fenced' /\ \A k \in Jobs : ~HasRow(k)'
  BY <1>1, <1>2 DEF IInv, FenceInv
<1> QED BY <1>0, <1>2, <1>3, <1>4, <1>5, <1>6, <1>7, CommitStep

(* Dropping jobs keeps the types.                                          *)
LEMMA DropTypes ==
    ASSUME IInv, NEW J \in SUBSET Jobs, Drop(J), UNCHANGED fenced, erased' \in BOOLEAN
    PROVE  RowTypes'
<1>1. status' \in [Jobs -> Statuses]
  BY DEF Drop, IInv, TypeOK, Statuses
<1>2. paused' \in [Jobs -> BOOLEAN] /\ late' \in [Items -> BOOLEAN]
  BY DEF Drop, IInv, TypeOK
<1>3. tally' \in [Jobs -> [Tallies -> Nat]]
  BY DEF Drop, IInv, TypeOK
<1>4. /\ istat' \in [Items -> Tallies \cup {"none", "cancelled"}]
      /\ lease' \in [Items -> Workers \cup {None}]
  BY DEF Drop, IInv, TypeOK
<1>5. fenced' \in BOOLEAN
  BY DEF IInv, TypeOK
<1> QED BY <1>1, <1>2, <1>3, <1>4, <1>5 DEF RowTypes

LEMMA DeleteKeeps ==
    ASSUME IInv, NEW c \in Clients, DeleteJob(c) PROVE IInv'
<1> DEFINE s == Client(c)
<1>0. s \in Sessions /\ TypeOK /\ End(s)
  BY SessionsAre DEF IInv, DeleteJob
<1>1. PICK j \in Jobs :
         /\ j = txn[s].job /\ lock[JobRow(j)] = s /\ HasRow(j)
         /\ \A i \in ItemsOf(j) : istat[i] = "none" \/ lock[ItemRow(i)] \in {None, s}
  BY RequestFacts
<1>2. Drop({j}) /\ UNCHANGED <<fenced, erased, wpc, witem, asks, faults>>
  BY <1>1 DEF DeleteJob, workVars, bounds
<1>3. /\ status'[j] = "deleted" /\ \A k \in Jobs : k # j => status'[k] = status[k]
      /\ istat' = [i \in Items |-> IF JobOf[i] = j THEN "none" ELSE istat[i]]
  BY <1>0, <1>1, <1>2 DEF Drop, TypeOK
<1>4. Careful(s)
  BY <1>0, <1>1, <1>3 DEF Careful, TypeOK, ItemsOf
<1>5. RowTypes'
  BY <1>0, <1>2, DropTypes DEF TypeOK
<1>6. WorkTypes' /\ WorkersHoldItems'
  BY <1>0, <1>2, Zenon DEF TypeOK, WorkTypes, IInv, WorkersHoldItems
<1>7. RowsMatch' /\ JobsCloseWithTheirItems'
  <2>1. status'[j] = "deleted" /\ \A k \in Jobs : k # j => status'[k] = status[k]
    BY <1>0, <1>3 DEF TypeOK
  <2>2. /\ \A i \in Items : JobOf[i] # j => istat'[i] = istat[i]
        /\ \A i \in ItemsOf(j) : istat'[i] = "none"
    BY <1>3 DEF ItemsOf
  <2> QED BY <2>1, <2>2, OneJobCloses
<1>8. erased' => fenced' /\ \A k \in Jobs : ~HasRow(k)'
  BY <1>1, <1>2 DEF IInv, FenceInv
<1> QED BY <1>0, <1>2, <1>4, <1>5, <1>6, <1>7, <1>8, CommitStep

LEMMA EraseKeeps ==
    ASSUME IInv, EraseJobs PROVE IInv'
<1> DEFINE s == Eraser
<1>0. s \in Sessions /\ TypeOK /\ End(s) /\ MayRun(s)
  BY SessionsAre DEF IInv, EraseJobs
<1>1. Drop(Jobs) /\ erased' = TRUE /\ UNCHANGED <<fenced, wpc, witem, asks, faults>>
  BY DEF EraseJobs, workVars, bounds
<1>2. \A j \in Jobs : ~HasRow(j)' /\ (status'[j] = status[j] \/ HasRow(j))
  BY <1>0, <1>1 DEF Drop, TypeOK, HasRow
<1>3. istat' = [i \in Items |-> "none"]
  BY <1>1 DEF Drop
<1>4. txn[s].op = "erase" /\ txn[s].step = 3 /\ fenced
  BY <1>0 DEF EraseJobs, InTxn, IInv, FenceInv
<1>5. \A t \in Sessions : txn'[t].op \in {"none", "erase"}
  <2> TAKE t \in Sessions
  <2>1. CASE t = s
    <3>1. txn'[s] = NoTxn
      BY <1>0, EndIsPrivate
    <3> QED BY <2>1, <3>1 DEF NoTxn, Open
  <2>2. CASE t # s
    <3>1. txn'[t] = txn[t] /\ txn[t].op \in {"none", "delete", "erase"}
      BY <1>0, <1>4, <2>2, EndIsPrivate DEF Private, IInv, FenceInv
    <3>2. ASSUME txn[t].op = "delete" PROVE FALSE
      <4>1. /\ txn[t].job \in Jobs /\ lock[JobRow(txn[t].job)] = t /\ HasRow(txn[t].job)
        BY <3>2 DEF IInv, Fits, ControlFits
      <4>2. JobRow(txn[t].job) \in StatementRows(s)
        BY <1>4, <4>1 DEF StatementRows, InTxn
      <4> QED BY <1>0, <2>2, <4>1, <4>2, MayRunLocks
    <3> QED BY <3>1, <3>2
  <2> QED BY <2>1, <2>2
<1>6. TxnInv' /\ FenceInv'
  <2>1. \A t \in Sessions : Fits(t)'
    BY <1>5 DEF Fits, ClaimFits, ReportFits, ControlFits, CreateFits, BeatFits
  <2>2. CreatesDiffer' /\ FenceInv'
    BY <1>1, <1>2, <1>4, <1>5 DEF CreatesDiffer, FenceInv
  <2> QED BY <2>1, <2>2 DEF TxnInv
<1>7. TypeOK'
  <2>1. WorkTypes'
    BY <1>0, <1>1, Zenon DEF TypeOK, WorkTypes
  <2>2. RowTypes'
    BY <1>1, DropTypes
  <2> QED BY <1>0, <2>1, <2>2, EndTypes, TypesTogether
<1>8. WorkersHoldItems'
  BY <1>1 DEF IInv, WorkersHoldItems
<1>9. RowsMatch' /\ JobsCloseWithTheirItems'
  BY <1>2, <1>3 DEF RowsMatch, JobsCloseWithTheirItems, Unfinished, InState, HasRow
<1> QED BY <1>6, <1>7, <1>8, <1>9 DEF IInv, TxnInv

(* Every step keeps the strengthened invariant.                            *)
LEMMA NextIInv == IInv /\ [Next]_vars => IInv'
<1> SUFFICES ASSUME IInv, [Next]_vars PROVE IInv'
  OBVIOUS
<1>1. ASSUME NEW w \in Workers, WorkerStep(w) PROVE IInv'
  BY <1>1, ClaimingKeeps, ReportingKeeps, ClaimKeeps, ReportKeeps DEF WorkerStep
<1>2. ASSUME NEW w \in Workers, BeatStep(w) PROVE IInv'
  BY <1>2, BeatingKeeps
<1>3. ASSUME NEW c \in Clients, ClientStep(c) PROVE IInv'
  <2>1. CASE DeleteLeases(c)
    <3>1. Client(c) \in Sessions
      BY SessionsAre
    <3> QED BY <2>1, <3>1, QuietStatement DEF DeleteLeases, InTxn
  <2> QED BY <1>3, <2>1, CreateKeeps, CancelKeeps, RetryKeeps, DeleteKeeps DEF ClientStep
<1>4. CASE EraserStep
  BY <1>4, ErasingKeeps, EraseKeeps DEF EraserStep
<1>5. ASSUME NEW c \in Clients, NEW j \in Jobs,
             \/ BeginCreate(c, j)
             \/ \E op \in Requests : LockJob(c, op, j) \/ SetPaused(c, op, j)
      PROVE IInv'
  BY <1>5, AskingKeeps
<1>6. CASE \/ \E s \in Sessions : Abort(s)
           \/ \E w \in Workers : WorkerDies(w)
           \/ \E i \in Items : LeaseRunsOut(i)
  BY <1>6, FailingKeeps, TimeKeeps
<1>7. CASE UNCHANGED vars
  <2>1. UNCHANGED <<status, paused, tally, istat, lease, late, fenced, erased, wpc, witem,
                    txn, lock, asks, faults>>
    BY <1>7 DEF vars, dbVars, jobVars, itemVars, workVars, bounds
  <2>2. TypeOK'
    <3>1. RowTypes' /\ WorkTypes' /\ LockTypes'
      BY <2>1, Zenon DEF IInv, TypeOK, RowTypes, WorkTypes, LockTypes
    <3> QED BY <3>1, TypesTogether
  <2>3. TxnInv' /\ RowsMatch' /\ JobsCloseWithTheirItems' /\ FenceInv'
    BY <2>1, SameTransactions
  <2>4. WorkersHoldItems'
    BY <2>1 DEF IInv, WorkersHoldItems
  <2> QED BY <2>2, <2>3, <2>4 DEF IInv, TxnInv
<1> QED BY <1>1, <1>2, <1>3, <1>4, <1>5, <1>6, <1>7 DEF Next

(* What the transactions rely on always holds.                             *)
THEOREM TransactionsHold == Spec => []IInv
<1>1. Init => IInv
  BY InitIInv
<1>2. IInv /\ [Next]_vars => IInv'
  BY NextIInv
<1> QED BY <1>1, <1>2, PTL DEF Spec

(* Every variable of the Postgres queue keeps its type.                    *)
THEOREM PgTypesHold == Spec => []TypeOK
BY TransactionsHold, PTL DEF IInv

(* Jobs close with their last item, whatever reports, requests, deadlocks  *)
(* and deaths overlap.                                                     *)
THEOREM PgJobsClose == Spec => []JobsCloseWithTheirItems
BY TransactionsHold, PTL DEF IInv

(* After the erasure of an account no transaction recreates one of its     *)
(* jobs.                                                                   *)
THEOREM PgErasureHolds == Spec => []ErasedStaysErased
<1>1. IInv => ErasedStaysErased
  BY DEF IInv, FenceInv, ErasedStaysErased
<1> QED BY <1>1, TransactionsHold, PTL

-----------------------------------------------------------------------------
(* The counters.                                                           *)

(* InState in this state and in the next one, as Having of ItemCounts.     *)
LEMMA InStateIsHaving ==
    \A j, s : /\ InState(j, s) = Having(Items, JobOf, istat, j, s)
              /\ InState(j, s)' = Having(Items, JobOf, istat', j, s)
BY DEF InState, Having, ItemsOf

(* Items that do not change state are counted as before.                   *)
LEMMA SameItemsSameCounts ==
    ASSUME UNCHANGED <<istat, tally>>, CountersMatch PROVE CountersMatch'
BY DEF CountersMatch, InState

(* One item changes state and its job's two counters follow.               *)
Tallied(i, from, to) ==
    /\ from # to /\ istat[i] = from
    /\ istat' = [istat EXCEPT ![i] = to]
    /\ tally'[JobOf[i]][to] = tally[JobOf[i]][to] + 1
    /\ tally'[JobOf[i]][from] = Less1(tally[JobOf[i]][from])
    /\ \A k \in Jobs, s \in Tallies :
          k # JobOf[i] \/ (s # to /\ s # from) => tally'[k][s] = tally[k][s]

(* Such a step keeps the counters exact: the subtraction never stops at    *)
(* zero, since the item itself was counted.                                *)
LEMMA OneItemCounted ==
    ASSUME TypeOK, CountersMatch, NEW i \in Items, NEW from \in Tallies, NEW to \in Tallies,
           Tallied(i, from, to)
    PROVE  CountersMatch'
<1>1. Moved(Items, istat, istat', i, from, to)
  BY DEF Moved, TypeOK, Tallied
<1>2. /\ Cardinality(Having(Items, JobOf, istat', JobOf[i], to))
           = Cardinality(Having(Items, JobOf, istat, JobOf[i], to)) + 1
      /\ Cardinality(Having(Items, JobOf, istat', JobOf[i], from))
           = Cardinality(Having(Items, JobOf, istat, JobOf[i], from)) - 1
      /\ Cardinality(Having(Items, JobOf, istat, JobOf[i], from)) > 0
      /\ \A k, s : k # JobOf[i] \/ (s # to /\ s # from)
                     => Having(Items, JobOf, istat', k, s) = Having(Items, JobOf, istat, k, s)
  BY <1>1, MoveOne
<1>3. /\ Cardinality(InState(JobOf[i], to)') = Cardinality(InState(JobOf[i], to)) + 1
      /\ Cardinality(InState(JobOf[i], from)') = Cardinality(InState(JobOf[i], from)) - 1
      /\ Cardinality(InState(JobOf[i], from)) > 0
      /\ \A k, s : k # JobOf[i] \/ (s # to /\ s # from) => InState(k, s)' = InState(k, s)
  BY <1>2, InStateIsHaving
<1>4. /\ tally[JobOf[i]][to] = Cardinality(InState(JobOf[i], to))
      /\ tally[JobOf[i]][from] = Cardinality(InState(JobOf[i], from))
  BY DEF CountersMatch
<1>5. Less1(tally[JobOf[i]][from]) = tally[JobOf[i]][from] - 1
  BY <1>3, <1>4, HavingFinite, InStateIsHaving DEF Less1
<1> SUFFICES ASSUME NEW k \in Jobs, NEW s \in Tallies
             PROVE  tally'[k][s] = Cardinality(InState(k, s)')
  BY DEF CountersMatch
<1>6. CASE k = JobOf[i] /\ s = to
  BY <1>3, <1>4, <1>6 DEF Tallied
<1>7. CASE k = JobOf[i] /\ s = from
  BY <1>3, <1>4, <1>5, <1>7 DEF Tallied
<1>8. CASE k # JobOf[i] \/ (s # to /\ s # from)
  <2>1. tally'[k][s] = tally[k][s]
    BY <1>8 DEF Tallied
  <2>2. InState(k, s)' = InState(k, s)
    BY <1>3, <1>8
  <2> QED BY <2>1, <2>2 DEF CountersMatch
<1> QED BY <1>6, <1>7, <1>8

(* Every step keeps the counters exact, one action at a time.              *)
LEMMA CountersStep == IInv /\ CountersMatch /\ [Next]_vars => CountersMatch'
<1> SUFFICES ASSUME IInv, CountersMatch, [Next]_vars PROVE CountersMatch'
  OBVIOUS
<1>0. TypeOK
  BY DEF IInv
<1>1. ASSUME NEW w \in Workers, ClaimJob(w) PROVE CountersMatch'
  <2>1. PICK i \in Items :
           /\ istat[i] \in {"queued", "processing"}
           /\ istat' = [istat EXCEPT ![i] = "processing"]
           /\ istat[i] = "queued" => Live(JobOf[i])
           /\ tally' = IF Live(JobOf[i]) /\ istat[i] = "queued"
                       THEN [tally EXCEPT ![JobOf[i]]["processing"] = @ + 1,
                                          ![JobOf[i]]["queued"] = Less1(@)]
                       ELSE tally
    BY <1>1, ClaimFacts
  <2>2. CASE istat[i] = "queued"
    <3>1. tally' = [tally EXCEPT ![JobOf[i]]["processing"] = @ + 1,
                                 ![JobOf[i]]["queued"] = Less1(@)]
      BY <2>1, <2>2
    <3>2. Tallied(i, "queued", "processing")
      BY <1>0, <2>1, <2>2, <3>1 DEF TypeOK, Tallies, Tallied
    <3>3. "queued" \in Tallies /\ "processing" \in Tallies
      BY DEF Tallies
    <3> QED BY <1>0, <3>2, <3>3, OneItemCounted
  <2>3. CASE istat[i] = "processing"
    <3>1. UNCHANGED <<istat, tally>>
      BY <1>0, <2>1, <2>3 DEF TypeOK
    <3> QED BY <3>1, SameItemsSameCounts
  <2> QED BY <2>1, <2>2, <2>3
<1>2. ASSUME NEW w \in Workers, CompleteJob(w) PROVE CountersMatch'
  <2>1. PICK i \in Items, r \in Outcomes :
           /\ istat[i] = "processing"
           /\ istat' = [istat EXCEPT ![i] = r]
           /\ tally' = [tally EXCEPT ![JobOf[i]]["processing"] = Less1(@),
                                     ![JobOf[i]][r] = @ + 1]
    BY <1>2, ReportFacts
  <2>2. Tallied(i, "processing", r)
    BY <1>0, <2>1 DEF TypeOK, Tallies, Outcomes, Tallied
  <2>3. "processing" \in Tallies /\ r \in Tallies /\ r # "processing"
    BY DEF Tallies, Outcomes
  <2> QED BY <1>0, <2>2, <2>3, OneItemCounted
<1>3. ASSUME NEW c \in Clients, CreateJob(c) PROVE CountersMatch'
  <2>1. PICK j \in Jobs :
           /\ \A i \in ItemsOf(j) : istat[i] = "none"
           /\ tally' = [tally EXCEPT ![j]["queued"] = Cardinality(ItemsOf(j))]
           /\ istat' = [i \in Items |-> IF JobOf[i] = j THEN "queued" ELSE istat[i]]
    BY <1>3, CreateFacts
  <2> SUFFICES ASSUME NEW k \in Jobs, NEW s \in Tallies
               PROVE  tally'[k][s] = Cardinality(InState(k, s)')
    BY DEF CountersMatch
  <2>2. CASE k = j /\ s = "queued"
    <3>1. InState(k, s)' = ItemsOf(j)
      BY <2>1, <2>2 DEF InState, ItemsOf
    <3> QED BY <1>0, <2>1, <2>2, <3>1 DEF TypeOK, Tallies
  <2>3. CASE k # j \/ s # "queued"
    <3>1. InState(k, s)' = InState(k, s)
      BY <2>1, <2>3 DEF InState, ItemsOf, Tallies, Outcomes
    <3>2. tally'[k][s] = tally[k][s]
      BY <1>0, <2>1, <2>3 DEF TypeOK, Tallies
    <3> QED BY <3>1, <3>2 DEF CountersMatch
  <2> QED BY <2>2, <2>3
<1>4. ASSUME NEW c \in Clients, CancelJob(c) PROVE CountersMatch'
  <2>1. PICK j \in Jobs :
           /\ istat' = [i \in Items |-> IF i \in InState(j, "queued")
                                        THEN "cancelled" ELSE istat[i]]
           /\ tally' = [tally EXCEPT ![j]["queued"] = 0]
    BY <1>4, RequestFacts DEF CancelJob
  <2> SUFFICES ASSUME NEW k \in Jobs, NEW s \in Tallies
               PROVE  tally'[k][s] = Cardinality(InState(k, s)')
    BY DEF CountersMatch
  <2>2. CASE k = j /\ s = "queued"
    <3>1. InState(k, s)' = {}
      BY <2>1, <2>2 DEF InState, ItemsOf
    <3>2. tally'[k][s] = 0
      BY <1>0, <2>1, <2>2 DEF TypeOK, Tallies
    <3> QED BY <3>1, <3>2, FS_EmptySet
  <2>3. CASE k # j \/ s # "queued"
    <3>1. InState(k, s)' = InState(k, s)
      BY <2>1, <2>3 DEF InState, ItemsOf, Tallies, Outcomes
    <3>2. tally'[k][s] = tally[k][s]
      BY <1>0, <2>1, <2>3 DEF TypeOK, Tallies
    <3> QED BY <3>1, <3>2 DEF CountersMatch
  <2> QED BY <2>2, <2>3
<1>5. ASSUME NEW c \in Clients, RetryFailed(c) PROVE CountersMatch'
  <2>1. PICK j \in Jobs :
           /\ istat' = [i \in Items |-> IF i \in InState(j, "failed")
                                        THEN "queued" ELSE istat[i]]
           /\ tally' = [tally EXCEPT
                          ![j]["failed"] = 0,
                          ![j]["queued"] = Cardinality(InState(j, "queued")
                                                       \cup InState(j, "failed"))]
    BY <1>5, RequestFacts DEF RetryFailed
  <2> SUFFICES ASSUME NEW k \in Jobs, NEW s \in Tallies
               PROVE  tally'[k][s] = Cardinality(InState(k, s)')
    BY DEF CountersMatch
  <2>2. CASE k = j /\ s = "queued"
    <3>1. InState(k, s)' = InState(k, "queued") \cup InState(k, "failed")
      BY <2>1, <2>2 DEF InState, ItemsOf
    <3> QED BY <1>0, <2>1, <2>2, <3>1 DEF TypeOK, Tallies
  <2>3. CASE k = j /\ s = "failed"
    <3>1. InState(k, s)' = {}
      BY <2>1, <2>3 DEF InState, ItemsOf
    <3>2. tally'[k][s] = 0
      BY <1>0, <2>1, <2>3 DEF TypeOK, Tallies, Outcomes
    <3> QED BY <3>1, <3>2, FS_EmptySet
  <2>4. CASE k # j \/ (s # "queued" /\ s # "failed")
    <3>1. InState(k, s)' = InState(k, s)
      BY <2>1, <2>4 DEF InState, ItemsOf
    <3>2. tally'[k][s] = tally[k][s]
      BY <1>0, <2>1, <2>4 DEF TypeOK, Tallies
    <3> QED BY <3>1, <3>2 DEF CountersMatch
  <2> QED BY <2>2, <2>3, <2>4
<1>6. ASSUME NEW J \in SUBSET Jobs, Drop(J) PROVE CountersMatch'
  <2> SUFFICES ASSUME NEW k \in Jobs, NEW s \in Tallies
               PROVE  tally'[k][s] = Cardinality(InState(k, s)')
    BY DEF CountersMatch
  <2>1. CASE k \in J
    <3>1. InState(k, s)' = {}
      BY <1>6, <2>1 DEF Drop, InState, ItemsOf, Tallies, Outcomes
    <3> QED BY <1>6, <2>1, <3>1, FS_EmptySet DEF Drop
  <2>2. CASE k \notin J
    <3>1. InState(k, s)' = InState(k, s)
      BY <1>6, <2>2 DEF Drop, InState, ItemsOf
    <3>2. tally'[k] = tally[k]
      BY <1>6, <2>2 DEF Drop
    <3> QED BY <3>1, <3>2 DEF CountersMatch
  <2> QED BY <2>1, <2>2
<1>7. ASSUME NEW c \in Clients, DeleteJob(c) PROVE CountersMatch'
  <2>1. PICK j \in Jobs : Drop({j})
    BY <1>7, RequestFacts DEF DeleteJob
  <2> QED BY <1>6, <2>1
<1>8. CASE EraseJobs
  BY <1>6, <1>8 DEF EraseJobs
<1>9. CASE UNCHANGED <<istat, tally>>
  BY <1>9, SameItemsSameCounts
<1> QED
  <2>1. ASSUME NEW w \in Workers, WorkerStep(w) \/ BeatStep(w) PROVE CountersMatch'
    BY <1>1, <1>2, <1>9, <2>1
       DEF WorkerStep, BeatStep, BeginClaim, ClaimNothing, ClaimLease, ClaimItem,
           ContextGone, DiscardStale, BeginComplete, CompleteItem, CompleteLease,
           BeatLease, BeatItem, BeatJob, Begin, Statement, dbVars, jobVars, itemVars
  <2>2. ASSUME NEW c \in Clients, ClientStep(c) PROVE CountersMatch'
    BY <1>3, <1>4, <1>5, <1>7, <1>9, <2>2
       DEF ClientStep, DeleteLeases, Statement, dbVars, jobVars, itemVars
  <2>3. CASE EraserStep
    BY <1>8, <1>9, <2>3
       DEF EraserStep, Fence, EraseLeases, EraseItems, Begin, Statement, dbVars,
           jobVars, itemVars
  <2>4. CASE \/ \E s \in Sessions : Abort(s)
             \/ \E w \in Workers : WorkerDies(w)
             \/ \E i \in Items : LeaseRunsOut(i)
             \/ UNCHANGED vars
    BY <1>9, <2>4 DEF Abort, WorkerDies, LeaseRunsOut, vars, dbVars, jobVars, itemVars
  <2>5. ASSUME NEW c \in Clients, NEW j \in Jobs,
               \/ BeginCreate(c, j)
               \/ \E op \in Requests : LockJob(c, op, j) \/ SetPaused(c, op, j)
        PROVE CountersMatch'
    BY <1>9, <2>5 DEF BeginCreate, LockJob, SetPaused, Begin, dbVars, jobVars, itemVars
  <2> QED BY <2>1, <2>2, <2>3, <2>4, <2>5 DEF Next

(* The progress counters are exact in every committed state, for any       *)
(* number of overlapping transactions.                                     *)
THEOREM PgCountersHold == Spec => []CountersMatch
<1>1. Init => CountersMatch
  <2> SUFFICES ASSUME Init, NEW j \in Jobs, NEW s \in Tallies
               PROVE  tally[j][s] = Cardinality(InState(j, s))
    BY DEF CountersMatch
  <2>1. InState(j, s) = {}
    BY DEF Init, InState, ItemsOf, Tallies, Outcomes
  <2> QED BY <2>1, FS_EmptySet DEF Init
<1>2. IInv /\ CountersMatch /\ [Next]_vars => CountersMatch'
  BY CountersStep
<1> QED BY <1>1, <1>2, TransactionsHold, PTL DEF Spec

(* What a step may never do to a settled item or a cancelled job.          *)
Settled ==
    /\ \A i \in Items : istat[i] \in {"completed", "skipped"}
                           => istat'[i] \in {istat[i], "none"}
    /\ \A j \in Jobs : status[j] = "cancelled"
                          => status'[j] \in {"cancelled", "deleted"}

(* No step reopens them, one committing statement at a time.               *)
LEMMA SettledStep == IInv /\ [Next]_vars => Settled
<1> SUFFICES ASSUME IInv, [Next]_vars PROVE Settled
  OBVIOUS
<1>0. TypeOK
  BY DEF IInv
<1>1. ASSUME NEW w \in Workers, ClaimJob(w) PROVE Settled
  <2>1. PICK i \in Items :
           /\ istat[i] \in {"queued", "processing"}
           /\ istat' = [istat EXCEPT ![i] = "processing"]
           /\ status' = IF Live(JobOf[i])
                         THEN [status EXCEPT ![JobOf[i]] = "running"] ELSE status
    BY <1>1, ClaimFacts
  <2> QED BY <1>0, <2>1 DEF Settled, TypeOK, Live
<1>2. ASSUME NEW w \in Workers, CompleteJob(w) PROVE Settled
  <2>1. PICK i \in Items, r \in Outcomes :
           /\ istat[i] = "processing"
           /\ istat' = [istat EXCEPT ![i] = r]
           /\ status' = IF LastOpen(i) /\ status[JobOf[i]] # "cancelled"
                         THEN [status EXCEPT ![JobOf[i]] = "completed"] ELSE status
    BY <1>2, ReportFacts
  <2> QED BY <1>0, <2>1 DEF Settled, TypeOK
<1>3. ASSUME NEW c \in Clients, CreateJob(c) PROVE Settled
  <2>1. PICK j \in Jobs :
           /\ status[j] = "absent"
           /\ \A i \in ItemsOf(j) : istat[i] = "none"
           /\ status' = [status EXCEPT ![j] = "queued"]
           /\ istat' = [i \in Items |-> IF JobOf[i] = j THEN "queued" ELSE istat[i]]
    BY <1>3, CreateFacts
  <2> QED BY <1>0, <2>1 DEF Settled, TypeOK, ItemsOf
<1>4. ASSUME NEW c \in Clients, CancelJob(c) PROVE Settled
  BY <1>0, <1>4 DEF CancelJob, Settled, TypeOK, InState, ItemsOf
<1>5. ASSUME NEW c \in Clients, RetryFailed(c) PROVE Settled
  <2>1. PICK j \in Jobs :
           /\ status[j] # "cancelled"
           /\ status' = [status EXCEPT ![j] = "queued"]
           /\ istat' = [i \in Items |-> IF i \in InState(j, "failed")
                                        THEN "queued" ELSE istat[i]]
    <3>1. ~DeleteJob(c)
      BY <1>5 DEF RetryFailed, DeleteJob, InTxn
    <3> QED BY <1>5, <3>1, RequestFacts DEF RetryFailed
  <2> QED BY <1>0, <2>1 DEF Settled, TypeOK, InState, ItemsOf
<1>6. ASSUME NEW J \in SUBSET Jobs, Drop(J) PROVE Settled
  BY <1>6 DEF Drop, Settled, HasRow
<1>7. ASSUME NEW c \in Clients, DeleteJob(c) PROVE Settled
  <2>1. PICK j \in Jobs : Drop({j})
    BY <1>7, RequestFacts DEF DeleteJob
  <2> QED BY <1>6, <2>1
<1>8. CASE EraseJobs
  BY <1>6, <1>8 DEF EraseJobs
<1>9. CASE UNCHANGED <<istat, status>>
  BY <1>9 DEF Settled
<1> QED
  <2>1. ASSUME NEW w \in Workers, WorkerStep(w) \/ BeatStep(w) PROVE Settled
    BY <1>1, <1>2, <1>9, <2>1
       DEF WorkerStep, BeatStep, BeginClaim, ClaimNothing, ClaimLease, ClaimItem,
           ContextGone, DiscardStale, BeginComplete, CompleteItem, CompleteLease,
           BeatLease, BeatItem, BeatJob, Begin, Statement, dbVars, jobVars, itemVars
  <2>2. ASSUME NEW c \in Clients, ClientStep(c) PROVE Settled
    BY <1>3, <1>4, <1>5, <1>7, <1>9, <2>2
       DEF ClientStep, DeleteLeases, Statement, dbVars, jobVars, itemVars
  <2>3. CASE EraserStep
    BY <1>8, <1>9, <2>3
       DEF EraserStep, Fence, EraseLeases, EraseItems, Begin, Statement, dbVars,
           jobVars, itemVars
  <2>4. CASE \/ \E s \in Sessions : Abort(s)
             \/ \E w \in Workers : WorkerDies(w)
             \/ \E i \in Items : LeaseRunsOut(i)
             \/ UNCHANGED vars
    BY <1>9, <2>4 DEF Abort, WorkerDies, LeaseRunsOut, vars, dbVars, jobVars, itemVars
  <2>5. ASSUME NEW c \in Clients, NEW j \in Jobs,
               \/ BeginCreate(c, j)
               \/ \E op \in Requests : LockJob(c, op, j)
        PROVE Settled
    BY <1>9, <2>5 DEF BeginCreate, LockJob, Begin, dbVars, jobVars, itemVars
  <2>6. ASSUME NEW c \in Clients, NEW j \in Jobs, NEW op \in Requests, SetPaused(c, op, j)
        PROVE Settled
    BY <1>9, <2>6 DEF SetPaused, dbVars, jobVars, itemVars
  <2> QED BY <2>1, <2>2, <2>3, <2>4, <2>5, <2>6 DEF Next

(* What was ingested or skipped is not handed out again and a cancelled    *)
(* job stays cancelled, for any number of overlapping transactions.        *)
THEOREM PgEndsAreFinal == Spec => EndsAreFinal
<1>1. IInv /\ [Next]_vars => [Settled]_vars
  BY SettledStep
<1> QED BY <1>1, TransactionsHold, PTL DEF Spec, EndsAreFinal, Settled

=============================================================================
