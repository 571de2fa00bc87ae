--------------------------- MODULE JobQueueProofs ---------------------------
(* Proofs about JobQueue for every set of jobs, items, workers and clients *)
(* and every bound.                                                        *)
EXTENDS JobQueue, ItemCounts

USE ItemsAssumption, JobOfAssumption, LegacyAssumption, WorkersAssumption,
    BoundsAssumption, StartOfAssumption

-----------------------------------------------------------------------------
(* The strengthening: where the type invariant alone does not carry.       *)

(* A worker has an item while it is busy, and a result once it is about to *)
(* report.                                                                 *)
WorkersHoldItems ==
    \A w \in Workers :
        /\ IF wpc[w] \in Busy THEN witem[w] \in Items ELSE witem[w] = None
        /\ wpc[w] \in {"reporting", "rescuing"} => wres[w] \in Outcomes

(* Items exist with their job; a lease exists only for an item in          *)
(* progress, and only such an item can be past its lease.                  *)
RowsMatch ==
    \A i \in Items :
        /\ istat[i] = "none" <=> ~HasRow(JobOf[i])
        /\ lease[i] # None => istat[i] = "processing"
        /\ lapsed[i] => istat[i] = "processing"

IInv == TypeOK /\ WorkersHoldItems /\ RowsMatch

(* The strengthened invariant holds initially.                             *)
LEMMA InitIInv == Init => IInv
<1> SUFFICES ASSUME Init PROVE IInv
  OBVIOUS
<1>1. \A j \in Jobs, s \in Tallies : Cardinality(InState(j, s)) \in Nat
  <2> TAKE j \in Jobs, s \in Tallies
  <2>1. InState(j, s) \subseteq Items
    BY DEF InState, ItemsOf
  <2>2. IsFiniteSet(InState(j, s))
    BY <2>1, FS_Subset
  <2> QED BY <2>2, FS_CardinalityType
<1>2. TypeOK
  BY <1>1 DEF Init, TypeOK, Statuses, Tallies, Outcomes, Requests, NoReq, Busy
<1>3. WorkersHoldItems
  BY DEF Init, WorkersHoldItems, Busy
<1>4. RowsMatch
  BY DEF Init, RowsMatch, HasRow, LegacyJobs
<1> QED BY <1>2, <1>3, <1>4 DEF IInv

(* Counts of items are natural numbers.                                    *)
LEMMA CountsAreNat ==
    ASSUME NEW S \in SUBSET Items PROVE Cardinality(S) \in Nat
BY FS_Subset, FS_CardinalityType

(* Every step keeps the strengthened invariant, one action at a time.      *)
LEMMA NextIInv == IInv /\ [Next]_vars => IInv'
<1> SUFFICES ASSUME IInv, [Next]_vars PROVE IInv'
  OBVIOUS
<1> USE DEF IInv
<1>1. ASSUME NEW j \in Jobs, CreateJob(j) PROVE IInv'
  <2>1. Cardinality(ItemsOf(j)) \in Nat
    BY CountsAreNat DEF ItemsOf
  <2>2. TypeOK'
    BY <1>1, <2>1 DEF CreateJob, TypeOK, Statuses, Tallies, Outcomes, workerVars
  <2>3. WorkersHoldItems'
    BY <1>1 DEF CreateJob, WorkersHoldItems, workerVars
  <2>4. RowsMatch'
    BY <1>1 DEF CreateJob, RowsMatch, TypeOK, HasRow
  <2> QED BY <2>2, <2>3, <2>4
<1>2. ASSUME NEW w \in Workers, NEW i \in Items, ClaimQueued(w, i) \/ ReclaimExpired(w, i)
      PROVE IInv'
  <2>1. TypeOK'
    <3>1. CASE ClaimQueued(w, i)
      BY <3>1 DEF ClaimQueued, TakeLease, TypeOK, Statuses, Tallies, Outcomes, Busy, Less1
    <3>2. CASE ReclaimExpired(w, i)
      BY <3>2 DEF ReclaimExpired, TakeLease, TypeOK, Statuses, Tallies, Outcomes, Busy
    <3> QED BY <1>2, <3>1, <3>2
  <2>2. TakeLease(w, i) /\ Claimable(i)
    BY <1>2 DEF ClaimQueued, ReclaimExpired, NextToClaim
  <2>3. WorkersHoldItems'
    BY <2>2 DEF TakeLease, WorkersHoldItems, TypeOK, Busy
  <2>4. RowsMatch'
    BY <2>2 DEF TakeLease, RowsMatch, TypeOK, HasRow, Claimable, Active, Expired
  <2> QED BY <2>1, <2>3, <2>4
<1>3. ASSUME NEW w \in Workers,
             LoadContext(w) \/ (\E r \in Outcomes : IngestReturns(w, r))
               \/ IngestRaises(w) \/ DiscardStale(w) \/ ReportRaises(w)
      PROVE IInv'
  <2>1. UNCHANGED <<jobVars, itemVars>>
    BY <1>3 DEF LoadContext, IngestReturns, IngestRaises, DiscardStale, ReportRaises
  <2>2. RowsMatch'
    BY <2>1 DEF RowsMatch, HasRow, jobVars, itemVars
  <2>3. TypeOK'
    <3>1. /\ wpc' \in [Workers -> {"off", "idle", "dead"} \cup Busy]
          /\ witem' \in [Workers -> Items \cup {None}]
          /\ wres' \in [Workers -> Outcomes \cup {None}]
      <4>1. CASE LoadContext(w)
        BY <4>1 DEF TypeOK, LoadContext, Idle, GoTo, Busy
      <4>2. CASE DiscardStale(w)
        BY <4>2 DEF TypeOK, DiscardStale, Idle
      <4>5. CASE ReportRaises(w)
        BY <4>5 DEF TypeOK, ReportRaises, Idle, GoTo, Outcomes, Busy
      <4>3. CASE \E r \in Outcomes : IngestReturns(w, r)
        BY <4>3 DEF TypeOK, IngestReturns, GoTo, Busy
      <4>4. CASE IngestRaises(w)
        BY <4>4 DEF TypeOK, IngestRaises, GoTo, Outcomes, Busy
      <4> QED BY <1>3, <4>1, <4>2, <4>3, <4>4, <4>5
    <3>2. UNCHANGED <<starts, req, asks>> /\ faults' \in 0..MaxFaults
      BY <1>3 DEF TypeOK, LoadContext, IngestReturns, IngestRaises, DiscardStale,
           ReportRaises
    <3> QED BY <2>1, <3>1, <3>2 DEF TypeOK, jobVars, itemVars
  <2>4. WorkersHoldItems'
    BY <1>3 DEF WorkersHoldItems, LoadContext, IngestReturns, IngestRaises,
         DiscardStale, ReportRaises, Idle, GoTo, TypeOK, Outcomes, Busy
  <2> QED BY <2>2, <2>3, <2>4
<1>4. ASSUME NEW w \in Workers, Report(w) PROVE IInv'
  <2> DEFINE i == witem[w]
             j == JobOf[i]
             r == wres[w]
  <2>1. i \in Items /\ r \in Outcomes /\ j \in Jobs
    BY <1>4 DEF Report, WorkersHoldItems, Busy
  <2>2. Finalize(i, r) /\ Owns(w, i) /\ Idle(w)
    BY <1>4 DEF Report
  <2>3. status' \in [Jobs -> Statuses]
    BY <2>1, <2>2 DEF Finalize, TypeOK, Statuses
  <2>4. tally' \in [Jobs -> [Tallies -> Nat]]
    BY <2>1, <2>2 DEF Finalize, TypeOK, Tallies, Outcomes, Less1
  <2>5. TypeOK'
    BY <1>4, <2>1, <2>2, <2>3, <2>4 DEF Report, Finalize, Idle, TypeOK, Tallies, Busy
  <2>6. WorkersHoldItems'
    BY <2>2 DEF Idle, WorkersHoldItems, TypeOK, Busy
  <2>7. \A k \in Jobs : (HasRow(k))' <=> HasRow(k)
    <3>1. HasRow(j)
      BY <2>1, <2>2 DEF Owns, RowsMatch
    <3>2. status' = status \/ status' = [status EXCEPT ![j] = "completed"]
      BY <2>2 DEF Finalize
    <3> QED BY <2>1, <3>1, <3>2 DEF HasRow, TypeOK
  <2>8. RowsMatch'
    BY <2>1, <2>2, <2>7 DEF Finalize, RowsMatch, TypeOK, Outcomes, Owns
  <2> QED BY <2>5, <2>6, <2>8
<1>5. ASSUME NEW w \in Workers, Heartbeat(w) PROVE IInv'
  <2>1. witem[w] \in Items
    BY <1>5 DEF Heartbeat, WorkersHoldItems
  <2> QED
    BY <1>5, <2>1 DEF Heartbeat, TypeOK, WorkersHoldItems, RowsMatch, HasRow,
         jobVars, workerVars
<1>6. ASSUME NEW i \in Items, LeaseRunsOut(i) \/ HeartbeatsMissed(i) PROVE IInv'
  <2>1. /\ istat[i] = "processing" /\ lapsed' = [lapsed EXCEPT ![i] = TRUE]
        /\ UNCHANGED <<jobVars, istat, lease, workerVars, starts, req, asks>>
        /\ faults' \in 0..MaxFaults
    BY <1>6 DEF LeaseRunsOut, HeartbeatsMissed, TypeOK
  <2> QED
    BY <2>1 DEF TypeOK, WorkersHoldItems, RowsMatch, HasRow, jobVars, workerVars
<1>7. CASE Crash
  BY <1>7 DEF Crash, TypeOK, WorkersHoldItems, RowsMatch, HasRow, Busy, Requests,
       jobVars, itemVars
<1>8. CASE StartServer
  BY <1>8 DEF StartServer, TypeOK, WorkersHoldItems, RowsMatch, HasRow, Busy,
       jobVars, itemVars
<1>9. ASSUME NEW c \in Clients, NEW op \in Ops, NEW j \in Jobs, ReadJob(c, op, j)
      PROVE IInv'
  BY <1>9 DEF ReadJob, TypeOK, WorkersHoldItems, RowsMatch, HasRow, Requests,
       jobVars, itemVars, workerVars
<1>10. ASSUME NEW c \in Clients, ClientStep(c) PROVE IInv'
  <2> DEFINE j == req[c].job
  <2>1. j \in Jobs \/ req[c] = NoReq
    BY DEF TypeOK, Requests
  <2>2. req' = [req EXCEPT ![c] = NoReq] /\ j \in Jobs
    <3>1. \E ops \in SUBSET Ops : Writing(c, ops)
      BY <1>10 DEF ClientStep, WriteNothing, SetPaused, CancelJob, RetryFailed,
           DeleteJob, Ops
    <3>2. req[c] # NoReq /\ req' = [req EXCEPT ![c] = NoReq]
      BY <3>1 DEF Writing, Ops, NoReq
    <3> QED BY <2>1, <3>2
  <2>3. UNCHANGED workerVars /\ WorkersHoldItems'
    BY <1>10 DEF ClientStep, WriteNothing, SetPaused, CancelJob, RetryFailed,
         DeleteJob, WorkersHoldItems, workerVars
  <2>4. req' \in [Clients -> Requests]
    BY <2>2 DEF TypeOK, Requests
  <2>5. CASE WriteNothing(c)
    BY <2>3, <2>4, <2>5 DEF WriteNothing, TypeOK, RowsMatch, HasRow, jobVars, itemVars,
         workerVars
  <2>6. CASE SetPaused(c)
    BY <2>2, <2>3, <2>4, <2>6 DEF SetPaused, TypeOK, RowsMatch, HasRow, itemVars, workerVars
  <2>7. CASE CancelJob(c)
    <3>1. TypeOK'
      BY <2>2, <2>3, <2>4, <2>7 DEF CancelJob, TypeOK, Statuses, Tallies, workerVars
    <3>2. RowsMatch'
      BY <2>2, <2>7 DEF CancelJob, TypeOK, RowsMatch, HasRow, InState
    <3> QED BY <2>3, <3>1, <3>2
  <2>8. CASE RetryFailed(c)
    <3>1. Cardinality(InState(j, "queued") \cup InState(j, "failed")) \in Nat
      BY CountsAreNat DEF InState, ItemsOf
    <3>2. TypeOK'
      BY <2>2, <2>3, <2>4, <2>8, <3>1
         DEF RetryFailed, TypeOK, Statuses, Tallies, Outcomes, workerVars
    <3>3. RowsMatch'
      BY <2>2, <2>8 DEF RetryFailed, TypeOK, RowsMatch, HasRow, InState
    <3> QED BY <2>3, <3>2, <3>3
  <2>9. CASE DeleteJob(c)
    <3>1. TypeOK'
      BY <2>2, <2>3, <2>4, <2>9 DEF DeleteJob, TypeOK, Statuses, Tallies, workerVars
    <3>2. RowsMatch'
      BY <2>2, <2>9 DEF DeleteJob, TypeOK, RowsMatch, HasRow, ItemsOf
    <3> QED BY <2>3, <3>1, <3>2
  <2> QED BY <1>10, <2>5, <2>6, <2>7, <2>8, <2>9 DEF ClientStep
<1>11. CASE UNCHANGED vars
  BY <1>11 DEF vars, TypeOK, WorkersHoldItems, RowsMatch, HasRow, jobVars, itemVars, workerVars
<1> QED
  BY <1>1, <1>2, <1>3, <1>4, <1>5, <1>6, <1>7, <1>8, <1>9, <1>10, <1>11 DEF Next, WorkerStep

(* Type correctness of the job queue, with the facts about workers and     *)
(* rows that the other proofs use.                                         *)
THEOREM StructureHolds == Spec => []IInv
<1>1. Init => IInv
  BY InitIInv
<1>2. IInv /\ [Next]_vars => IInv'
  BY NextIInv
<1> QED BY <1>1, <1>2, PTL DEF Spec

(* Every variable keeps its type, for any constants.                       *)
THEOREM TypesHold == Spec => []TypeOK
BY StructureHolds, PTL DEF IInv

-----------------------------------------------------------------------------
(* JobQueue implements WorkLedger.                                         *)

LState == [i \in Items |-> IF status[JobOf[i]] = "deleted" THEN "gone" ELSE istat[i]]

(* The initial states and every step of the queue are initial states and   *)
(* steps (or stutters) of the ledger.                                      *)
LEMMA LedgerInit == Init => Ledger!Init
BY DEF Init, Ledger!Init, LegacyJobs

(* A step of the queue is a step of the ledger or leaves it unchanged.      *)
LEMMA LedgerStep == IInv /\ [Next]_vars => [Ledger!Next]_(Ledger!vars)
<1> SUFFICES ASSUME IInv, [Next]_vars
             PROVE  Ledger!Next \/ (LState' = LState /\ UNCHANGED <<lease, lapsed, witem>>)
  BY DEF Ledger!vars, LState
<1> USE DEF IInv, LState
<1>1. ASSUME NEW j \in Jobs, CreateJob(j) PROVE Ledger!Offer(ItemsOf(j))
  <2>1. \A i \in ItemsOf(j) : LState[i] = "none"
    BY <1>1 DEF CreateJob, RowsMatch, HasRow, ItemsOf
  <2>2. LState' = [i \in Items |-> IF i \in ItemsOf(j) THEN "queued" ELSE LState[i]]
    BY <1>1 DEF CreateJob, TypeOK, ItemsOf
  <2> QED BY <1>1, <2>1, <2>2 DEF CreateJob, workerVars, Ledger!Offer, Ledger!Move
<1>2. ASSUME NEW w \in Workers, NEW i \in Items, ClaimQueued(w, i) \/ ReclaimExpired(w, i)
      PROVE Ledger!Take(w, i)
  <2>1. TakeLease(w, i) /\ Claimable(i)
    BY <1>2 DEF ClaimQueued, ReclaimExpired, NextToClaim
  <2>2. \/ LState[i] = "queued"
        \/ LState[i] = "processing" /\ lapsed[i]
    BY <2>1 DEF Claimable, Active, Expired
  <2>3. \A k \in Items : (status'[JobOf[k]] = "deleted") <=> (status[JobOf[k]] = "deleted")
    BY <2>1 DEF TakeLease, Claimable, Active, TypeOK
  <2>4. LState' = [LState EXCEPT ![i] = "processing"]
    BY <2>1, <2>3 DEF TakeLease, TypeOK, Claimable, Active
  <2>5. witem[w] = None
    BY <1>2 DEF ClaimQueued, ReclaimExpired, WorkersHoldItems, Busy
  <2> QED BY <2>1, <2>2, <2>4, <2>5 DEF TakeLease, Ledger!Take
<1>3. ASSUME NEW w \in Workers, Report(w)
      PROVE  \E i \in Items, r \in Outcomes : Ledger!Settle(w, i, r)
  <2>1. PICK i \in Items, r \in Outcomes : i = witem[w] /\ r = wres[w]
    BY <1>3 DEF Report, WorkersHoldItems, Busy
  <2>2. Finalize(i, r) /\ Owns(w, i)
    BY <1>3, <2>1 DEF Report, Finalize, Owns, Unfinished, InState
  <2>3. status[JobOf[i]] # "deleted"
    BY <2>1, <2>2 DEF Owns, RowsMatch, HasRow
  <2>4. status' = status \/ status' = [status EXCEPT ![JobOf[i]] = "completed"]
    BY <2>2 DEF Finalize
  <2>5. \A k \in Items : (status'[JobOf[k]] = "deleted") <=> (status[JobOf[k]] = "deleted")
    BY <2>1, <2>3, <2>4 DEF TypeOK
  <2>6. LState' = [LState EXCEPT ![i] = r]
    <3>1. istat' = [istat EXCEPT ![i] = r] /\ istat \in [Items -> Tallies \cup {"none", "cancelled"}]
      BY <2>2 DEF Finalize, TypeOK
    <3> QED BY <2>3, <2>5, <3>1
  <2>7. LState[i] = "processing" /\ lease[i] = w
    BY <2>1, <2>2, <2>3 DEF Owns
  <2>8. Ledger!Settle(w, i, r)
    BY <1>3, <2>1, <2>2, <2>6, <2>7 DEF Report, Idle, Finalize, Ledger!Settle
  <2> QED BY <2>8
<1>4. ASSUME NEW w \in Workers, Heartbeat(w)
      PROVE  \E i \in Items : Ledger!Renew(w, i)
  <2>1. PICK i \in Items : i = witem[w] /\ Owns(w, i)
    BY <1>4 DEF Heartbeat, WorkersHoldItems, Owns
  <2>2. LState' = LState
    BY <1>4 DEF Heartbeat, jobVars
  <2>3. istat[i] = "processing" /\ lease[i] = w /\ witem[w] = i
    BY <2>1 DEF Owns
  <2>4. LState[i] = "processing"
    BY <2>1, <2>3 DEF RowsMatch, HasRow
  <2>5. Ledger!Renew(w, i)
    BY <1>4, <2>1, <2>2, <2>3, <2>4 DEF Heartbeat, workerVars, Ledger!Renew
  <2> QED BY <2>5
<1>5. ASSUME NEW i \in Items, LeaseRunsOut(i) \/ HeartbeatsMissed(i)
      PROVE  Ledger!Lapse(i)
  <2>1. LState' = LState
    BY <1>5 DEF LeaseRunsOut, HeartbeatsMissed, jobVars
  <2>2. LState[i] = "processing"
    BY <1>5 DEF LeaseRunsOut, HeartbeatsMissed, RowsMatch, HasRow
  <2> QED BY <1>5, <2>1, <2>2 DEF LeaseRunsOut, HeartbeatsMissed, workerVars, Ledger!Lapse
<1>6. ASSUME NEW c \in Clients, ClientStep(c)
      PROVE  Ledger!Next \/ (LState' = LState /\ UNCHANGED <<lease, lapsed, witem>>)
  <2> DEFINE j == req[c].job
  <2>1. CASE WriteNothing(c) \/ SetPaused(c)
    BY <2>1 DEF WriteNothing, SetPaused, jobVars, itemVars, workerVars
  <2>2. CASE CancelJob(c)
    <3>1. \A i \in InState(j, "queued") : LState[i] = "queued"
      BY <2>2 DEF CancelJob, HasRow, InState, ItemsOf
    <3>2. \A k \in Items : (status'[JobOf[k]] = "deleted") <=> (status[JobOf[k]] = "deleted")
      BY <2>2 DEF CancelJob, HasRow, TypeOK
    <3>3. LState' = [i \in Items |-> IF i \in InState(j, "queued")
                                     THEN "cancelled" ELSE LState[i]]
      BY <2>2, <3>2 DEF CancelJob, HasRow, InState, ItemsOf, TypeOK
    <3>4. PICK S \in SUBSET Items : S = InState(j, "queued")
      BY DEF InState, ItemsOf
    <3>5. Ledger!Withdraw(S)
      BY <2>2, <3>1, <3>3, <3>4 DEF CancelJob, workerVars, Ledger!Withdraw, Ledger!Move
    <3> QED BY <3>5 DEF Ledger!Next
  <2>3. CASE RetryFailed(c)
    <3>1. \A i \in InState(j, "failed") : LState[i] = "failed"
      BY <2>3 DEF RetryFailed, HasRow, InState, ItemsOf
    <3>2. \A k \in Items : (status'[JobOf[k]] = "deleted") <=> (status[JobOf[k]] = "deleted")
      BY <2>3 DEF RetryFailed, HasRow, TypeOK
    <3>3. LState' = [i \in Items |-> IF i \in InState(j, "failed")
                                     THEN "queued" ELSE LState[i]]
      BY <2>3, <3>2 DEF RetryFailed, HasRow, InState, ItemsOf, TypeOK
    <3>4. PICK S \in SUBSET Items : S = InState(j, "failed")
      BY DEF InState, ItemsOf
    <3>5. Ledger!Reissue(S)
      BY <2>3, <3>1, <3>3, <3>4 DEF RetryFailed, workerVars, Ledger!Reissue, Ledger!Move
    <3> QED BY <3>5 DEF Ledger!Next
  <2>4. CASE DeleteJob(c)
    <3>1. LState' = [i \in Items |-> IF i \in ItemsOf(j) THEN "gone" ELSE LState[i]]
      BY <2>4 DEF DeleteJob, ItemsOf, TypeOK
    <3>2. PICK S \in SUBSET Items : S = ItemsOf(j)
      BY DEF ItemsOf
    <3>3. Ledger!Remove(S)
      BY <2>4, <3>1, <3>2 DEF DeleteJob, workerVars, ItemsOf, Ledger!Remove
    <3> QED BY <3>3 DEF Ledger!Next
  <2> QED BY <1>6, <2>1, <2>2, <2>3, <2>4 DEF ClientStep
<1>7. ASSUME NEW w \in Workers,
             LoadContext(w) \/ (\E r \in Outcomes : IngestReturns(w, r))
               \/ IngestRaises(w) \/ DiscardStale(w) \/ ReportRaises(w)
      PROVE  Ledger!Next \/ (LState' = LState /\ UNCHANGED <<lease, lapsed, witem>>)
  <2>1. LState' = LState /\ UNCHANGED <<lease, lapsed>>
    BY <1>7 DEF LoadContext, IngestReturns, IngestRaises, DiscardStale, ReportRaises,
         jobVars, itemVars
  <2>2. witem' = witem \/ witem' = [witem EXCEPT ![w] = None]
    BY <1>7 DEF LoadContext, IngestReturns, IngestRaises, DiscardStale, ReportRaises,
         GoTo, Idle
  <2>3. CASE witem' = [witem EXCEPT ![w] = None]
    <3>1. witem' = [v \in Workers |-> IF v \in {w} THEN None ELSE witem[v]]
      BY <2>3 DEF TypeOK
    <3>2. Ledger!GiveUp({w})
      BY <2>1, <3>1 DEF Ledger!GiveUp
    <3>3. {w} \in SUBSET Workers
      OBVIOUS
    <3> QED BY <3>2, <3>3 DEF Ledger!Next
  <2> QED BY <2>1, <2>2, <2>3
<1>8. CASE \/ StartServer \/ UNCHANGED vars
           \/ \E c \in Clients : \E op \in Ops, j \in Jobs : ReadJob(c, op, j)
  BY <1>8 DEF StartServer, ReadJob, vars, jobVars, itemVars, workerVars
<1>9. CASE Crash
  <2>1. LState' = LState /\ UNCHANGED <<lease, lapsed>>
    BY <1>9 DEF Crash, jobVars, itemVars
  <2>2. witem' = [v \in Workers |-> IF v \in Workers THEN None ELSE witem[v]]
    BY <1>9 DEF Crash
  <2>3. Ledger!GiveUp(Workers)
    BY <2>1, <2>2 DEF Ledger!GiveUp
  <2> QED BY <2>3 DEF Ledger!Next
<1>10. \A j \in Jobs : ItemsOf(j) \in SUBSET Items
  BY DEF ItemsOf
<1>11. ASSUME NEW w \in Workers, WorkerStep(w) \/ ReportRaises(w) \/ Heartbeat(w)
       PROVE  Ledger!Next \/ (LState' = LState /\ UNCHANGED <<lease, lapsed, witem>>)
  <2>1. CASE \E i \in Items : ClaimQueued(w, i) \/ ReclaimExpired(w, i)
    BY <1>2, <2>1 DEF Ledger!Next
  <2>2. CASE Report(w)
    BY <1>3, <2>2 DEF Ledger!Next, Ledger!Results, Outcomes
  <2>3. CASE Heartbeat(w)
    BY <1>4, <2>3 DEF Ledger!Next
  <2> QED BY <1>7, <1>11, <2>1, <2>2, <2>3 DEF WorkerStep
<1>12. ASSUME NEW j \in Jobs, CreateJob(j) PROVE Ledger!Next
  BY <1>1, <1>10, <1>12 DEF Ledger!Next
<1>13. ASSUME NEW i \in Items, LeaseRunsOut(i) \/ HeartbeatsMissed(i) PROVE Ledger!Next
  BY <1>5, <1>13 DEF Ledger!Next
<1> QED
  BY <1>6, <1>8, <1>9, <1>11, <1>12, <1>13 DEF Next

(* The SQLite job queue keeps the ledger's promises: an item has one       *)
(* holder, only that holder's result is recorded, and completed, skipped,  *)
(* cancelled and removed items are never handed out again.                 *)
THEOREM QueueKeepsLedger == Spec => KeepsLedger
<1>1. Init => Ledger!Init
  BY LedgerInit
<1>2. IInv /\ [Next]_vars => [Ledger!Next]_(Ledger!vars)
  BY LedgerStep
<1> QED BY <1>1, <1>2, StructureHolds, PTL DEF Spec, KeepsLedger, Ledger!Spec

-----------------------------------------------------------------------------
(* The counters.                                                           *)

(* InState in this state and in the next one, as Having of ItemCounts.     *)
LEMMA InStateIsHaving ==
    \A j, s : /\ InState(j, s) = Having(Items, JobOf, istat, j, s)
              /\ InState(j, s)' = Having(Items, JobOf, istat', j, s)
BY DEF InState, Having, ItemsOf

(* Items that do not change state are counted as before.                   *)
LEMMA SameItemsSameCounts ==
    ASSUME UNCHANGED <<istat, tally>>, CountersMatch PROVE CountersMatch'
BY DEF CountersMatch, InState

(* Every step keeps the counters exact, one action at a time.              *)
LEMMA CountersStep == IInv /\ CountersMatch /\ [Next]_vars => CountersMatch'
<1> SUFFICES ASSUME IInv, CountersMatch, [Next]_vars PROVE CountersMatch'
  OBVIOUS
<1> USE DEF IInv
<1>1. ASSUME NEW j \in Jobs, CreateJob(j) PROVE CountersMatch'
  <2> SUFFICES ASSUME NEW k \in Jobs, NEW s \in Tallies
               PROVE  tally'[k][s] = Cardinality(InState(k, s)')
    BY DEF CountersMatch
  <2>1. CASE k # j
    <3>1. InState(k, s)' = InState(k, s)
      BY <1>1, <2>1 DEF CreateJob, InState, ItemsOf
    <3> QED BY <1>1, <2>1, <3>1 DEF CreateJob, TypeOK, CountersMatch
  <2>2. CASE k = j /\ s = "queued"
    <3>1. InState(k, s)' = ItemsOf(j)
      BY <1>1, <2>2 DEF CreateJob, InState, ItemsOf
    <3> QED BY <1>1, <2>2, <3>1 DEF CreateJob, TypeOK, Tallies
  <2>3. CASE k = j /\ s # "queued"
    <3>1. InState(k, s)' = {}
      BY <1>1, <2>3 DEF CreateJob, InState, ItemsOf
    <3>2. InState(k, s) = {}
      BY <1>1, <2>3 DEF CreateJob, InState, ItemsOf, RowsMatch, HasRow, Tallies, Outcomes
    <3>3. tally'[k][s] = tally[k][s]
      BY <1>1, <2>3 DEF CreateJob, TypeOK, Tallies
    <3> QED BY <3>1, <3>2, <3>3 DEF CountersMatch
  <2> QED BY <2>1, <2>2, <2>3
<1>2. ASSUME NEW w \in Workers, NEW i \in Items, ClaimQueued(w, i) PROVE CountersMatch'
  <2> DEFINE j == JobOf[i]
  <2>1. istat[i] = "queued" /\ istat' = [istat EXCEPT ![i] = "processing"]
    BY <1>2 DEF ClaimQueued, TakeLease, NextToClaim, Claimable, Expired
  <2>2. /\ Cardinality(InState(j, "processing")') = Cardinality(InState(j, "processing")) + 1
        /\ Cardinality(InState(j, "queued")') = Cardinality(InState(j, "queued")) - 1
        /\ Cardinality(InState(j, "queued")) > 0
        /\ \A k, s : k # j \/ (s # "processing" /\ s # "queued")
                       => InState(k, s)' = InState(k, s)
    <3>1. Moved(Items, istat, istat', i, "queued", "processing")
      BY <2>1 DEF Moved, TypeOK
    <3> HIDE DEF IInv
    <3>3. /\ Cardinality(Having(Items, JobOf, istat', JobOf[i], "processing"))
               = Cardinality(Having(Items, JobOf, istat, JobOf[i], "processing")) + 1
          /\ Cardinality(Having(Items, JobOf, istat', JobOf[i], "queued"))
               = Cardinality(Having(Items, JobOf, istat, JobOf[i], "queued")) - 1
          /\ Cardinality(Having(Items, JobOf, istat, JobOf[i], "queued")) > 0
          /\ \A k, s : k # JobOf[i] \/ (s # "processing" /\ s # "queued")
                         => Having(Items, JobOf, istat', k, s) = Having(Items, JobOf, istat, k, s)
      BY <3>1, MoveOne
    <3> QED BY <2>1, <3>3, InStateIsHaving
  <2>3. /\ tally[j]["queued"] = Cardinality(InState(j, "queued"))
        /\ tally[j]["processing"] = Cardinality(InState(j, "processing"))
    BY DEF CountersMatch, Tallies
  <2>4. tally' = [tally EXCEPT ![j]["processing"] = @ + 1, ![j]["queued"] = Less1(@)]
    BY <1>2 DEF ClaimQueued
  <2>5. /\ tally'[j]["processing"] = tally[j]["processing"] + 1
        /\ tally'[j]["queued"] = Less1(tally[j]["queued"])
        /\ \A k \in Jobs, s \in Tallies : k # j \/ (s # "processing" /\ s # "queued")
                       => tally'[k][s] = tally[k][s]
    BY <2>4 DEF TypeOK, Tallies
  <2>6. Less1(tally[j]["queued"]) = tally[j]["queued"] - 1
    BY <2>2, <2>3, HavingFinite, InStateIsHaving DEF Less1
  <2> SUFFICES ASSUME NEW k \in Jobs, NEW s \in Tallies
               PROVE  tally'[k][s] = Cardinality(InState(k, s)')
    BY DEF CountersMatch
  <2> QED BY <2>2, <2>3, <2>5, <2>6 DEF CountersMatch
<1>3. ASSUME NEW w \in Workers, NEW i \in Items, ReclaimExpired(w, i) PROVE CountersMatch'
  <2>1. istat' = istat
    BY <1>3 DEF ReclaimExpired, Expired, TakeLease, TypeOK
  <2> QED BY <1>3, <2>1, SameItemsSameCounts DEF ReclaimExpired
<1>4. ASSUME NEW w \in Workers, Report(w) PROVE CountersMatch'
  <2>1. PICK i \in Items, r \in Outcomes : i = witem[w] /\ r = wres[w]
    BY <1>4 DEF Report, WorkersHoldItems, Busy
  <2> DEFINE j == JobOf[i]
  <2>2. /\ istat[i] = "processing" /\ r # "processing"
        /\ istat' = [istat EXCEPT ![i] = r]
        /\ tally' = [tally EXCEPT ![j]["processing"] = Less1(@), ![j][r] = @ + 1]
    BY <1>4, <2>1 DEF Report, Owns, Finalize, Outcomes
  <2>3. /\ Cardinality(InState(j, r)') = Cardinality(InState(j, r)) + 1
        /\ Cardinality(InState(j, "processing")') = Cardinality(InState(j, "processing")) - 1
        /\ Cardinality(InState(j, "processing")) > 0
        /\ \A k, s : k # j \/ (s # r /\ s # "processing")
                       => InState(k, s)' = InState(k, s)
    <3>1. Moved(Items, istat, istat', i, "processing", r)
      BY <2>2 DEF Moved, TypeOK
    <3> HIDE DEF IInv
    <3>3. /\ Cardinality(Having(Items, JobOf, istat', JobOf[i], r))
               = Cardinality(Having(Items, JobOf, istat, JobOf[i], r)) + 1
          /\ Cardinality(Having(Items, JobOf, istat', JobOf[i], "processing"))
               = Cardinality(Having(Items, JobOf, istat, JobOf[i], "processing")) - 1
          /\ Cardinality(Having(Items, JobOf, istat, JobOf[i], "processing")) > 0
          /\ \A k, s : k # JobOf[i] \/ (s # r /\ s # "processing")
                         => Having(Items, JobOf, istat', k, s) = Having(Items, JobOf, istat, k, s)
      BY <3>1, MoveOne
    <3> QED BY <2>2, <3>3, InStateIsHaving
  <2>4. /\ tally[j]["processing"] = Cardinality(InState(j, "processing"))
        /\ tally[j][r] = Cardinality(InState(j, r))
    BY DEF CountersMatch, Tallies
  <2>5. /\ tally'[j][r] = tally[j][r] + 1
        /\ tally'[j]["processing"] = Less1(tally[j]["processing"])
        /\ \A k \in Jobs, s \in Tallies : k # j \/ (s # r /\ s # "processing")
                       => tally'[k][s] = tally[k][s]
    BY <2>2 DEF TypeOK, Tallies, Outcomes
  <2>6. Less1(tally[j]["processing"]) = tally[j]["processing"] - 1
    BY <2>3, <2>4, HavingFinite, InStateIsHaving DEF Less1
  <2> SUFFICES ASSUME NEW k \in Jobs, NEW s \in Tallies
               PROVE  tally'[k][s] = Cardinality(InState(k, s)')
    BY DEF CountersMatch
  <2> QED BY <2>3, <2>4, <2>5, <2>6 DEF CountersMatch
<1>5. ASSUME NEW c \in Clients, CancelJob(c) PROVE CountersMatch'
  <2> SUFFICES ASSUME NEW k \in Jobs, NEW s \in Tallies
               PROVE  tally'[k][s] = Cardinality(InState(k, s)')
    BY DEF CountersMatch
  <2> DEFINE j == req[c].job
  <2>1. CASE k = j /\ s = "queued"
    <3>1. InState(k, s)' = {}
      BY <1>5, <2>1 DEF CancelJob, InState, ItemsOf
    <3> QED BY <1>5, <2>1, <3>1, FS_EmptySet DEF CancelJob, TypeOK, Tallies
  <2>2. CASE k # j \/ s # "queued"
    <3>1. InState(k, s)' = InState(k, s)
      BY <1>5, <2>2 DEF CancelJob, InState, ItemsOf, Tallies, Outcomes
    <3>2. tally'[k][s] = tally[k][s]
      BY <1>5, <2>2 DEF CancelJob, TypeOK, Tallies
    <3> QED BY <3>1, <3>2 DEF CountersMatch
  <2> QED BY <2>1, <2>2
<1>6. ASSUME NEW c \in Clients, RetryFailed(c) PROVE CountersMatch'
  <2> SUFFICES ASSUME NEW k \in Jobs, NEW s \in Tallies
               PROVE  tally'[k][s] = Cardinality(InState(k, s)')
    BY DEF CountersMatch
  <2> DEFINE j == req[c].job
  <2>1. CASE k = j /\ s = "queued"
    <3>1. InState(k, s)' = InState(k, "queued") \cup InState(k, "failed")
      BY <1>6, <2>1 DEF RetryFailed, InState, ItemsOf
    <3> QED BY <1>6, <2>1, <3>1 DEF RetryFailed, TypeOK, Tallies
  <2>2. CASE k = j /\ s = "failed"
    <3>1. InState(k, s)' = {}
      BY <1>6, <2>2 DEF RetryFailed, InState, ItemsOf
    <3>2. tally'[k][s] = 0
      BY <1>6, <2>2 DEF RetryFailed, TypeOK, Tallies, Outcomes
    <3> QED BY <3>1, <3>2, FS_EmptySet
  <2>3. CASE k # j \/ (s # "queued" /\ s # "failed")
    <3>1. InState(k, s)' = InState(k, s)
      BY <1>6, <2>3 DEF RetryFailed, InState, ItemsOf, Tallies, Outcomes
    <3>2. tally'[k][s] = tally[k][s]
      BY <1>6, <2>3 DEF RetryFailed, TypeOK, Tallies
    <3> QED BY <3>1, <3>2 DEF CountersMatch
  <2> QED BY <2>1, <2>2, <2>3
<1>7. ASSUME NEW c \in Clients, DeleteJob(c) PROVE CountersMatch'
  <2> SUFFICES ASSUME NEW k \in Jobs, NEW s \in Tallies
               PROVE  tally'[k][s] = Cardinality(InState(k, s)')
    BY DEF CountersMatch
  <2> DEFINE j == req[c].job
  <2>1. CASE k = j
    <3>1. InState(k, s)' = {}
      BY <1>7, <2>1 DEF DeleteJob, InState, ItemsOf, Tallies, Outcomes
    <3> QED BY <1>7, <2>1, <3>1, FS_EmptySet DEF DeleteJob, TypeOK
  <2>2. CASE k # j
    <3>1. InState(k, s)' = InState(k, s)
      BY <1>7, <2>2 DEF DeleteJob, InState, ItemsOf
    <3> QED BY <1>7, <2>2, <3>1 DEF DeleteJob, TypeOK, CountersMatch
  <2> QED BY <2>1, <2>2
<1>8. ASSUME NEW w \in Workers,
             \/ LoadContext(w) \/ (\E r \in Outcomes : IngestReturns(w, r))
             \/ IngestRaises(w) \/ DiscardStale(w) \/ ReportRaises(w) \/ Heartbeat(w)
      PROVE CountersMatch'
  <2>1. UNCHANGED <<istat, tally>>
    BY <1>8 DEF LoadContext, IngestReturns, IngestRaises, DiscardStale, ReportRaises,
         Heartbeat, jobVars, itemVars
  <2> QED BY <2>1, SameItemsSameCounts
<1>9. ASSUME NEW c \in Clients,
             \/ WriteNothing(c) \/ SetPaused(c)
             \/ \E op \in Ops, j \in Jobs : ReadJob(c, op, j)
      PROVE CountersMatch'
  <2>1. UNCHANGED <<istat, tally>>
    BY <1>9 DEF WriteNothing, SetPaused, ReadJob, jobVars, itemVars
  <2> QED BY <2>1, SameItemsSameCounts
<1>10. CASE \/ Crash \/ StartServer \/ UNCHANGED vars
            \/ \E i \in Items : LeaseRunsOut(i) \/ HeartbeatsMissed(i)
  <2>1. UNCHANGED <<istat, tally>>
    BY <1>10 DEF Crash, StartServer, LeaseRunsOut, HeartbeatsMissed, vars, jobVars, itemVars
  <2> QED BY <2>1, SameItemsSameCounts
<1> QED
  BY <1>1, <1>2, <1>3, <1>4, <1>5, <1>6, <1>7, <1>8, <1>9, <1>10
     DEF Next, WorkerStep, ClientStep

(* The progress counters always equal the items they count, whatever the   *)
(* number of workers and requests and whatever fails.                      *)
THEOREM CountersHold == Spec => []CountersMatch
<1>1. Init => CountersMatch
  BY DEF Init, CountersMatch
<1>2. IInv /\ CountersMatch /\ [Next]_vars => CountersMatch'
  BY CountersStep
<1> QED BY <1>1, <1>2, StructureHolds, PTL DEF Spec

-----------------------------------------------------------------------------
(* A completed job has nothing open and a cancelled one nothing queued.    *)

(* Jobs whose status and items do not change stay as they are.             *)
LEMMA SameRowsSameClosed ==
    ASSUME UNCHANGED <<istat, status>>, ClosedJobsHaveNoQueue
    PROVE  ClosedJobsHaveNoQueue'
BY DEF ClosedJobsHaveNoQueue, Unfinished, InState

(* What an action must show: it touches one job j only, and leaves that    *)
(* job closed properly.                                                    *)
LEMMA OneJobClosed ==
    ASSUME TypeOK, ClosedJobsHaveNoQueue, NEW j \in Jobs,
           \A i \in Items : JobOf[i] # j => istat'[i] = istat[i],
           \A k \in Jobs : k # j => status'[k] = status[k],
           status'[j] = "completed"
             => \A i \in ItemsOf(j) : istat'[i] \notin {"queued", "processing"},
           status'[j] = "cancelled" => \A i \in ItemsOf(j) : istat'[i] # "queued"
    PROVE  ClosedJobsHaveNoQueue'
<1> SUFFICES ASSUME NEW k \in Jobs
             PROVE  /\ status'[k] = "completed" => Unfinished(k)' = {}
                    /\ status'[k] = "cancelled" => InState(k, "queued")' = {}
  BY DEF ClosedJobsHaveNoQueue
<1>1. CASE k = j
  BY <1>1 DEF Unfinished, InState
<1>2. CASE k # j
  <2>1. \A i \in ItemsOf(k) : istat'[i] = istat[i]
    BY <1>2 DEF ItemsOf
  <2>2. Unfinished(k)' = Unfinished(k) /\ InState(k, "queued")' = InState(k, "queued")
    BY <2>1 DEF Unfinished, InState, ItemsOf
  <2> QED BY <1>2, <2>2 DEF ClosedJobsHaveNoQueue
<1> QED BY <1>1, <1>2

(* Every step keeps closed jobs closed, one action at a time.              *)
LEMMA ClosedStep ==
    IInv /\ ClosedJobsHaveNoQueue /\ [Next]_vars => ClosedJobsHaveNoQueue'
<1> SUFFICES ASSUME IInv, ClosedJobsHaveNoQueue, [Next]_vars
             PROVE  ClosedJobsHaveNoQueue'
  OBVIOUS
<1> USE DEF IInv
<1>1. ASSUME NEW j \in Jobs, CreateJob(j) PROVE ClosedJobsHaveNoQueue'
  <2>1. status'[j] = "queued" /\ \A k \in Jobs : k # j => status'[k] = status[k]
    BY <1>1 DEF CreateJob, TypeOK
  <2>2. \A i \in Items : JobOf[i] # j => istat'[i] = istat[i]
    BY <1>1 DEF CreateJob
  <2> QED BY <2>1, <2>2, OneJobClosed
<1>2. ASSUME NEW w \in Workers, NEW i \in Items, ClaimQueued(w, i) \/ ReclaimExpired(w, i)
      PROVE ClosedJobsHaveNoQueue'
  <2>1. TakeLease(w, i)
    BY <1>2 DEF ClaimQueued, ReclaimExpired
  <2>2. PICK j \in Jobs : j = JobOf[i]
    OBVIOUS
  <2>3. status'[j] = "running" /\ \A k \in Jobs : k # j => status'[k] = status[k]
    BY <2>1, <2>2 DEF TakeLease, TypeOK
  <2>4. \A k \in Items : JobOf[k] # j => istat'[k] = istat[k]
    BY <2>1, <2>2 DEF TakeLease, TypeOK
  <2> QED BY <2>3, <2>4, OneJobClosed
<1>3. ASSUME NEW w \in Workers, Report(w) PROVE ClosedJobsHaveNoQueue'
  <2>1. PICK i \in Items, j \in Jobs, r \in Outcomes :
           i = witem[w] /\ r = wres[w] /\ j = JobOf[i]
    BY <1>3 DEF Report, WorkersHoldItems, Busy
  <2>2. /\ istat[i] = "processing"
        /\ istat' = [istat EXCEPT ![i] = r]
        /\ status' = IF Unfinished(j) \ {i} = {} /\ status[j] # "cancelled"
                     THEN [status EXCEPT ![j] = "completed"] ELSE status
    BY <1>3, <2>1 DEF Report, Owns, Finalize, LastOpen
  <2>3. status[j] # "completed"
    BY <2>1, <2>2 DEF ClosedJobsHaveNoQueue, Unfinished, InState, ItemsOf
  <2>4. \A k \in Items : JobOf[k] # j => istat'[k] = istat[k]
    BY <2>1, <2>2 DEF TypeOK
  <2>5. \A k \in Jobs : k # j => status'[k] = status[k]
    BY <2>1, <2>2 DEF TypeOK
  <2>6. status'[j] = "completed"
          => \A k \in ItemsOf(j) : istat'[k] \notin {"queued", "processing"}
    BY <2>1, <2>2, <2>3 DEF TypeOK, Unfinished, InState, ItemsOf, Outcomes
  <2>7. status'[j] = "cancelled" => \A k \in ItemsOf(j) : istat'[k] # "queued"
    <3>1. status'[j] = "cancelled" => status[j] = "cancelled"
      BY <2>2 DEF TypeOK
    <3>2. status[j] = "cancelled" => \A k \in ItemsOf(j) : istat[k] # "queued"
      BY DEF ClosedJobsHaveNoQueue, InState
    <3> QED BY <2>1, <2>2, <3>1, <3>2 DEF TypeOK, ItemsOf, Outcomes
  <2> QED BY <2>4, <2>5, <2>6, <2>7, OneJobClosed
<1>4. ASSUME NEW c \in Clients, CancelJob(c) \/ RetryFailed(c) \/ DeleteJob(c)
      PROVE ClosedJobsHaveNoQueue'
  <2>1. PICK j \in Jobs : j = req[c].job
    <3>1. \E ops \in SUBSET Ops : Writing(c, ops)
      BY <1>4 DEF CancelJob, RetryFailed, DeleteJob, Ops
    <3>2. req[c] # NoReq
      BY <3>1 DEF Writing, Ops, NoReq
    <3> QED BY <3>2 DEF TypeOK, Requests
  <2>2. \A k \in Jobs : k # j => status'[k] = status[k]
    BY <1>4, <2>1 DEF CancelJob, RetryFailed, DeleteJob, TypeOK
  <2>3. \A i \in Items : JobOf[i] # j => istat'[i] = istat[i]
    BY <1>4, <2>1 DEF CancelJob, RetryFailed, DeleteJob, InState, ItemsOf
  <2>4. CASE CancelJob(c)
    <3>1. status'[j] = "cancelled"
      BY <2>1, <2>4 DEF CancelJob, TypeOK
    <3>2. \A i \in ItemsOf(j) : istat'[i] # "queued"
      BY <2>1, <2>4 DEF CancelJob, InState, ItemsOf
    <3> QED BY <2>2, <2>3, <3>1, <3>2, OneJobClosed
  <2>5. CASE RetryFailed(c) \/ DeleteJob(c)
    <3>1. status'[j] \in {"queued", "deleted"}
      BY <2>1, <2>5 DEF RetryFailed, DeleteJob, TypeOK
    <3> QED BY <2>2, <2>3, <3>1, OneJobClosed
  <2> QED BY <1>4, <2>4, <2>5
<1>5. ASSUME NEW w \in Workers,
             \/ LoadContext(w) \/ (\E r \in Outcomes : IngestReturns(w, r))
             \/ IngestRaises(w) \/ DiscardStale(w) \/ ReportRaises(w) \/ Heartbeat(w)
      PROVE ClosedJobsHaveNoQueue'
  <2>1. UNCHANGED <<istat, status>>
    BY <1>5 DEF LoadContext, IngestReturns, IngestRaises, DiscardStale, ReportRaises,
         Heartbeat, jobVars, itemVars
  <2> QED BY <2>1, SameRowsSameClosed
<1>6. ASSUME NEW c \in Clients,
             \/ WriteNothing(c) \/ SetPaused(c)
             \/ \E op \in Ops, j \in Jobs : ReadJob(c, op, j)
      PROVE ClosedJobsHaveNoQueue'
  <2>1. UNCHANGED <<istat, status>>
    BY <1>6 DEF WriteNothing, SetPaused, ReadJob, jobVars, itemVars
  <2> QED BY <2>1, SameRowsSameClosed
<1>7. CASE \/ Crash \/ StartServer \/ UNCHANGED vars
           \/ \E i \in Items : LeaseRunsOut(i) \/ HeartbeatsMissed(i)
  <2>1. UNCHANGED <<istat, status>>
    BY <1>7 DEF Crash, StartServer, LeaseRunsOut, HeartbeatsMissed, vars, jobVars, itemVars
  <2> QED BY <2>1, SameRowsSameClosed
<1> QED
  BY <1>1, <1>2, <1>3, <1>4, <1>5, <1>6, <1>7 DEF Next, WorkerStep, ClientStep

(* A job shown as completed never has an open item, and a cancelled one    *)
(* never a queued item, for any number of concurrent requests.             *)
THEOREM ClosedJobsHold == Spec => []ClosedJobsHaveNoQueue
<1>1. Init => ClosedJobsHaveNoQueue
  BY DEF Init, ClosedJobsHaveNoQueue
<1>2. IInv /\ ClosedJobsHaveNoQueue /\ [Next]_vars => ClosedJobsHaveNoQueue'
  BY ClosedStep
<1> QED BY <1>1, <1>2, StructureHolds, PTL DEF Spec
=============================================================================
