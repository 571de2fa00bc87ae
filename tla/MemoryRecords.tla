---------------------------- MODULE MemoryRecords ----------------------------
(***************************************************************************)
(* The canonical memory records (app/db/memory_store.py and its Postgres   *)
(* twin) and their lifecycle (memory_lifecycle_service.py), driven by the  *)
(* threads of the server.                                                  *)
(*                                                                         *)
(* A thread carries out a plan, a sequence of store calls (MemoryPlans).   *)
(* An upsert and a transition each read the record in one transaction and  *)
(* write it in a later one, so another thread may come between the two.    *)
(***************************************************************************)
EXTENDS MemoryPlans, FiniteSets

CONSTANTS
    Items,     \* a user's copy of a source
    Owner,     \* the user of an item
    Source,    \* the source an item is a copy of
    Pages,     \* the sources that are pages, not YouTube videos
    Threads,   \* threads of the server
    Starts,    \* the sets of items that may have been saved before
    None,
    MaxOps,    \* bound: requests and jobs begun
    MaxFaults  \* bound: store calls that raise, and crashes

ASSUME NamesAssumption == DOMAIN Owner = Items /\ DOMAIN Source = Items
ASSUME CopyAssumption ==   \* UNIQUE(user_id, source_type, external_id)
    \A i, j \in Items : Owner[i] = Owner[j] /\ Source[i] = Source[j] => i = j
ASSUME StartsAssumption == Starts \subseteq SUBSET Items
ASSUME NoneAssumption == None \notin Items \cup Threads
ASSUME BoundsAssumption == MaxOps \in Nat /\ MaxFaults \in Nat

VARIABLES
    record,   \* memory_records, by item: memory_id and lifecycle state
    nextId,   \* the next memory_id
    job,      \* what each thread is doing
    ops,      \* operations begun
    faults    \* faults so far

recordVars == <<record, nextId, job, ops, faults>>

Allowed(s) ==
    CASE s = "trusted"  -> {"merged", "archived"}
      [] s = "merged"   -> {"archived", "trusted"}
      [] s = "archived" -> {"revived"}
      [] s = "revived"  -> {"parsed", "enriched", "archived"}
      [] OTHER -> {"archived"} \cup {Pipeline[k + 1] : k \in {n \in 1..6 : Pipeline[n] = s}}

can_transition(from, to) == from = to \/ to \in Allowed(from)

Absent == [id |-> 0, state |-> "none"]
Idle   == [op |-> "idle", item |-> None, plan |-> <<>>, at |-> 0, path |-> <<>>,
           mid |-> 0, read |-> FALSE, seen |-> Absent, shared |-> FALSE, alone |-> FALSE,
           missed |-> {}, late |-> FALSE, ver |-> 0, began |-> 0, ans |-> {}]

RecordsInit(saved) ==
    /\ record = [i \in Items |-> IF i \in saved THEN [id |-> 1, state |-> "trusted"] ELSE Absent]
    /\ nextId = 2
    /\ job = [t \in Threads |-> Idle]
    /\ ops = 0
    /\ faults = 0

-----------------------------------------------------------------------------
(* Threads.                                                                *)

Begins(t) == ops < MaxOps /\ job[t] = Idle /\ ops' = ops + 1

(* path: the transitions of an advance still to be made, before the plan   *)
(* goes on.                                                                *)
Call(j) == IF j.path # <<>> THEN Head(j.path) ELSE Plan[j.plan][j.at]
Doing(t, kind) == job[t].plan # <<>> /\ Call(job[t])[1] = kind
Argument(t) == Call(job[t])[2]
Of(t) == job[t].item

LastCall(j) == j.at = Len(Plan[j.plan]) /\ Len(j.path) <= 1

(* The thread's job after its current call.                                *)
Stepped(j) ==
    IF LastCall(j) THEN Idle
    ELSE IF Len(j.path) > 1 THEN [j EXCEPT !.path = Tail(@), !.read = FALSE]
    ELSE [j EXCEPT !.at = @ + 1, !.path = <<>>, !.read = FALSE, !.seen = Absent]

Advances(t) == job' = [job EXCEPT ![t] = Stepped(@)]
Raises(t)   == job' = [job EXCEPT ![t] = Idle]

Fault == faults < MaxFaults /\ faults' = faults + 1

-----------------------------------------------------------------------------
(* upsert: <<"put", state>>, where "kept" leaves the state to what was read *)

PutReads(t) ==
    /\ Doing(t, "put") /\ ~job[t].read
    /\ job' = [job EXCEPT ![t].read = TRUE, ![t].seen = record[Of(t)]]
    /\ UNCHANGED <<record, nextId>>

(* Mutant of PutState: the word stands for itself.                         *)
PutStateLiteral(j) == Call(j)[2]

PutState(j) ==
    IF Call(j)[2] # "kept" THEN Call(j)[2]
    ELSE IF j.seen = Absent THEN "captured" ELSE j.seen.state

(* UNIQUE(user_id, source_type, external_id): another memory_id is there.  *)
PutConflicts(t) ==
    /\ Doing(t, "put") /\ job[t].read
    /\ record[Of(t)].id \notin {0, job[t].seen.id}
    /\ Raises(t)
    /\ UNCHANGED <<record, nextId>>

(* INSERT ... ON CONFLICT(memory_id) DO UPDATE: it also brings back a      *)
(* record that was deleted after it had been read.                         *)
PutWrites(t) ==
    LET j == job[t]
        fresh == j.seen.id = 0
        id == IF fresh THEN nextId ELSE j.seen.id
    IN
    /\ Doing(t, "put") /\ j.read
    /\ record[Of(t)].id \in {0, j.seen.id}
    /\ record' = [record EXCEPT ![Of(t)] = [id |-> id, state |-> PutState(j)]]
    /\ nextId' = IF fresh THEN nextId + 1 ELSE nextId
    /\ job' = [job EXCEPT ![t] = IF LastCall(j) THEN Idle
                                 ELSE [Stepped(j) EXCEPT !.mid = id]]

-----------------------------------------------------------------------------
(* advance_pipeline: <<"advance", target>> becomes a transition <<"to",    *)
(* state>> to every state between the one read and the target; a state     *)
(* outside of the pipeline counts as none, so all of them are tried.       *)

Place(s) == CHOOSE k \in 0..7 : IF \E n \in 1..7 : Pipeline[n] = s
                                THEN k > 0 /\ Pipeline[k] = s ELSE k = 0

Transitions(from, target) ==
    [k \in 1..(IF Place(target) > Place(from) THEN Place(target) - Place(from) ELSE 0) |->
        <<"to", Pipeline[Place(from) + k]>>]

AdvanceReads(t) ==
    LET path == Transitions(record[Of(t)].state, Argument(t)) IN
    /\ Doing(t, "advance") /\ record[Of(t)].id = job[t].mid
    /\ job' = [job EXCEPT ![t] = IF path = <<>> THEN Stepped(@) ELSE [@ EXCEPT !.path = path]]
    /\ UNCHANGED <<record, nextId>>

Missing(t) ==
    /\ Doing(t, "advance") \/ Doing(t, "to")
    /\ record[Of(t)].id # job[t].mid
    /\ Raises(t)
    /\ UNCHANGED <<record, nextId>>

(* transition: the state is read and checked ...                           *)
TransitionReads(t) ==
    LET s == record[Of(t)].state IN
    /\ Doing(t, "to") /\ ~job[t].read
    /\ record[Of(t)].id = job[t].mid
    /\ IF ~can_transition(s, Argument(t)) THEN Raises(t)
       ELSE IF s = Argument(t) THEN Advances(t)
       ELSE job' = [job EXCEPT ![t].read = TRUE]
    /\ UNCHANGED <<record, nextId>>

(* ... and written without another look.                                   *)
TransitionWrites(t) ==
    /\ Doing(t, "to") /\ job[t].read
    /\ record[Of(t)].id = job[t].mid
    /\ record' = [record EXCEPT ![Of(t)].state = Argument(t)]
    /\ Advances(t)
    /\ UNCHANGED nextId

RecordStep(t) ==
    \/ PutReads(t) \/ PutConflicts(t) \/ PutWrites(t)
    \/ AdvanceReads(t) \/ Missing(t)
    \/ TransitionReads(t) \/ TransitionWrites(t)

-----------------------------------------------------------------------------
(* The user's own changes of a memory.  merge looks at its target, which   *)
(* is another trusted memory of the user, before the transition.           *)

Asks(t, op, i, plan) ==
    /\ Begins(t) /\ record[i] # Absent
    /\ job' = [job EXCEPT ![t] = [Idle EXCEPT !.op = op, !.item = i, !.plan = plan,
                                              !.at = 1, !.mid = record[i].id]]
    /\ UNCHANGED <<record, nextId, faults>>

archive(t, i) == Asks(t, "state", i, <<"to", "archived">>)
revive(t, i)  == Asks(t, "state", i, <<"to", "revived">>)
merge(t, i)   ==
    /\ Asks(t, "state", i, <<"to", "merged">>)
    /\ \E j \in Items : j # i /\ Owner[j] = Owner[i] /\ record[j].state = "trusted"
=============================================================================
