------------------------------ MODULE ImportRun ------------------------------
(***************************************************************************)
(* Imports: ImportManager (app/services/import_manager.py) over            *)
(* ImportRunStore (app/db/import_run_store.py, postgres_import_run_store)  *)
(* and the requests of app/api/routes/imports.py.                          *)
(*                                                                         *)
(* Every start of an import is a new thread, also when one is running; the *)
(* thread walks through all items whatever their status.  A cancel is a    *)
(* read and two writes in three transactions; the thread only looks at the *)
(* stored status between items.                                            *)
(***************************************************************************)
EXTENDS IngestCalls

CONSTANTS
    Runs,          \* imports
    ItemsOf,       \* the URLs of an import; "bad" does not start with http
    ImportThreads  \* import threads that may be alive at once

ASSUME RunsAssumption == ItemsOf \in [Runs -> Seq(Urls \cup {"bad"})]
ASSUME ImportThreadsAssumption == ImportThreads \subseteq Callers

VARIABLES
    run,       \* import_runs.status, "absent" before create_import
    totals,    \* import_runs.{completed,failed,skipped,duplicate,unsupported}_items
    items,     \* import_run_items.status
    cancel,    \* how far a cancel request of an import has come
    ithread,   \* program counter, import, item and counters of a thread
    miscounts  \* history: items an exception made a thread count twice

importVars == <<run, totals, items, cancel, ithread, miscounts>>

NoCount == [completed |-> 0, failed |-> 0, skipped |-> 0, duplicate |-> 0,
            unsupported |-> 0]
Tally   == [DOMAIN NoCount -> Nat]
Gone    == [at |-> "idle", run |-> None, k |-> 0, n |-> NoCount, to |-> "queued"]
ItemStates == {"queued", "processing", "completed", "failed", "duplicate",
               "unsupported", "cancelled"}
Finals == {"completed", "partial", "failed"}

ImportTypeOK ==
    /\ run \in [Runs -> {"absent", "queued", "running", "cancelled"} \cup Finals]
    /\ totals \in [Runs -> Tally]
    /\ \A r \in Runs : items[r] \in [1..Len(ItemsOf[r]) -> ItemStates]
    /\ cancel \in [Runs -> {"no", "read", "written"}]
    /\ ithread \in [ImportThreads ->
         [at : {"idle", "start", "check", "dupes", "mark", "call", "register",
                "settle", "rescue", "stop", "finish"},
          run : Runs \cup {None}, k : Nat, n : Tally, to : ItemStates]]
    /\ miscounts \in [Runs -> Nat]

ImportInit ==
    /\ run = [r \in Runs |-> "absent"]
    /\ totals = [r \in Runs |-> NoCount]
    /\ items = [r \in Runs |-> [k \in 1..Len(ItemsOf[r]) |-> "queued"]]
    /\ cancel = [r \in Runs |-> "no"]
    /\ ithread = [t \in ImportThreads |-> Gone]
    /\ miscounts = [r \in Runs |-> 0]

At(t, pc)   == ithread[t].at = pc
RunOf(t)    == ithread[t].run
Item(t)     == ItemsOf[RunOf(t)][ithread[t].k]
GoTo(t, pc) == ithread' = [ithread EXCEPT ![t].at = pc]

(* Add one to the counters of S and go on with a status for the item.      *)
Plus1(n, S) == [s \in DOMAIN NoCount |-> IF s \in S THEN n[s] + 1 ELSE n[s]]
CountAs(t, S, pc, status) ==
    ithread' = [ithread EXCEPT ![t] =
                  [at |-> pc, run |-> @.run, k |-> @.k, n |-> Plus1(@.n, S), to |-> status]]

SetItem(t, status) ==
    items' = [items EXCEPT ![RunOf(t)][ithread[t].k] = status]

-----------------------------------------------------------------------------
(* Requests                                                                *)

CreateImport(r) ==
    /\ run[r] = "absent"
    /\ run' = [run EXCEPT ![r] = "queued"]
    /\ UNCHANGED <<totals, items, cancel, ithread, miscounts, callVars>>

StartImport(r, t) ==
    /\ run[r] # "absent" /\ At(t, "idle")
    /\ ithread' = [ithread EXCEPT ![t] =
                  [at |-> "start", run |-> r, k |-> 1, n |-> NoCount, to |-> "queued"]]
    /\ UNCHANGED <<run, totals, items, cancel, miscounts, callVars>>

(* cancel_import: get_import and its early return ...                      *)
CancelReads(r) ==
    /\ cancel[r] = "no"
    /\ run[r] \notin {"absent", "completed", "cancelled"}
    /\ cancel' = [cancel EXCEPT ![r] = "read"]
    /\ UNCHANGED <<run, totals, items, ithread, miscounts, callVars>>

(* ... _set_run, whatever the status has become ...                        *)
CancelWrites(r) ==
    /\ cancel[r] = "read"
    /\ run' = [run EXCEPT ![r] = "cancelled"]
    /\ cancel' = [cancel EXCEPT ![r] = "written"]
    /\ UNCHANGED <<totals, items, ithread, miscounts, callVars>>

(* ... and cancel_items.                                                   *)
CancelItems(r) ==
    /\ cancel[r] = "written"
    /\ items' = [items EXCEPT ![r] = [k \in DOMAIN @ |->
                   IF @[k] \in {"queued", "processing"} THEN "cancelled" ELSE @[k]]]
    /\ cancel' = [cancel EXCEPT ![r] = "no"]
    /\ UNCHANGED <<run, totals, ithread, miscounts, callVars>>

-----------------------------------------------------------------------------
(* _run_import                                                             *)

SetRunning(t) ==
    /\ At(t, "start")
    /\ run' = [run EXCEPT ![RunOf(t)] = "running"]
    /\ GoTo(t, "check")
    /\ UNCHANGED <<totals, items, cancel, miscounts, callVars>>

(* _is_cancelled, before every item and once more after the last.          *)
CheckCancelled(t) ==
    LET r == RunOf(t) IN
    /\ At(t, "check")
    /\ IF run[r] = "cancelled" THEN GoTo(t, "stop")
       ELSE IF ithread[t].k > Len(ItemsOf[r]) THEN GoTo(t, "finish")
       ELSE IF Item(t) = "bad" THEN CountAs(t, {"unsupported"}, "settle", "unsupported")
       ELSE GoTo(t, "dupes")
    /\ UNCHANGED <<run, totals, items, cancel, miscounts, callVars>>

(* Mutant of LookUpDuplicate: a duplicate is not counted as skipped.       *)
LookUpUncounted(t) ==
    /\ At(t, "dupes")
    /\ IF Item(t) \in urlIndex
       THEN CountAs(t, {"duplicate"}, "settle", "duplicate")
       ELSE GoTo(t, "mark")
    /\ UNCHANGED <<run, totals, items, cancel, miscounts, callVars>>

(* The URL index knows the submitted form of the URL only if it is the     *)
(* canonical one.                                                          *)
LookUpDuplicate(t) ==
    /\ At(t, "dupes")
    /\ IF Item(t) \in urlIndex
       THEN CountAs(t, {"duplicate", "skipped"}, "settle", "duplicate")
       ELSE GoTo(t, "mark")
    /\ UNCHANGED <<run, totals, items, cancel, miscounts, callVars>>

(* Mutant of MarkProcessing: the run is marked, too.                       *)
MarkRunAndItem(t) ==
    /\ At(t, "mark")
    /\ SetItem(t, "processing")
    /\ run' = [run EXCEPT ![RunOf(t)] = "running"]
    /\ GoTo(t, "call")
    /\ UNCHANGED <<totals, cancel, miscounts, callVars>>

MarkProcessing(t) ==
    /\ At(t, "mark")
    /\ SetItem(t, "processing")
    /\ GoTo(t, "call")
    /\ UNCHANGED <<run, totals, cancel, miscounts, callVars>>

CallIngest(t) ==
    /\ At(t, "call") /\ BeginCall(t, Item(t), FALSE)
    /\ UNCHANGED <<importVars, stored, urlIndex, queue, faults>>

IngestAnswers(t) ==
    /\ At(t, "call") /\ calls[t].at = "done"
    /\ CASE calls[t].res = "skipped" ->
               CountAs(t, {"duplicate", "skipped"}, "settle", "duplicate")
         [] calls[t].res = "success" -> CountAs(t, {"completed"}, "register", "completed")
         [] calls[t].res = "failed"  -> CountAs(t, {"failed"}, "settle", "failed")
    /\ TakeAnswer(t)
    /\ UNCHANGED <<run, totals, items, cancel, miscounts, stored, urlIndex, queue, faults>>

RegisterUrl(t) ==
    /\ At(t, "register")
    /\ urlIndex' = urlIndex \cup {Canon[Item(t)]}
    /\ GoTo(t, "settle")
    /\ UNCHANGED <<run, totals, items, cancel, miscounts, stored, queue, calls, faults>>

(* The last _set_item of an item, in the try block or in its except branch.*)
SettleItem(t) ==
    /\ At(t, "settle") \/ At(t, "rescue")
    /\ SetItem(t, ithread[t].to)
    /\ ithread' = [ithread EXCEPT ![t] =
                  [at |-> "check", run |-> @.run, k |-> @.k + 1, n |-> @.n, to |-> @.to]]
    /\ UNCHANGED <<run, totals, cancel, miscounts, callVars>>

(* A store call inside the try block raises.  The item is counted as       *)
(* failed, also when it has been counted already.                          *)
ItemRaises(t) ==
    /\ ithread[t].at \in {"dupes", "mark", "register", "settle"}
    /\ Fault
    /\ CountAs(t, {"failed"}, "rescue", "failed")
    /\ miscounts' = IF ithread[t].at \in {"register", "settle"}
                    THEN [miscounts EXCEPT ![RunOf(t)] = @ + 1] ELSE miscounts
    /\ UNCHANGED <<run, totals, items, cancel, stored, urlIndex, queue, calls>>

(* A store call outside of it raises: the thread is gone.                  *)
ImportThreadDies(t) ==
    /\ ithread[t].at \in {"start", "check", "rescue", "stop", "finish"}
    /\ Fault
    /\ ithread' = [ithread EXCEPT ![t] = Gone]
    /\ UNCHANGED <<run, totals, items, cancel, miscounts, stored, urlIndex, queue, calls>>

(* Mutant of FinalStatus: a status the table does not know.                *)
StatusOfNothing(n) == IF n.completed = 0 THEN "empty" ELSE "completed"

FinalStatus(n) == IF n.failed = 0 THEN "completed"
                  ELSE IF n.completed > 0 THEN "partial" ELSE "failed"

EndRun(t, status) ==
    /\ run' = [run EXCEPT ![RunOf(t)] = status]
    /\ totals' = [totals EXCEPT ![RunOf(t)] = ithread[t].n]
    /\ ithread' = [ithread EXCEPT ![t] = Gone]
    /\ UNCHANGED <<items, cancel, miscounts, callVars>>

StopCancelled(t) == At(t, "stop")   /\ EndRun(t, "cancelled")
FinishRun(t)     == At(t, "finish") /\ EndRun(t, FinalStatus(ithread[t].n))

ImportThreadStep(t) ==
    \/ SetRunning(t)
    \/ CheckCancelled(t)
    \/ LookUpDuplicate(t)
    \/ MarkProcessing(t)
    \/ CallIngest(t)
    \/ IngestAnswers(t)
    \/ RegisterUrl(t)
    \/ SettleItem(t)
    \/ StopCancelled(t)
    \/ FinishRun(t)

ImportFault(t) == ItemRaises(t) \/ ImportThreadDies(t)
CancelStep(r)  == CancelWrites(r) \/ CancelItems(r)
=============================================================================
