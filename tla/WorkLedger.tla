----------------------------- MODULE WorkLedger -----------------------------
(***************************************************************************)
(* What the job stores promise about the ITEMS of a playlist job, whatever *)
(* database keeps them and however many workers, requests and crashes      *)
(* there are ("atomic claims, leases, retry and stale-worker fencing",     *)
(* MASTER_SPEC.md, F-35):                                                  *)
(*   - an item is handed to one holder at a time, and taken from a holder  *)
(*     only when its lease has run out;                                    *)
(*   - only the current holder settles an item or renews its lease: a      *)
(*     worker that lost the item can only give it up;                      *)
(*   - a completed or skipped item is never handed out again, a cancelled  *)
(*     one neither, and what is removed does not come back.                *)
(* Jobs, counters, threads and requests are not visible here.  JobQueue    *)
(* implements this specification through its mapping Ledger.               *)
(***************************************************************************)
CONSTANTS Items, Workers, None

VARIABLES
    state,    \* what the ledger says of an item
    holder,   \* who may settle it, or None
    overdue,  \* its holder's lease has run out
    task      \* the item a worker was handed and still works on, or None

vars == <<state, holder, overdue, task>>

Results == {"completed", "skipped", "failed"}

(* Items already being processed at the start have no holder on record.    *)
Init ==
    /\ state   \in [Items -> {"none", "queued", "processing"}]
    /\ holder  = [i \in Items |-> None]
    /\ overdue = [i \in Items |-> FALSE]
    /\ task    = [w \in Workers |-> None]

(* Moving every item of S from one state to another.                       *)
Move(S, from, to) ==
    /\ \A i \in S : state[i] \in from
    /\ state' = [i \in Items |-> IF i \in S THEN to ELSE state[i]]

Offer(S)    == Move(S, {"none"}, "queued")      /\ UNCHANGED <<holder, overdue, task>>
Withdraw(S) == Move(S, {"queued"}, "cancelled") /\ UNCHANGED <<holder, overdue, task>>
Reissue(S)  == Move(S, {"failed"}, "queued")    /\ UNCHANGED <<holder, overdue, task>>

Remove(S) ==
    /\ state'   = [i \in Items |-> IF i \in S THEN "gone" ELSE state[i]]
    /\ holder'  = [i \in Items |-> IF i \in S THEN None ELSE holder[i]]
    /\ overdue' = [i \in Items |-> IF i \in S THEN FALSE ELSE overdue[i]]
    /\ UNCHANGED task

Take(w, i) ==
    /\ task[w] = None
    /\ \/ state[i] = "queued"
       \/ state[i] = "processing" /\ overdue[i]
    /\ state'   = [state   EXCEPT ![i] = "processing"]
    /\ holder'  = [holder  EXCEPT ![i] = w]
    /\ overdue' = [overdue EXCEPT ![i] = FALSE]
    /\ task'    = [task    EXCEPT ![w] = i]

Lapse(i) ==
    /\ state[i] = "processing" /\ ~overdue[i]
    /\ overdue' = [overdue EXCEPT ![i] = TRUE]
    /\ UNCHANGED <<state, holder, task>>

Renew(w, i) ==
    /\ state[i] = "processing" /\ holder[i] = w /\ task[w] = i
    /\ overdue' = [overdue EXCEPT ![i] = FALSE]
    /\ UNCHANGED <<state, holder, task>>

Settle(w, i, r) ==
    /\ state[i] = "processing" /\ holder[i] = w /\ task[w] = i
    /\ state'   = [state   EXCEPT ![i] = r]
    /\ holder'  = [holder  EXCEPT ![i] = None]
    /\ overdue' = [overdue EXCEPT ![i] = FALSE]
    /\ task'    = [task    EXCEPT ![w] = None]

(* The workers of W discard what they have, or die.                        *)
GiveUp(W) ==
    /\ task' = [w \in Workers |-> IF w \in W THEN None ELSE task[w]]
    /\ UNCHANGED <<state, holder, overdue>>

Next ==
    \/ \E S \in SUBSET Items : Offer(S) \/ Withdraw(S) \/ Reissue(S) \/ Remove(S)
    \/ \E i \in Items : Lapse(i) \/ \E w \in Workers : Renew(w, i) \/ Take(w, i)
    \/ \E W \in SUBSET Workers : GiveUp(W)
    \/ \E i \in Items, w \in Workers, r \in Results : Settle(w, i, r)

Spec == Init /\ [][Next]_vars
=============================================================================
