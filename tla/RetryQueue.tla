------------------------------ MODULE RetryQueue ------------------------------
(***************************************************************************)
(* Requests to work off the retry queue of failed YouTube ingests:         *)
(* process_retry_queue (app/api/routes/youtube.py) over the stores         *)
(* sqlite_youtube_memory_store.py and postgres_youtube_memory_store.py.    *)
(*                                                                         *)
(* claim_due_retries only reads: it hands out copies of rows, and two      *)
(* requests may get the same ones.  A failed retry is counted twice when   *)
(* the transcript was missing again, by the ingest and by the request.     *)
(***************************************************************************)
EXTENDS IngestCalls, Functions

CONSTANT RetryThreads  \* requests working off the queue at once

ASSUME RetryThreadsAssumption == RetryThreads \subseteq Callers

VARIABLE qthread       \* program counter and claimed rows of a request

Unasked      == [at |-> "idle", due |-> <<>>, row |-> 0, seen |-> 0]
Working(due) == [at |-> "call", due |-> due, row |-> 0, seen |-> 0]

RetryTypeOK ==
    qthread \in [RetryThreads ->
        [at : {"idle", "call", "complete", "look", "count"},
         due : Seq([id : Nat, url : Urls, attempts : Nat]), row : Nat, seen : Nat]]

RetryInit == qthread = [t \in RetryThreads |-> Unasked]

Due(t)      == Head(qthread[t].due)
QueueGo(t, pc) == qthread' = [qthread EXCEPT ![t].at = pc]

(* On to the next claimed row, or to the end of the request.               *)
NextDue(t) ==
    qthread' = [qthread EXCEPT ![t] =
                  IF Len(@.due) = 1 THEN Unasked
                  ELSE Working(Tail(@.due))]

(* claim_due_retries: any of the live rows may be due, in any order.       *)
ProcessRetries(t) ==
    /\ qthread[t] = Unasked
    /\ \E n \in 1..Len(queue) :
       \E ids \in Injection(1..n, {i \in 1..Len(queue) : queue[i].state = "live"}) :
          qthread' = [qthread EXCEPT ![t] = Working(
             [k \in 1..n |-> [id |-> ids[k], url |-> queue[ids[k]].url,
                              attempts |-> queue[ids[k]].attempts]])]
    /\ UNCHANGED callVars

CallRetry(t) ==
    /\ qthread[t].at = "call" /\ BeginCall(t, Due(t).url, TRUE)
    /\ UNCHANGED <<qthread, stored, urlIndex, queue, faults>>

RetryAnswers(t) ==
    /\ qthread[t].at = "call" /\ calls[t].at = "done"
    /\ QueueGo(t, IF calls[t].res = "failed" THEN "look" ELSE "complete")
    /\ TakeAnswer(t)
    /\ UNCHANGED <<stored, urlIndex, queue, faults>>

(* complete_retry, by id.                                                  *)
CompleteRetry(t) ==
    /\ qthread[t].at = "complete"
    /\ queue' = [queue EXCEPT ![Due(t).id].state = "gone"]
    /\ NextDue(t)
    /\ UNCHANGED <<stored, urlIndex, calls, faults>>

(* enqueue_retry, with the attempts of the claimed row.                    *)
LookAgain(t) ==
    /\ qthread[t].at = "look"
    /\ \E i \in 0..Len(queue) :
          /\ FoundRow(i, Due(t).url)
          /\ qthread' = [qthread EXCEPT ![t] =
                [at |-> "count", due |-> @.due, row |-> i, seen |-> SeenIn(i)]]
    /\ UNCHANGED callVars

CountAgain(t) ==
    /\ qthread[t].at = "count"
    /\ queue' = IF qthread[t].row # 0 THEN CountAttempt(qthread[t].row, qthread[t].seen)
                ELSE InsertRetry(Due(t).url, Due(t).attempts)
    /\ NextDue(t)
    /\ UNCHANGED <<stored, urlIndex, calls, faults>>

(* A store call raises: the request ends, the other rows stay as they are. *)
RetryRequestFails(t) ==
    /\ qthread[t].at \in {"complete", "look", "count"} /\ Fault
    /\ qthread' = [qthread EXCEPT ![t] = Unasked]
    /\ UNCHANGED <<stored, urlIndex, queue, calls>>

RetryStep(t) ==
    \/ CallRetry(t)
    \/ RetryAnswers(t)
    \/ CompleteRetry(t)
    \/ LookAgain(t)
    \/ CountAgain(t)
===============================================================================
