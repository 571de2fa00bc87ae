------------------------------- MODULE Capture -------------------------------
(***************************************************************************)
(* Captures: CaptureService (app/services/capture_service.py) over         *)
(* CaptureStore (app/db/capture_store.py, postgres_capture_store.py).      *)
(*                                                                         *)
(* A capture is a row whose status the capture thread moves along while    *)
(* the ingest reports its stages.  A retry starts another thread for the   *)
(* same row, whether or not one is at work.                                *)
(***************************************************************************)
EXTENDS IngestCalls

CONSTANTS
    Captures,       \* captures that may be made
    UrlOf,          \* the URL of a capture
    CaptureThreads  \* capture threads that may be alive at once

ASSUME UrlOfAssumption == UrlOf \in [Captures -> Urls]
ASSUME CaptureThreadsAssumption == CaptureThreads \subseteq Callers

VARIABLES
    capture,   \* captures.status, "absent" when there is no row
    cthread,   \* program counter of a thread and its capture
    retrying   \* captures whose retry has read the row and not yet written

captureVars == <<capture, cthread, retrying>>

(* "processing" stands for all the stages from metadata to embedding.      *)
Stages  == {"queued", "processing", "retry", "skipped", "completed", "failed"}
Settled == {"completed", "failed"}
Resting == [at |-> "idle", capture |-> None]

CaptureTypeOK ==
    /\ capture \in [Captures -> Stages \cup {"absent"}]
    /\ cthread \in [CaptureThreads -> [at : {"idle", "call", "ingest", "rescue"},
                                       capture : Captures \cup {None}]]
    /\ retrying \subseteq Captures

CaptureInit ==
    /\ capture = [c \in Captures |-> "absent"]
    /\ cthread = [t \in CaptureThreads |-> Resting]
    /\ retrying = {}

RunsFor(c)  == {t \in CaptureThreads : cthread[t].capture = c}
Show(t, s)  == capture' = [capture EXCEPT ![cthread[t].capture] = s]
Launch(t, c) == cthread' = [cthread EXCEPT ![t] = [at |-> "call", capture |-> c]]
Rest(t)     == cthread' = [cthread EXCEPT ![t] = Resting]

-----------------------------------------------------------------------------
(* capture_url: the row, then the thread (or, without async_processing,    *)
(* the request itself).                                                    *)
CaptureUrl(c, t) ==
    /\ capture[c] = "absent" /\ cthread[t] = Resting
    /\ capture' = [capture EXCEPT ![c] = "queued"]
    /\ Launch(t, c)
    /\ UNCHANGED <<retrying, callVars>>

(* retry_capture: get_retry_payload ...                                    *)
RetryReads(c) ==
    /\ capture[c] # "absent" /\ c \notin retrying
    /\ retrying' = retrying \cup {c}
    /\ UNCHANGED <<capture, cthread, callVars>>

(* ... then "queued" and a thread, whatever the capture is doing by now.   *)
RetryStarts(c, t) ==
    /\ c \in retrying /\ cthread[t] = Resting
    /\ capture' = [capture EXCEPT ![c] = "queued"]
    /\ Launch(t, c)
    /\ retrying' = retrying \ {c}
    /\ UNCHANGED callVars

-----------------------------------------------------------------------------
(* _run_capture_pipeline                                                   *)

CallCapture(t) ==
    /\ cthread[t].at = "call"
    /\ BeginCall(t, UrlOf[cthread[t].capture], FALSE)
    /\ cthread' = [cthread EXCEPT ![t].at = "ingest"]
    /\ UNCHANGED <<capture, retrying, stored, urlIndex, queue, faults>>

(* on_stage.  A page reports "indexed", shown as completed, before its     *)
(* first write; a video after its last.                                    *)
StagesOf(t) ==
    IF calls[t].at = "running"
    THEN {"queued", "processing"} \cup (IF UrlOf[cthread[t].capture] \in Videos THEN {} ELSE {"completed"})
    ELSE CASE calls[t].res = "failed" -> {"failed", "retry"}
           [] calls[t].res = "skipped" -> {"skipped", "completed"}
           [] calls[t].res = "success" -> {"completed"}

ReportStage(t) ==
    /\ cthread[t].at = "ingest" /\ calls[t].at \in {"running", "done"}
    /\ \E s \in StagesOf(t) : Show(t, s)
    /\ UNCHANGED <<cthread, retrying, callVars>>

(* Mutant of FinishCapture: a skipped ingest is left at its last stage.    *)
FinishUnlessSkipped(t) ==
    /\ cthread[t].at = "ingest" /\ calls[t].at = "done"
    /\ IF calls[t].res = "skipped" THEN UNCHANGED capture
       ELSE Show(t, IF calls[t].res = "failed" THEN "failed" ELSE "completed")
    /\ TakeAnswer(t)
    /\ Rest(t)
    /\ UNCHANGED <<retrying, stored, urlIndex, queue, faults>>

(* The last _update_stage.                                                 *)
FinishCapture(t) ==
    /\ cthread[t].at = "ingest" /\ calls[t].at = "done"
    /\ Show(t, IF calls[t].res = "failed" THEN "failed" ELSE "completed")
    /\ TakeAnswer(t)
    /\ Rest(t)
    /\ UNCHANGED <<retrying, stored, urlIndex, queue, faults>>

(* The last _update_stage raises ...                                       *)
FinishRaises(t) ==
    /\ cthread[t].at = "ingest" /\ calls[t].at = "done" /\ Fault
    /\ cthread' = [cthread EXCEPT ![t].at = "rescue"]
    /\ TakeAnswer(t)
    /\ UNCHANGED <<capture, retrying, stored, urlIndex, queue>>

(* ... and the except branch shows a failure ...                           *)
RescueCapture(t) ==
    /\ cthread[t].at = "rescue"
    /\ Show(t, "failed")
    /\ Rest(t)
    /\ UNCHANGED <<retrying, callVars>>

(* ... unless that raises too.                                             *)
RescueRaises(t) ==
    /\ cthread[t].at = "rescue" /\ Fault
    /\ Rest(t)
    /\ UNCHANGED <<capture, retrying, stored, urlIndex, queue, calls>>

CaptureThreadStep(t) ==
    \/ CallCapture(t)
    \/ FinishCapture(t)
    \/ RescueCapture(t)

CaptureFault(t) == FinishRaises(t) \/ RescueRaises(t)
=============================================================================
