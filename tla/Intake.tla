-------------------------------- MODULE Intake --------------------------------
(***************************************************************************)
(* The ways into the library together: imports, captures, ingest-agent     *)
(* rules and the retry queue of one user, on one pool of threads, over the *)
(* same stored sources, URL index and retry queue.                         *)
(***************************************************************************)
EXTENDS ImportRun, Capture, IngestAgent, RetryQueue

CONSTANTS MaxAsked,   \* bound: requests that start a thread
          MaxCancels  \* bound: cancel requests

ASSUME BoundsAssumption == MaxAsked \in Nat /\ MaxCancels \in Nat

VARIABLES asked,      \* requests so far
          cancels     \* cancel requests so far

vars == <<callVars, importVars, captureVars, agentVars, qthread, asked, cancels>>

TypeOK ==
    /\ CallsTypeOK /\ ImportTypeOK /\ CaptureTypeOK /\ AgentTypeOK /\ RetryTypeOK
    /\ asked \in 0..MaxAsked /\ cancels \in 0..MaxCancels

Init ==
    /\ CallsInit /\ ImportInit /\ CaptureInit /\ AgentInit /\ RetryInit
    /\ asked = 0 /\ cancels = 0

(* A thread of the pool serves one request at a time.                      *)
Free(t) ==
    /\ calls[t] = NoCall
    /\ t \in ImportThreads => At(t, "idle")
    /\ t \in CaptureThreads => cthread[t] = Resting
    /\ t \in RunThreads => rthread[t] = NotRunning
    /\ t \in RetryThreads => qthread[t] = Unasked

Others == <<asked, cancels>>

ImportRequest ==
    \/ \E r \in Runs : CreateImport(r) /\ UNCHANGED Others
    \/ \E r \in Runs, t \in ImportThreads :
          /\ Free(t) /\ asked < MaxAsked /\ asked' = asked + 1
          /\ StartImport(r, t) /\ UNCHANGED cancels
    \/ \E r \in Runs : /\ cancels < MaxCancels /\ cancels' = cancels + 1
                       /\ CancelReads(r) /\ UNCHANGED asked
    \/ \E r \in Runs : CancelStep(r) /\ UNCHANGED Others

CaptureRequest ==
    \/ \E c \in Captures, t \in CaptureThreads :
          /\ Free(t) /\ asked < MaxAsked /\ asked' = asked + 1
          /\ CaptureUrl(c, t) /\ UNCHANGED cancels
    \/ \E c \in Captures : /\ asked < MaxAsked /\ asked' = asked + 1
                           /\ RetryReads(c) /\ UNCHANGED cancels
    \/ \E c \in Captures, t \in CaptureThreads :
          Free(t) /\ RetryStarts(c, t) /\ UNCHANGED Others

RuleRequest ==
    \/ \E r \in Rules : /\ CreateRule(r) \/ ApproveRule(r) \/ DisableRule(r)
                        /\ UNCHANGED Others
    \/ \E r \in Rules, t \in RunThreads :
          /\ Free(t) /\ asked < MaxAsked /\ asked' = asked + 1
          /\ RunRule(r, t) /\ UNCHANGED cancels

RetryRequest ==
    \E t \in RetryThreads :
       /\ Free(t) /\ asked < MaxAsked /\ asked' = asked + 1
       /\ ProcessRetries(t) /\ UNCHANGED cancels

ImportPart ==
    /\ \/ ImportRequest
       \/ \E t \in ImportThreads :
             (ImportThreadStep(t) \/ ImportFault(t)) /\ UNCHANGED Others
    /\ UNCHANGED <<captureVars, agentVars, qthread>>

CapturePart ==
    /\ \/ CaptureRequest
       \/ \E t \in CaptureThreads :
             (CaptureThreadStep(t) \/ ReportStage(t) \/ CaptureFault(t)) /\ UNCHANGED Others
    /\ UNCHANGED <<importVars, agentVars, qthread>>

AgentPart ==
    /\ \/ RuleRequest
       \/ \E t \in RunThreads : (RunThreadStep(t) \/ RunFault(t)) /\ UNCHANGED Others
    /\ UNCHANGED <<importVars, captureVars, qthread>>

RetryPart ==
    /\ \/ RetryRequest
       \/ \E t \in RetryThreads :
             (RetryStep(t) \/ RetryRequestFails(t)) /\ UNCHANGED Others
    /\ UNCHANGED <<importVars, captureVars, agentVars>>

CallPart ==
    /\ \E c \in Callers : CallStep(c)
    /\ UNCHANGED <<importVars, captureVars, agentVars, qthread, Others>>

(* The server dies with all its threads.  Nothing picks the work up again: *)
(* what was in progress stays so until a user starts it anew.              *)
Crash ==
    /\ Fault
    /\ \E c \in Callers : ~Free(c)
    /\ calls' = [c \in Callers |-> NoCall]
    /\ ithread' = [t \in ImportThreads |-> Gone]
    /\ cthread' = [t \in CaptureThreads |-> Resting]
    /\ qthread' = [t \in RetryThreads |-> Unasked]
    /\ lost' = lost \cup {Claimed(t) : t \in {u \in RunThreads :
                                     rthread[u].at \in {"call", "complete", "release"}}}
    /\ rthread' = [t \in RunThreads |-> NotRunning]
    /\ cancel' = [r \in Runs |-> "no"]
    /\ retrying' = {}
    /\ UNCHANGED <<stored, urlIndex, queue, run, totals, items, miscounts, capture,
                   rule, claim, Others>>

Next == ImportPart \/ CapturePart \/ AgentPart \/ RetryPart \/ CallPart \/ Crash

Spec == Init /\ [][Next]_vars

-----------------------------------------------------------------------------
(* The counters shown for a finished import add up to the items it has;    *)
(* only an item whose bookkeeping raised after it had been counted may be  *)
(* counted a second time.                                                  *)
FinishedTotalsAddUp ==
    \A r \in Runs : run[r] \in Finals =>
       LET n == totals[r].completed + totals[r].failed + totals[r].skipped
                  + totals[r].unsupported
       IN n \in Len(ItemsOf[r])..(Len(ItemsOf[r]) + miscounts[r])

(* An import nobody works on any more has an end, cancelled or not, and so  *)
(* has each of its items; a thread and a cancel write both in any order.   *)
(* A capture nobody works on any more shows its result, not a stage: the   *)
(* extension polls it until then.                                          *)
QuietIntakeIsSettled ==
    /\ \A r \in Runs :
       /\ faults = 0 /\ cancel[r] = "no" /\ run[r] \notin {"absent", "queued"}
       /\ \A t \in ImportThreads : RunOf(t) # r
       => /\ run[r] \in Finals \cup {"cancelled"}
          /\ \A k \in DOMAIN items[r] : items[r][k] \notin {"queued", "processing"}
    /\ \A c \in Captures :
       faults = 0 /\ RunsFor(c) = {} /\ c \notin retrying /\ capture[c] # "absent"
          => capture[c] \in Settled

(* A cancelled import is shown as something else only by a thread that was *)
(* between its last look at the status and its end, or by a new start.     *)
CancelLostOnlyInWindows ==
    [][\A r \in Runs : run[r] = "cancelled" /\ run'[r] # "cancelled" =>
         \E t \in ImportThreads : RunOf(t) = r /\ ithread[t].at \in {"start", "finish"}]_vars

(* Two runs of a rule never ingest one source at the same time.            *)
OneIngestPerClaim ==
    \A t, u \in RunThreads :
       t # u /\ rthread[t].at \in {"call", "complete", "release"}
             /\ rthread[u].at \in {"call", "complete", "release"}
         => Claimed(t) # Claimed(u)

(* A claim in progress is either worked on or was left by a failure.       *)
ClaimsAreWorkedOn ==
    \A x \in Rules \X Urls : claim[x] = "processing" =>
       \/ x \in lost
       \/ \E t \in RunThreads :
             rthread[t].at \in {"call", "complete", "release"} /\ Claimed(t) = x

(* What is still on the retry queue has attempts left.                     *)
LiveRowsMayBeRetried ==
    \A i \in 1..Len(queue) : queue[i].state = "live" => queue[i].attempts < MaxAttempts

(* What was put out of the queue for having failed too often is put back   *)
(* only by an ingest somebody asked for, not by a retry.                   *)
DeadStaysDead ==
    [][\A u \in Urls :
         (\E i \in KeptRows(u) : queue[i].state = "dead") /\ LiveRows(u) = {}
           /\ (\E i \in 1..Len(queue') : queue'[i].url = u /\ queue'[i].state = "live")
         => \E c \in Callers : calls[c].at = "enqueue" /\ calls'[c].at = "done"]_vars

(* A URL whose claim is completed was ingested: a failed ingest releases   *)
(* the claim, so that the rule can try again.                              *)
CompletedClaimsAreStored ==
    \A x \in Rules \X Urls : claim[x] = "completed" => stored[x[2]] # "no"
===============================================================================
