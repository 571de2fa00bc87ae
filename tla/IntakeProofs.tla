---------------------------- MODULE IntakeProofs ----------------------------
(* Proofs about the intake for every set of URLs, imports, captures, rules *)
(* and threads and every bound.                                            *)
EXTENDS Intake, SequenceTheorems, TLAPS

USE CanonAssumption, VideosAssumption, CallersAssumption, AttemptsAssumption

-----------------------------------------------------------------------------
(* The calls and the retry queue                                           *)

(* A call has a URL until it is answered, and the row it has found is one  *)
(* of the queue.                                                           *)
CallsInv ==
    /\ CallsTypeOK
    /\ \A c \in Callers :
          /\ calls[c].at # "none" => calls[c].url \in Urls
          /\ calls[c].at = "done" => calls[c].res \in Results
          /\ calls[c].row <= Len(queue)

(* The UPDATE keeps the rows and lets none live that has used up its       *)
(* attempts.                                                               *)
LEMMA CountAttemptKeeps ==
    ASSUME queue \in Seq(Rows), LiveRowsMayBeRetried, NEW i \in 1..Len(queue), NEW n \in Nat,
           queue' = CountAttempt(i, n)
    PROVE  /\ queue' \in Seq(Rows) /\ Len(queue') = Len(queue)
           /\ LiveRowsMayBeRetried'
<1>1. queue[i] \in Rows
  OBVIOUS
<1>2. CASE queue[i].state = "gone"
  BY <1>2 DEF CountAttempt, LiveRowsMayBeRetried
<1>3. CASE queue[i].state # "gone"
  <2> DEFINE row == Retry(queue[i].url, n + 1, IF n + 1 >= MaxAttempts THEN "dead" ELSE "live")
  <2>1. queue' = [queue EXCEPT ![i] = row]
    BY <1>3 DEF CountAttempt
  <2>2. row \in Rows
    BY <1>1 DEF Rows, Retry
  <2>3. row.state = "live" => row.attempts < MaxAttempts
    BY DEF Retry
  <2> HIDE DEF row
  <2>4. queue' \in Seq(Rows) /\ Len(queue') = Len(queue)
    BY <2>1, <2>2
  <2> QED BY <2>1, <2>3, <2>4 DEF LiveRowsMayBeRetried
<1> QED BY <1>2, <1>3

(* The INSERT appends a row with attempts left, or nothing.                *)
LEMMA InsertRetryKeeps ==
    ASSUME queue \in Seq(Rows), LiveRowsMayBeRetried, NEW u \in Urls,
           NEW n \in Nat, n < MaxAttempts, queue' = InsertRetry(u, n)
    PROVE  /\ queue' \in Seq(Rows) /\ Len(queue) <= Len(queue')
           /\ LiveRowsMayBeRetried'
<1>1. CASE queue' = queue
  BY <1>1 DEF LiveRowsMayBeRetried
<1>2. CASE queue' # queue
  <2> DEFINE row == Retry(u, AtLeastOne(n), "live")
  <2>1. queue' = Append(queue, row)
    BY <1>2 DEF InsertRetry
  <2>2. row \in Rows /\ row.attempts < MaxAttempts
    BY DEF Rows, AtLeastOne, Retry
  <2> HIDE DEF row
  <2>3. queue' \in Seq(Rows) /\ Len(queue') = Len(queue) + 1
    BY <2>1, <2>2
  <2>4. \A k \in 1..Len(queue') : queue'[k] = IF k <= Len(queue) THEN queue[k] ELSE row
    BY <2>1
  <2> QED BY <2>2, <2>3, <2>4 DEF LiveRowsMayBeRetried
<1> QED BY <1>1, <1>2

(* What a call leaves to its caller, when nothing but calls changes.       *)
LEMMA BeginCallKeeps ==
    ASSUME CallsInv, NEW c \in Callers, NEW u \in Urls, NEW force \in BOOLEAN,
           BeginCall(c, u, force), UNCHANGED <<stored, urlIndex, queue, faults>>
    PROVE  CallsInv'
<1>1. PICK k : /\ calls' = [calls EXCEPT ![c] = k]
               /\ k \in [at : {"running", "done"}, url : Urls, force : BOOLEAN,
                         res : Results \cup {None}, row : {0}, seen : {0}]
               /\ k.at = "done" => k.res \in Results
  <2>1. ASSUME NEW res \in Results
        PROVE  [NoCall EXCEPT !.at = "done", !.url = u, !.res = res]
                 \in [at : {"done"}, url : Urls, force : BOOLEAN, res : Results, row : {0}, seen : {0}]
    BY DEF NoCall
  <2>2. [NoCall EXCEPT !.at = "running", !.url = u, !.force = force]
           \in [at : {"running"}, url : Urls, force : BOOLEAN, res : {None}, row : {0}, seen : {0}]
    BY DEF NoCall
  <2>3. Skips(u) \subseteq Results
    BY DEF Skips, Results
  <2>4. CASE ~force /\ Known(u)
    <3>1. PICK res \in Skips(u) :
             calls' = [calls EXCEPT ![c] = [NoCall EXCEPT !.at = "done", !.url = u, !.res = res]]
      BY <2>4 DEF BeginCall
    <3> DEFINE k == [NoCall EXCEPT !.at = "done", !.url = u, !.res = res]
    <3>2. k \in [at : {"done"}, url : Urls, force : BOOLEAN, res : Results, row : {0}, seen : {0}]
      BY <2>1, <2>3
    <3>3. calls' = [calls EXCEPT ![c] = k]
      BY <3>1
    <3> HIDE DEF k
    <3> QED BY <3>2, <3>3
  <2>5. CASE ~(~force /\ Known(u))
    <3> DEFINE k == [NoCall EXCEPT !.at = "running", !.url = u, !.force = force]
    <3>1. calls' = [calls EXCEPT ![c] = k]
      BY <2>5 DEF BeginCall
    <3> HIDE DEF k
    <3>2. k \in [at : {"running"}, url : Urls, force : BOOLEAN, res : {None}, row : {0}, seen : {0}]
      BY <2>2 DEF k
    <3> QED BY <3>1, <3>2
  <2> QED BY <2>4, <2>5
<1>2. calls' \in [Callers -> [at : {"none", "running", "enqueue", "done"},
                              url : Urls \cup {None}, force : BOOLEAN,
                              res : Results \cup {None}, row : Nat, seen : Nat]]
  BY <1>1 DEF CallsInv, CallsTypeOK
<1> QED BY <1>1, <1>2 DEF CallsInv, CallsTypeOK

CallRecords == [at : {"none", "running", "enqueue", "done"}, url : Urls \cup {None},
                force : BOOLEAN, res : Results \cup {None}, row : Nat, seen : Nat]

LEMMA TakeAnswerKeeps ==
    ASSUME CallsInv, NEW c \in Callers, TakeAnswer(c),
           UNCHANGED <<stored, urlIndex, queue>>, Fault \/ UNCHANGED faults
    PROVE  CallsInv'
<1>1. NoCall \in CallRecords /\ NoCall.at = "none" /\ NoCall.row = 0
  BY DEF NoCall, CallRecords
<1>2. calls' = [calls EXCEPT ![c] = NoCall] /\ calls \in [Callers -> CallRecords]
  BY DEF TakeAnswer, CallsInv, CallsTypeOK, CallRecords
<1>3. calls' \in [Callers -> CallRecords]
  BY <1>1, <1>2
<1>4. faults' \in 0..MaxFaults
  BY DEF Fault, CallsInv, CallsTypeOK
<1> QED BY <1>1, <1>2, <1>3, <1>4 DEF CallsInv, CallsTypeOK, CallRecords

(* Ending a call changes its place and its result.                         *)
LEMMA EndedIs ==
    ASSUME calls \in [Callers -> CallRecords], NEW c \in Callers, NEW r \in Results, Ended(c, r)
    PROVE  /\ calls' \in [Callers -> CallRecords]
           /\ calls'[c].at = "done" /\ calls'[c].res = r
           /\ \A d \in Callers : /\ calls'[d].url = calls[d].url /\ calls'[d].row = calls[d].row
                                 /\ d # c => calls'[d] = calls[d]
<1> DEFINE k == [calls[c] EXCEPT !.at = "done", !.res = r]
<1>1. calls' = [calls EXCEPT ![c] = k]
  BY DEF Ended
<1>2. /\ k \in CallRecords /\ k.at = "done" /\ k.res = r
      /\ k.url = calls[c].url /\ k.row = calls[c].row
  BY DEF CallRecords
<1> HIDE DEF k
<1> QED BY <1>1, <1>2

(* The steps inside a call keep the rows of the queue in place.            *)
LEMMA CallStepKeeps ==
    ASSUME CallsInv, LiveRowsMayBeRetried, NEW c \in Callers, CallStep(c)
    PROVE  /\ CallsInv' /\ LiveRowsMayBeRetried'
           /\ Len(queue) <= Len(queue')
<1> USE DEF CallsInv
<1>0. /\ calls \in [Callers -> CallRecords]
      /\ queue \in Seq(Rows) /\ Len(queue) \in Nat
      /\ calls[c].url \in Urls \cup {None}
  BY DEF CallsTypeOK, CallRecords
<1>1. ASSUME NEW r \in Results, Ended(c, r), UNCHANGED <<queue, faults>>,
             stored' \in [Urls -> {"no", "part", "full"}], urlIndex' \subseteq Urls,
             calls[c].at = "running"
      PROVE  CallsInv' /\ LiveRowsMayBeRetried' /\ Len(queue) <= Len(queue')
  <2>1. calls' \in [Callers -> CallRecords]
    BY <1>0, <1>1, EndedIs
  <2>2. \A d \in Callers : /\ calls'[d].url = calls[d].url /\ calls'[d].row = calls[d].row
                           /\ d # c => calls'[d] = calls[d]
    BY <1>0, <1>1, EndedIs
  <2>3. calls'[c].res = r
    BY <1>0, <1>1, EndedIs
  <2>4. \A d \in Callers : /\ calls'[d].at # "none" => calls'[d].url \in Urls
                           /\ calls'[d].at = "done" => calls'[d].res \in Results
                           /\ calls'[d].row <= Len(queue')
    BY <1>1, <2>2, <2>3
  <2> QED BY <1>0, <1>1, <2>1, <2>4 DEF CallsTypeOK, CallRecords, LiveRowsMayBeRetried
<1>2. CASE CallSucceeds(c)
  BY <1>1, <1>2 DEF CallSucceeds, CallsTypeOK, Results
<1>3. CASE CallSkips(c)
  BY <1>1, <1>3 DEF CallSkips, CallsTypeOK, Results
<1>4. CASE CallFails(c)
  BY <1>1, <1>4 DEF CallFails, CallsTypeOK, Results
<1>5. CASE CallMissesTranscript(c)
  <2>1. PICK i \in 0..Len(queue) :
           calls' = [calls EXCEPT ![c] =
                       [at |-> "enqueue", url |-> calls[c].url, force |-> calls[c].force,
                        res |-> None, row |-> i, seen |-> SeenIn(i)]]
    BY <1>5 DEF CallMissesTranscript
  <2>2. SeenIn(i) \in Nat
    <3>1. i # 0 => queue[i] \in Rows
      BY <1>0
    <3> QED BY <3>1 DEF SeenIn, Rows
  <2> DEFINE k == [at |-> "enqueue", url |-> calls[c].url, force |-> calls[c].force,
                   res |-> None, row |-> i, seen |-> SeenIn(i)]
  <2>8. calls' = [calls EXCEPT ![c] = k]
    BY <1>0, <2>1
  <2>9. k \in CallRecords /\ k.url = calls[c].url /\ k.row = i /\ k.at = "enqueue"
    BY <1>0, <2>2 DEF CallRecords
  <2> HIDE DEF k
  <2>3. calls' \in [Callers -> CallRecords]
    BY <1>0, <2>8, <2>9
  <2>4. \A d \in Callers : /\ calls'[d].url = calls[d].url
                           /\ d # c => calls'[d] = calls[d]
    BY <1>0, <2>8, <2>9
  <2>5. calls'[c].row = i /\ calls'[c].at = "enqueue"
    BY <1>0, <2>8, <2>9
  <2>6. calls[c].at = "running" /\ UNCHANGED <<stored, urlIndex, queue, faults>>
    BY <1>5 DEF CallMissesTranscript
  <2>7. \A d \in Callers : /\ calls'[d].at # "none" => calls'[d].url \in Urls
                           /\ calls'[d].at = "done" => calls'[d].res \in Results
                           /\ calls'[d].row <= Len(queue')
    BY <1>0, <2>4, <2>5, <2>6
  <2> QED BY <1>0, <2>3, <2>6, <2>7 DEF CallsTypeOK, CallRecords, LiveRowsMayBeRetried
<1>6. CASE CallEnqueues(c)
  <2>1. /\ queue' = IF calls[c].row # 0 THEN CountAttempt(calls[c].row, calls[c].seen)
                    ELSE InsertRetry(Canon[calls[c].url], 0)
        /\ calls[c].at = "enqueue" /\ Ended(c, "failed") /\ UNCHANGED <<stored, urlIndex, faults>>
    BY <1>6 DEF CallEnqueues
  <2>2. /\ queue' \in Seq(Rows) /\ Len(queue) <= Len(queue') /\ LiveRowsMayBeRetried'
    <3>1. CASE calls[c].row # 0
      <4>1. calls[c].row \in 1..Len(queue) /\ calls[c].seen \in Nat
        BY <1>0, <3>1 DEF CallRecords
      <4> QED BY <1>0, <2>1, <3>1, <4>1, CountAttemptKeeps
    <3>2. CASE calls[c].row = 0
      <4>1. Canon[calls[c].url] \in Urls
        BY <2>1
      <4>2. queue' = InsertRetry(Canon[calls[c].url], 0)
        BY <2>1, <3>2
      <4>3. 0 \in Nat /\ 0 < MaxAttempts
        OBVIOUS
      <4> QED BY <1>0, <4>1, <4>2, <4>3, InsertRetryKeeps
    <3> QED BY <3>1, <3>2
  <2>5. "failed" \in Results
    BY DEF Results
  <2>3. calls' \in [Callers -> CallRecords]
    BY <1>0, <2>1, <2>5, EndedIs
  <2>4. /\ calls'[c].res = "failed"
        /\ \A d \in Callers : /\ calls'[d].url = calls[d].url /\ calls'[d].row = calls[d].row
                              /\ d # c => calls'[d] = calls[d]
    BY <1>0, <2>1, <2>5, EndedIs
  <2>6. \A d \in Callers : calls[d].row \in Nat /\ calls[d].row <= Len(queue)
    BY <1>0 DEF CallRecords
  <2>7. Len(queue') \in Nat
    BY <2>2
  <2>8. \A d \in Callers : /\ calls'[d].at # "none" => calls'[d].url \in Urls
                           /\ calls'[d].at = "done" => calls'[d].res \in Results
                           /\ calls'[d].row <= Len(queue')
    BY <1>0, <2>1, <2>2, <2>4, <2>5, <2>6, <2>7
  <2> QED BY <1>0, <2>1, <2>2, <2>3, <2>8 DEF CallsTypeOK, CallRecords
<1> QED BY <1>2, <1>3, <1>4, <1>5, <1>6 DEF CallStep

-----------------------------------------------------------------------------
(* The ingest agent's claims                                               *)

Holds(t) == rthread[t].at \in {"call", "complete", "release"}

(* A thread that holds a claim has the row of it, which is in progress, to *)
(* itself; the row is there as long as somebody holds it or has left it.   *)
AgentInv ==
    /\ AgentTypeOK
    /\ \A t \in RunThreads : rthread[t].at # "idle"
          => /\ rthread[t].rule \in Rules
             /\ rthread[t].k \in 1..Len(Candidates[rthread[t].rule])
    /\ \A t \in RunThreads : Holds(t) => claim[Claimed(t)] = "processing"
    /\ OneIngestPerClaim
    /\ ClaimsAreWorkedOn

Running == [at : {"idle", "claim", "call", "complete", "release"},
            rule : Rules \cup {None}, k : Nat]

LEMMA CandidatesAreUrls ==
    ASSUME AgentInv, NEW t \in RunThreads, rthread[t].at # "idle"
    PROVE  /\ Candidate(t) \in Urls /\ Canon[Candidate(t)] \in Urls
           /\ Claimed(t) \in Rules \X Urls
<1>1. /\ rthread[t].rule \in Rules /\ rthread[t].k \in 1..Len(Candidates[rthread[t].rule])
      /\ Candidates[rthread[t].rule] \in Seq(Urls)
  BY CandidatesAssumption DEF AgentInv
<1>2. Candidate(t) \in Urls
  BY <1>1 DEF Candidate
<1> QED BY <1>1, <1>2 DEF Claimed

(* On to the next candidate: the thread holds nothing.                     *)
LEMMA NextCandidateIs ==
    ASSUME AgentInv, NEW t \in RunThreads, rthread[t].at # "idle", NextCandidate(t)
    PROVE  /\ rthread' \in [RunThreads -> Running]
           /\ rthread'[t].at \in {"idle", "claim"}
           /\ rthread'[t].at # "idle"
                => /\ rthread'[t].rule \in Rules
                   /\ rthread'[t].k \in 1..Len(Candidates[rthread'[t].rule])
           /\ \A u \in RunThreads : u # t => rthread'[u] = rthread[u]
<1>1. /\ rthread[t].rule \in Rules /\ rthread[t].k \in 1..Len(Candidates[rthread[t].rule])
      /\ Candidates[rthread[t].rule] \in Seq(Urls)
      /\ rthread \in [RunThreads -> Running]
  BY CandidatesAssumption DEF AgentInv, AgentTypeOK, Running
<1>2. Len(Candidates[rthread[t].rule]) \in Nat
  BY <1>1
<1>3. CASE rthread[t].k = Len(Candidates[rthread[t].rule])
  <2>1. rthread' = [rthread EXCEPT ![t] = NotRunning]
    BY <1>3 DEF NextCandidate
  <2> QED BY <1>1, <2>1 DEF Running, NotRunning
<1>4. CASE rthread[t].k # Len(Candidates[rthread[t].rule])
  <2> DEFINE q == [at |-> "claim", rule |-> rthread[t].rule, k |-> rthread[t].k + 1]
  <2>1. rthread' = [rthread EXCEPT ![t] = q]
    BY <1>4 DEF NextCandidate
  <2>2. /\ q \in Running /\ q.at = "claim" /\ q.rule \in Rules
        /\ q.k \in 1..Len(Candidates[q.rule])
    BY <1>1, <1>2, <1>4 DEF Running
  <2> HIDE DEF q
  <2> QED BY <1>1, <2>1, <2>2
<1> QED BY <1>3, <1>4

LEMMA ProceedIs ==
    ASSUME AgentInv, NEW t \in RunThreads, rthread[t].at # "idle",
           NEW pc \in {"call", "complete", "release"}, Proceed(t, pc)
    PROVE  /\ rthread' \in [RunThreads -> Running]
           /\ rthread'[t].at = pc
           /\ rthread'[t].rule = rthread[t].rule /\ rthread'[t].k = rthread[t].k
           /\ \A u \in RunThreads : u # t => rthread'[u] = rthread[u]
<1>1. rthread \in [RunThreads -> Running]
  BY DEF AgentInv, AgentTypeOK, Running
<1> QED BY <1>1 DEF Proceed, Running

LEMMA AgentStays == ASSUME AgentInv, UNCHANGED agentVars PROVE AgentInv'
BY DEF agentVars, AgentInv, AgentTypeOK, Holds, Claimed, Candidate, OneIngestPerClaim, ClaimsAreWorkedOn

(* A thread moves while the claims stay: what it held it still holds, or   *)
(* has left behind.                                                        *)
LEMMA ClaimsStay ==
    ASSUME AgentInv, NEW t \in RunThreads, UNCHANGED claim,
           rule' \in [Rules -> {"absent", "proposed", "enabled", "disabled", "unapproved"}],
           rthread' \in [RunThreads -> Running],
           \A u \in RunThreads : u # t => rthread'[u] = rthread[u],
           rthread'[t].at # "idle" => /\ rthread'[t].rule \in Rules
                                      /\ rthread'[t].k \in 1..Len(Candidates[rthread'[t].rule]),
           Holds(t)' => Holds(t) /\ Claimed(t)' = Claimed(t),
           lost' = lost \/ (rthread[t].at # "idle" /\ lost' = lost \cup {Claimed(t)}),
           Holds(t) /\ ~Holds(t)' => Claimed(t) \in lost'
    PROVE  AgentInv'
<1>1. lost' \subseteq Rules \X Urls
  BY CandidatesAreUrls DEF AgentInv, AgentTypeOK
<1>2. AgentTypeOK'
  BY <1>1 DEF AgentInv, AgentTypeOK, Running
<1>3. \A u \in RunThreads : Holds(u)' => Holds(u) /\ Claimed(u)' = Claimed(u)
  BY DEF Holds, Claimed, Candidate
<1>4. \A u \in RunThreads : Holds(u) /\ ~Holds(u)' => Claimed(u) \in lost'
  BY DEF Holds
<1>5. \A u \in RunThreads : Holds(u)' => claim'[Claimed(u)'] = "processing"
  BY <1>3 DEF AgentInv
<1>6. OneIngestPerClaim'
  BY <1>3 DEF AgentInv, OneIngestPerClaim, Holds
<1>7. ClaimsAreWorkedOn'
  BY <1>3, <1>4 DEF AgentInv, ClaimsAreWorkedOn, Holds
<1> QED BY <1>2, <1>5, <1>6, <1>7 DEF AgentInv

(* A thread that holds its claim, or the first one to make it, writes its  *)
(* row.                                                                    *)
LEMMA ClaimMoves ==
    ASSUME AgentInv, NEW t \in RunThreads, rthread[t].at # "idle",
           NEW s \in {"none", "processing", "completed"},
           claim' = [claim EXCEPT ![Claimed(t)] = s],
           Holds(t) \/ claim[Claimed(t)] = "none",
           rthread' \in [RunThreads -> Running],
           \A u \in RunThreads : u # t => rthread'[u] = rthread[u],
           rthread'[t].at # "idle" => /\ rthread'[t].rule \in Rules
                                      /\ rthread'[t].k \in 1..Len(Candidates[rthread'[t].rule]),
           Holds(t)' => Claimed(t)' = Claimed(t),
           Holds(t)' <=> s = "processing",
           UNCHANGED <<rule, lost>>
    PROVE  AgentInv'
<1>1. Claimed(t) \in Rules \X Urls /\ claim \in [Rules \X Urls -> {"none", "processing", "completed"}]
  BY CandidatesAreUrls DEF AgentInv, AgentTypeOK
<1>2. AgentTypeOK'
  BY <1>1 DEF AgentInv, AgentTypeOK, Running
<1>3. \A u \in RunThreads : u # t => /\ Holds(u)' <=> Holds(u)
                                     /\ Claimed(u)' = Claimed(u)
  BY DEF Holds, Claimed, Candidate
<1>4. \A u \in RunThreads : u # t /\ Holds(u) => Claimed(u) # Claimed(t) /\ claim[Claimed(u)] = "processing"
  BY DEF AgentInv, OneIngestPerClaim, Holds
<1>5. \A x \in Rules \X Urls : claim'[x] = IF x = Claimed(t) THEN s ELSE claim[x]
  BY <1>1
<1>6. \A u \in RunThreads : Holds(u)' => claim'[Claimed(u)'] = "processing"
  <2>1. ASSUME NEW u \in RunThreads, u # t, Holds(u)' PROVE claim'[Claimed(u)'] = "processing"
    <3>1. Claimed(u) \in Rules \X Urls
      BY <1>3, <2>1, CandidatesAreUrls DEF Holds
    <3> QED BY <1>3, <1>4, <1>5, <2>1, <3>1
  <2>2. ASSUME Holds(t)' PROVE claim'[Claimed(t)'] = "processing"
    BY <1>1, <1>5, <2>2
  <2> QED BY <2>1, <2>2
<1>7. OneIngestPerClaim'
  <2>1. \A u, v \in RunThreads : u # v /\ Holds(u)' /\ Holds(v)' => Claimed(u)' # Claimed(v)'
    BY <1>3, <1>4 DEF AgentInv, OneIngestPerClaim, Holds
  <2> QED BY <2>1 DEF OneIngestPerClaim, Holds
<1>8. ClaimsAreWorkedOn'
  <2>1. ASSUME NEW x \in Rules \X Urls, claim'[x] = "processing"
        PROVE  x \in lost \/ \E u \in RunThreads : Holds(u)' /\ Claimed(u)' = x
    <3>1. CASE x = Claimed(t)
      BY <1>5, <2>1, <3>1
    <3>2. CASE x # Claimed(t)
      <4>1. claim[x] = "processing"
        BY <1>5, <2>1, <3>2
      <4>2. x \in lost \/ \E u \in RunThreads : Holds(u) /\ Claimed(u) = x
        BY <4>1 DEF AgentInv, ClaimsAreWorkedOn, Holds
      <4> QED BY <1>3, <3>2, <4>2
    <3> QED BY <3>1, <3>2
  <2> QED BY <2>1 DEF ClaimsAreWorkedOn, Holds
<1> QED BY <1>2, <1>6, <1>7, <1>8 DEF AgentInv

(* Nothing that concerns the calls happens.                                *)
LEMMA CallsStay ==
    ASSUME CallsInv, LiveRowsMayBeRetried, UNCHANGED <<stored, calls, queue>>,
           urlIndex' \subseteq Urls, Fault \/ UNCHANGED faults
    PROVE  CallsInv' /\ LiveRowsMayBeRetried' /\ Len(queue) <= Len(queue')
<1>1. Len(queue) \in Nat /\ faults \in 0..MaxFaults
  BY DEF CallsInv, CallsTypeOK
<1>2. faults' \in 0..MaxFaults
  BY <1>1 DEF Fault
<1> QED BY <1>1, <1>2 DEF CallsInv, CallsTypeOK, LiveRowsMayBeRetried

LEMMA RuleRequestKeeps ==
    ASSUME CallsInv, LiveRowsMayBeRetried, AgentInv, RuleRequest
    PROVE  CallsInv' /\ LiveRowsMayBeRetried' /\ queue' = queue /\ AgentInv'
<1>1. CallsInv' /\ LiveRowsMayBeRetried' /\ queue' = queue
  BY CallsStay DEF RuleRequest, CreateRule, ApproveRule, DisableRule, RunRule, callVars,
     CallsInv, CallsTypeOK
<1>2. ASSUME NEW r \in Rules, CreateRule(r) \/ ApproveRule(r) \/ DisableRule(r) PROVE AgentInv'
  <2>1. rule' \in [Rules -> {"absent", "proposed", "enabled", "disabled", "unapproved"}]
    BY <1>2 DEF CreateRule, ApproveRule, DisableRule, AgentInv, AgentTypeOK
  <2>2. UNCHANGED <<claim, rthread, lost>>
    BY <1>2 DEF CreateRule, ApproveRule, DisableRule
  <2>3. AgentTypeOK'
    BY <2>1, <2>2 DEF AgentInv, AgentTypeOK
  <2>4. \A t \in RunThreads : /\ Holds(t)' <=> Holds(t)
                              /\ Claimed(t)' = Claimed(t)
    BY <2>2 DEF Holds, Claimed, Candidate
  <2>5. OneIngestPerClaim' /\ ClaimsAreWorkedOn'
    BY <2>2, <2>4 DEF AgentInv, OneIngestPerClaim, ClaimsAreWorkedOn, Holds
  <2> QED BY <2>2, <2>3, <2>4, <2>5 DEF AgentInv
<1>3. ASSUME NEW r \in Rules, NEW t \in RunThreads, RunRule(r, t) PROVE AgentInv'
  <2> DEFINE q == [at |-> "claim", rule |-> r, k |-> 1]
  <2>1. rthread' = [rthread EXCEPT ![t] = q] /\ rthread \in [RunThreads -> Running]
    BY <1>3 DEF RunRule, AgentInv, AgentTypeOK, Running
  <2>2. 1 \in 1..Len(Candidates[r])
    BY <1>3, CandidatesAssumption DEF RunRule
  <2>3. q \in Running /\ q.at = "claim" /\ q.rule = r /\ q.k = 1
    BY DEF Running
  <2> HIDE DEF q
  <2>4. rthread' \in [RunThreads -> Running] /\ rthread'[t] = q
    BY <2>1, <2>3
  <2>5. \A u \in RunThreads : u # t => rthread'[u] = rthread[u]
    BY <2>1
  <2>6. ~Holds(t)' /\ ~Holds(t)
    BY <1>3, <2>3, <2>4 DEF Holds, RunRule, NotRunning
  <2>7. rule' = rule /\ claim' = claim /\ lost' = lost
    BY <1>3 DEF RunRule
  <2> QED BY <2>2, <2>3, <2>4, <2>5, <2>6, <2>7, ClaimsStay DEF AgentInv, AgentTypeOK
<1> QED BY <1>1, <1>2, <1>3 DEF RuleRequest

LEMMA RunStepKeeps ==
    ASSUME CallsInv, LiveRowsMayBeRetried, AgentInv, NEW t \in RunThreads,
           RunThreadStep(t) \/ RunFault(t)
    PROVE  CallsInv' /\ LiveRowsMayBeRetried' /\ queue' = queue /\ AgentInv'
<1>0. t \in Callers /\ urlIndex \subseteq Urls
  BY RunThreadsAssumption DEF CallsInv, CallsTypeOK
<1>1. CASE ClaimUrl(t)
  <2>1. /\ rthread[t].at = "claim" /\ ~Holds(t)
        /\ UNCHANGED <<rule, lost>> /\ UNCHANGED callVars
    BY <1>1 DEF ClaimUrl, Holds
  <2>2. CallsInv' /\ LiveRowsMayBeRetried' /\ queue' = queue
    BY <1>0, <2>1, CallsStay DEF callVars
  <2>3. CASE claim[Claimed(t)] = "none"
    <3>1. claim' = [claim EXCEPT ![Claimed(t)] = "processing"] /\ Proceed(t, "call")
      BY <1>1, <2>3 DEF ClaimUrl
    <3>2. /\ rthread' \in [RunThreads -> Running]
          /\ rthread'[t].at = "call"
          /\ rthread'[t].rule = rthread[t].rule /\ rthread'[t].k = rthread[t].k
          /\ \A u \in RunThreads : u # t => rthread'[u] = rthread[u]
      BY <2>1, <3>1, ProceedIs
    <3>3. Holds(t)' /\ Claimed(t)' = Claimed(t)
      BY <3>2 DEF Holds, Claimed, Candidate
    <3>4. rthread[t].rule \in Rules /\ rthread[t].k \in 1..Len(Candidates[rthread[t].rule])
      BY <2>1 DEF AgentInv
    <3>5. rthread'[t].rule \in Rules /\ rthread'[t].k \in 1..Len(Candidates[rthread'[t].rule])
      BY <3>2, <3>4
    <3>6. AgentInv'
      BY <2>1, <2>3, <3>1, <3>2, <3>3, <3>5, ClaimMoves
    <3> QED BY <2>2, <3>6
  <2>4. CASE claim[Claimed(t)] # "none"
    <3>1. NextCandidate(t) /\ UNCHANGED claim
      BY <1>1, <2>4 DEF ClaimUrl
    <3>2. ~Holds(t)'
      BY <2>1, <3>1, NextCandidateIs DEF Holds
    <3>3. AgentInv'
      BY <2>1, <3>1, <3>2, NextCandidateIs, ClaimsStay DEF AgentInv, AgentTypeOK
    <3> QED BY <2>2, <3>3
  <2> QED BY <2>3, <2>4
<1>2. CASE CallForRule(t)
  <2>1. Canon[Candidate(t)] \in Urls /\ (rthread[t].rule \in Refreshing) \in BOOLEAN
    BY <1>2, CandidatesAreUrls DEF CallForRule
  <2>2. CallsInv' /\ queue' = queue
    BY <1>0, <1>2, <2>1, BeginCallKeeps DEF CallForRule
  <2>3. AgentInv'
    BY <1>2, AgentStays DEF CallForRule
  <2> QED BY <2>2, <2>3 DEF LiveRowsMayBeRetried
<1>3. ASSUME NEW pc \in {"complete", "release"}, rthread[t].at = "call", Proceed(t, pc),
             UNCHANGED <<rule, claim, lost>>
      PROVE  AgentInv'
  <2>1. /\ rthread' \in [RunThreads -> Running]
        /\ rthread'[t].at = pc
        /\ rthread'[t].rule = rthread[t].rule /\ rthread'[t].k = rthread[t].k
        /\ \A u \in RunThreads : u # t => rthread'[u] = rthread[u]
    BY <1>3, ProceedIs
  <2>2. Holds(t) /\ Holds(t)' /\ Claimed(t)' = Claimed(t)
    BY <1>3, <2>1 DEF Holds, Claimed, Candidate
  <2>3. rthread'[t].rule \in Rules /\ rthread'[t].k \in 1..Len(Candidates[rthread'[t].rule])
    BY <1>3, <2>1 DEF AgentInv
  <2> QED BY <1>3, <2>1, <2>2, <2>3, ClaimsStay DEF AgentInv, AgentTypeOK
<1>4. CASE CallRaises(t)
  <2>1. CallsInv' /\ LiveRowsMayBeRetried' /\ queue' = queue
    BY <1>0, <1>4, CallsStay DEF CallRaises
  <2> QED BY <1>3, <1>4, <2>1 DEF CallRaises
<1>5. CASE RuleCallReturns(t)
  <2>1. CallsInv' /\ queue' = queue
    BY <1>0, <1>5, TakeAnswerKeeps DEF RuleCallReturns
  <2> QED BY <1>3, <1>5, <2>1 DEF RuleCallReturns, LiveRowsMayBeRetried
<1>6. CASE CompleteClaim(t) \/ ReleaseClaim(t)
  <2>1. PICK s \in {"completed", "none"} : claim' = [claim EXCEPT ![Claimed(t)] = s]
    BY <1>6 DEF CompleteClaim, ReleaseClaim
  <2>2. /\ rthread[t].at \in {"complete", "release"} /\ Holds(t) /\ NextCandidate(t)
        /\ UNCHANGED <<rule, lost>> /\ UNCHANGED callVars
    BY <1>6 DEF CompleteClaim, ReleaseClaim, Holds
  <2>3. CallsInv' /\ LiveRowsMayBeRetried' /\ queue' = queue
    BY <1>0, <2>2, CallsStay DEF callVars
  <2>4. ~Holds(t)'
    BY <2>2, NextCandidateIs DEF Holds
  <2>5. AgentInv'
    BY <2>1, <2>2, <2>4, NextCandidateIs, ClaimMoves
  <2> QED BY <2>3, <2>5
<1>7. CASE ClaimIsLeft(t)
  <2>1. /\ rthread[t].at \in {"complete", "release"} /\ Holds(t)
        /\ UNCHANGED <<rule, claim, stored, urlIndex, queue, calls>> /\ Fault
        /\ lost' = lost \cup {Claimed(t)} /\ rthread' = [rthread EXCEPT ![t] = NotRunning]
    BY <1>7 DEF ClaimIsLeft, Holds
  <2>2. CallsInv' /\ LiveRowsMayBeRetried' /\ queue' = queue
    BY <1>0, <2>1, CallsStay
  <2>3. NotRunning \in Running /\ NotRunning.at = "idle" /\ rthread \in [RunThreads -> Running]
    BY DEF Running, NotRunning, AgentInv, AgentTypeOK
  <2>4. /\ rthread' \in [RunThreads -> Running] /\ rthread'[t].at = "idle" /\ ~Holds(t)'
        /\ \A u \in RunThreads : u # t => rthread'[u] = rthread[u]
    BY <2>1, <2>3 DEF Holds
  <2>5. AgentInv'
    BY <2>1, <2>4, ClaimsStay DEF AgentInv, AgentTypeOK
  <2> QED BY <2>2, <2>5
<1> QED BY <1>1, <1>2, <1>4, <1>5, <1>6, <1>7 DEF RunThreadStep, RunFault

-----------------------------------------------------------------------------
(* The requests working off the retry queue                                *)

Dues   == [id : Nat, url : Urls, attempts : Nat]
Serves == [at : {"idle", "call", "complete", "look", "count"}, due : Seq(Dues), row : Nat, seen : Nat]

(* What a request holds of a queue of n rows: rows of it, of those the     *)
(* retries left when it read them.                                         *)
ServesQueue(q, n) ==
    /\ q \in Serves
    /\ q.at # "idle" => q.due # <<>>
    /\ \A k \in 1..Len(q.due) : q.due[k].id \in 1..n /\ q.due[k].attempts < MaxAttempts
    /\ q.row <= n

RetryInv ==
    /\ qthread \in [RetryThreads -> Serves]
    /\ \A t \in RetryThreads : ServesQueue(qthread[t], Len(queue))

LEMMA ServesLonger ==
    ASSUME NEW p \in Serves, NEW n \in Nat, NEW m \in Nat, n <= m, ServesQueue(p, n)
    PROVE  ServesQueue(p, m)
<1>1. p.row \in Nat /\ p.due \in Seq(Dues)
  BY DEF Serves
<1>2. \A k \in 1..Len(p.due) : p.due[k].id \in 1..m /\ p.due[k].attempts < MaxAttempts
  <2>1. ASSUME NEW k \in 1..Len(p.due)
        PROVE  p.due[k].id \in 1..m /\ p.due[k].attempts < MaxAttempts
    <3>1. p.due[k].id \in 1..n /\ p.due[k].attempts < MaxAttempts
      BY DEF ServesQueue
    <3> QED BY <3>1
  <2> QED BY <2>1
<1>3. p.row <= m
  BY <1>1 DEF ServesQueue
<1> QED BY <1>2, <1>3 DEF ServesQueue

LEMMA RetriesStay ==
    ASSUME RetryInv, queue \in Seq(Rows), queue' \in Seq(Rows), Len(queue) <= Len(queue'),
           NEW t \in RetryThreads, NEW q, ServesQueue(q, Len(queue')),
           qthread' = [qthread EXCEPT ![t] = q]
    PROVE  RetryInv'
<1>1. Len(queue) \in Nat /\ Len(queue') \in Nat
  OBVIOUS
<1>2. q \in Serves
  BY DEF ServesQueue
<1>3. qthread' \in [RetryThreads -> Serves]
  BY <1>2 DEF RetryInv
<1>4. \A u \in RetryThreads : ServesQueue(qthread'[u], Len(queue'))
  <2>1. ASSUME NEW u \in RetryThreads, u # t PROVE ServesQueue(qthread'[u], Len(queue'))
    <3>1. qthread'[u] = qthread[u] /\ qthread[u] \in Serves /\ ServesQueue(qthread[u], Len(queue))
      BY <2>1 DEF RetryInv
    <3> QED BY <1>1, <3>1, ServesLonger
  <2>2. qthread'[t] = q
    BY DEF RetryInv
  <2> QED BY <2>1, <2>2
<1> QED BY <1>3, <1>4 DEF RetryInv

LEMMA RetriesUnchanged ==
    ASSUME RetryInv, queue \in Seq(Rows), queue' \in Seq(Rows), Len(queue) <= Len(queue'),
           UNCHANGED qthread
    PROVE  RetryInv'
<1>1. Len(queue) \in Nat /\ Len(queue') \in Nat
  OBVIOUS
<1>2. ASSUME NEW t \in RetryThreads PROVE ServesQueue(qthread'[t], Len(queue'))
  <2>1. qthread'[t] = qthread[t] /\ qthread[t] \in Serves /\ ServesQueue(qthread[t], Len(queue))
    BY DEF RetryInv
  <2> QED BY <1>1, <2>1, ServesLonger
<1> QED BY <1>2 DEF RetryInv

LEMMA UnaskedServes ==
    ASSUME NEW n \in Nat
    PROVE  ServesQueue(Unasked, n)
BY DEF ServesQueue, Unasked, Serves

(* The rows handed out are some of the live ones, at least one.            *)
LEMMA ClaimedRowsServe ==
    ASSUME queue \in Seq(Rows), LiveRowsMayBeRetried, NEW n \in 1..Len(queue),
           NEW ids \in Injection(1..n, {i \in 1..Len(queue) : queue[i].state = "live"})
    PROVE  ServesQueue(Working([k \in 1..n |->
                          [id |-> ids[k], url |-> queue[ids[k]].url,
                           attempts |-> queue[ids[k]].attempts]]), Len(queue))
<1>1. ids \in [1..n -> {i \in 1..Len(queue) : queue[i].state = "live"}]
  BY DEF Injection
<1> DEFINE d(k) == [id |-> ids[k], url |-> queue[ids[k]].url, attempts |-> queue[ids[k]].attempts]
           due  == [k \in 1..n |-> d(k)]
<1>2. \A k \in 1..n : d(k) \in Dues /\ d(k).id \in 1..Len(queue) /\ d(k).attempts < MaxAttempts
  <2>1. ASSUME NEW k \in 1..n
        PROVE  d(k) \in Dues /\ d(k).id \in 1..Len(queue) /\ d(k).attempts < MaxAttempts
    <3>1. ids[k] \in 1..Len(queue) /\ queue[ids[k]].state = "live"
      BY <1>1
    <3>2. queue[ids[k]] \in Rows
      BY <3>1
    <3> QED BY <3>1, <3>2 DEF Dues, Rows, LiveRowsMayBeRetried
  <2> QED BY <2>1
<1> HIDE DEF d
<1>3. due \in Seq(Dues) /\ Len(due) = n /\ \A k \in 1..n : due[k] = d(k)
  BY <1>2
<1>4. due # <<>>
  BY <1>3
<1> HIDE DEF due
<1>5. Working(due) \in Serves
  BY <1>3 DEF Serves, Working
<1>6. ServesQueue(Working(due), Len(queue))
  BY <1>2, <1>3, <1>4, <1>5 DEF ServesQueue, Working
<1> QED BY <1>6 DEF due, d

(* The first claimed row.                                                  *)
LEMMA DueIs ==
    ASSUME RetryInv, NEW t \in RetryThreads, qthread[t].at # "idle"
    PROVE  /\ Due(t) \in Dues /\ Due(t).id \in 1..Len(queue) /\ Due(t).attempts < MaxAttempts
           /\ qthread[t] \in Serves /\ ServesQueue(qthread[t], Len(queue))
<1>1. qthread[t] \in Serves /\ ServesQueue(qthread[t], Len(queue))
  BY DEF RetryInv
<1>2. qthread[t].due \in Seq(Dues) /\ qthread[t].due # <<>>
  BY <1>1 DEF ServesQueue, Serves
<1>3. Due(t) = qthread[t].due[1] /\ 1 \in 1..Len(qthread[t].due)
  BY <1>2 DEF Due
<1> QED BY <1>1, <1>2, <1>3 DEF ServesQueue

LEMMA NextDueServes ==
    ASSUME queue \in Seq(Rows), RetryInv, NEW t \in RetryThreads, qthread[t].at # "idle", NextDue(t)
    PROVE  \E q : ServesQueue(q, Len(queue)) /\ qthread' = [qthread EXCEPT ![t] = q]
<1>0. qthread \in [RetryThreads -> Serves] /\ ServesQueue(qthread[t], Len(queue))
  BY DEF RetryInv
<1>1. /\ qthread \in [RetryThreads -> Serves] /\ ServesQueue(qthread[t], Len(queue))
      /\ qthread[t].due \in Seq(Dues) /\ qthread[t].due # <<>> /\ Len(queue) \in Nat
  BY <1>0 DEF ServesQueue, Serves
<1>2. CASE Len(qthread[t].due) = 1
  <2>1. qthread' = [qthread EXCEPT ![t] = Unasked]
    BY <1>1, <1>2 DEF NextDue
  <2> QED BY <1>1, <2>1, UnaskedServes
<1>3. CASE Len(qthread[t].due) # 1
  <2> DEFINE rest == Tail(qthread[t].due)
  <2>1. qthread' = [qthread EXCEPT ![t] = Working(rest)]
    BY <1>1, <1>3 DEF NextDue
  <2>2. /\ rest \in Seq(Dues) /\ Len(rest) = Len(qthread[t].due) - 1
        /\ \A k \in 1..Len(rest) : rest[k] = qthread[t].due[k + 1]
    BY <1>1, HeadTailProperties
  <2> HIDE DEF rest
  <2>3. Len(rest) \in Nat /\ rest # <<>>
    <3>1. Len(qthread[t].due) \in Nat /\ Len(qthread[t].due) # 0
      BY <1>1
    <3>2. Len(rest) \in Nat /\ Len(rest) # 0
      BY <1>3, <2>2, <3>1
    <3>3. rest = <<>> => Len(rest) = 0
      OBVIOUS
    <3> QED BY <3>2, <3>3
  <2>4. \A k \in 1..Len(rest) : rest[k].id \in 1..Len(queue) /\ rest[k].attempts < MaxAttempts
    <3>1. ASSUME NEW k \in 1..Len(rest)
          PROVE  rest[k].id \in 1..Len(queue) /\ rest[k].attempts < MaxAttempts
      <4>1. k + 1 \in 1..Len(qthread[t].due) /\ rest[k] = qthread[t].due[k + 1]
        BY <2>2, <2>3
      <4> QED BY <1>1, <4>1 DEF ServesQueue
    <3> QED BY <3>1
  <2>5. Working(rest) \in Serves
    BY <2>2 DEF Working, Serves
  <2>6. ServesQueue(Working(rest), Len(queue))
    BY <1>1, <2>3, <2>4, <2>5 DEF ServesQueue, Working
  <2> QED BY <2>1, <2>6
<1> QED BY <1>2, <1>3

LEMMA ProcessRetriesKeeps ==
    ASSUME CallsInv, LiveRowsMayBeRetried, RetryInv, NEW t \in RetryThreads, ProcessRetries(t)
    PROVE  CallsInv' /\ LiveRowsMayBeRetried' /\ Len(queue) <= Len(queue') /\ RetryInv'
<1>1. UNCHANGED callVars /\ queue \in Seq(Rows) /\ urlIndex \subseteq Urls
  BY DEF ProcessRetries, CallsInv, CallsTypeOK
<1>2. CallsInv' /\ LiveRowsMayBeRetried' /\ Len(queue) <= Len(queue') /\ queue' = queue
  BY <1>1, CallsStay DEF callVars
<1>3. PICK n \in 1..Len(queue) :
        \E ids \in Injection(1..n, {i \in 1..Len(queue) : queue[i].state = "live"}) :
          qthread' = [qthread EXCEPT ![t] = Working(
             [k \in 1..n |-> [id |-> ids[k], url |-> queue[ids[k]].url,
                              attempts |-> queue[ids[k]].attempts]])]
  BY DEF ProcessRetries
<1>4. \E q : ServesQueue(q, Len(queue)) /\ qthread' = [qthread EXCEPT ![t] = q]
  BY <1>1, <1>3, ClaimedRowsServe
<1>5. RetryInv'
  BY <1>1, <1>2, <1>4, RetriesStay
<1> QED BY <1>2, <1>5

LEMMA RetryStepKeeps ==
    ASSUME CallsInv, LiveRowsMayBeRetried, RetryInv, NEW t \in RetryThreads,
           RetryStep(t) \/ RetryRequestFails(t)
    PROVE  CallsInv' /\ LiveRowsMayBeRetried' /\ Len(queue) <= Len(queue') /\ RetryInv'
<1>0. /\ t \in Callers /\ urlIndex \subseteq Urls /\ queue \in Seq(Rows) /\ Len(queue) \in Nat
      /\ qthread \in [RetryThreads -> Serves]
  BY RetryThreadsAssumption DEF CallsInv, CallsTypeOK, RetryInv
<1>1. CASE CallRetry(t)
  <2>1. qthread[t].at # "idle" /\ BeginCall(t, Due(t).url, TRUE)
        /\ UNCHANGED <<qthread, stored, urlIndex, queue, faults>>
    BY <1>1 DEF CallRetry
  <2>2. Due(t).url \in Urls
    BY <2>1, DueIs DEF Dues
  <2>3. CallsInv'
    BY <1>0, <2>1, <2>2, BeginCallKeeps
  <2> QED BY <1>0, <2>1, <2>3, RetriesUnchanged DEF LiveRowsMayBeRetried
<1>2. CASE RetryAnswers(t)
  <2>1. /\ qthread[t].at = "call" /\ TakeAnswer(t)
        /\ UNCHANGED <<stored, urlIndex, queue, faults>>
    BY <1>2 DEF RetryAnswers
  <2>2. PICK pc \in {"look", "complete"} : QueueGo(t, pc)
    BY <1>2 DEF RetryAnswers
  <2> DEFINE q == [qthread[t] EXCEPT !.at = pc]
  <2>3. qthread' = [qthread EXCEPT ![t] = q]
    BY <2>2 DEF QueueGo
  <2>4. qthread[t] \in Serves /\ ServesQueue(qthread[t], Len(queue))
    BY <2>1, DueIs
  <2>5. ServesQueue(q, Len(queue))
    <3>1. q \in Serves /\ q.due = qthread[t].due /\ q.row = qthread[t].row
      BY <2>4 DEF Serves
    <3> HIDE DEF q
    <3> QED BY <2>1, <2>4, <3>1 DEF ServesQueue
  <2> HIDE DEF q
  <2>8. queue' \in Seq(Rows) /\ Len(queue) <= Len(queue') /\ ServesQueue(q, Len(queue'))
    BY <1>0, <2>1, <2>5
  <2>6. RetryInv'
    BY <1>0, <2>3, <2>8, RetriesStay
  <2>7. CallsInv'
    BY <1>0, <2>1, TakeAnswerKeeps
  <2> QED BY <1>0, <2>1, <2>6, <2>7 DEF LiveRowsMayBeRetried
<1>3. CASE CompleteRetry(t)
  <2>1. /\ qthread[t].at # "idle" /\ NextDue(t)
        /\ queue' = [queue EXCEPT ![Due(t).id].state = "gone"]
        /\ UNCHANGED <<stored, urlIndex, calls, faults>>
    BY <1>3 DEF CompleteRetry
  <2>2. Due(t).id \in 1..Len(queue)
    BY <2>1, DueIs
  <2> DEFINE row == [queue[Due(t).id] EXCEPT !.state = "gone"]
  <2>3. queue' = [queue EXCEPT ![Due(t).id] = row]
    BY <2>1
  <2>4. row \in Rows /\ row.state = "gone"
    <3>1. queue[Due(t).id] \in Rows
      BY <1>0, <2>2
    <3> QED BY <3>1 DEF Rows
  <2> HIDE DEF row
  <2>5. queue' \in Seq(Rows) /\ Len(queue') = Len(queue)
    BY <1>0, <2>2, <2>3, <2>4
  <2>6. LiveRowsMayBeRetried'
    BY <1>0, <2>2, <2>3, <2>4, <2>5 DEF LiveRowsMayBeRetried
  <2>7. CallsInv'
    BY <2>1, <2>5 DEF CallsInv, CallsTypeOK
  <2>8. RetryInv'
    BY <1>0, <2>1, <2>5, NextDueServes, RetriesStay
  <2> QED BY <1>0, <2>5, <2>6, <2>7, <2>8
<1>4. CASE LookAgain(t)
  <2>1. qthread[t].at = "look" /\ UNCHANGED callVars
    BY <1>4 DEF LookAgain
  <2>2. PICK i \in 0..Len(queue) :
           qthread' = [qthread EXCEPT ![t] = [at |-> "count", due |-> qthread[t].due,
                                              row |-> i, seen |-> SeenIn(i)]]
    BY <1>0, <1>4 DEF LookAgain
  <2>3. SeenIn(i) \in Nat
    <3>1. i # 0 => queue[i] \in Rows
      BY <1>0
    <3> QED BY <3>1 DEF SeenIn, Rows
  <2>4. qthread[t] \in Serves /\ ServesQueue(qthread[t], Len(queue))
    BY <2>1, DueIs
  <2> DEFINE q == [at |-> "count", due |-> qthread[t].due, row |-> i, seen |-> SeenIn(i)]
  <2>5. q \in Serves /\ q.due = qthread[t].due /\ q.row = i
    BY <1>0, <2>3, <2>4 DEF Serves
  <2>6. qthread' = [qthread EXCEPT ![t] = q]
    BY <2>2
  <2> HIDE DEF q
  <2>7. ServesQueue(q, Len(queue))
    BY <1>0, <2>1, <2>4, <2>5 DEF ServesQueue
  <2>8. CallsInv' /\ LiveRowsMayBeRetried' /\ queue' = queue
    BY <1>0, <2>1, CallsStay DEF callVars
  <2>9. queue' \in Seq(Rows) /\ Len(queue) <= Len(queue') /\ ServesQueue(q, Len(queue'))
    BY <1>0, <2>7, <2>8
  <2>10. RetryInv'
    BY <1>0, <2>6, <2>9, RetriesStay
  <2> QED BY <2>8, <2>9, <2>10
<1>5. CASE CountAgain(t)
  <2>1. /\ qthread[t].at = "count" /\ NextDue(t)
        /\ queue' = IF qthread[t].row # 0 THEN CountAttempt(qthread[t].row, qthread[t].seen)
                    ELSE InsertRetry(Due(t).url, Due(t).attempts)
        /\ UNCHANGED <<stored, urlIndex, calls, faults>>
    BY <1>5 DEF CountAgain
  <2>2. /\ Due(t) \in Dues /\ Due(t).attempts < MaxAttempts
        /\ qthread[t] \in Serves /\ ServesQueue(qthread[t], Len(queue))
    BY <2>1, DueIs
  <2>3. queue' \in Seq(Rows) /\ Len(queue) <= Len(queue') /\ LiveRowsMayBeRetried'
    <3>1. CASE qthread[t].row # 0
      <4>1. qthread[t].row \in 1..Len(queue) /\ qthread[t].seen \in Nat
        BY <1>0, <2>2, <3>1 DEF ServesQueue, Serves
      <4> QED BY <1>0, <2>1, <3>1, <4>1, CountAttemptKeeps
    <3>2. CASE qthread[t].row = 0
      <4>1. Due(t).url \in Urls /\ Due(t).attempts \in Nat
        BY <2>2 DEF Dues
      <4>2. queue' = InsertRetry(Due(t).url, Due(t).attempts)
        BY <2>1, <3>2
      <4> QED BY <1>0, <2>2, <4>1, <4>2, InsertRetryKeeps
    <3> QED BY <3>1, <3>2
  <2>4. CallsInv'
    <3>1. \A c \in Callers : calls[c].row \in Nat /\ calls[c].row <= Len(queue)
      BY DEF CallsInv, CallsTypeOK
    <3>2. Len(queue') \in Nat
      BY <2>3
    <3> QED BY <1>0, <2>1, <2>3, <3>1, <3>2 DEF CallsInv, CallsTypeOK
  <2>5. PICK q : ServesQueue(q, Len(queue)) /\ qthread' = [qthread EXCEPT ![t] = q]
    BY <1>0, <2>1, NextDueServes
  <2>6. ServesQueue(q, Len(queue'))
    <3>1. q \in Serves /\ Len(queue') \in Nat
      BY <2>3, <2>5 DEF ServesQueue
    <3> QED BY <1>0, <2>3, <2>5, <3>1, ServesLonger
  <2>7. RetryInv'
    BY <1>0, <2>3, <2>5, <2>6, RetriesStay
  <2> QED BY <2>3, <2>4, <2>7
<1>6. CASE RetryRequestFails(t)
  <2>1. /\ Fault /\ qthread' = [qthread EXCEPT ![t] = Unasked]
        /\ UNCHANGED <<stored, urlIndex, queue, calls>>
    BY <1>6 DEF RetryRequestFails
  <2>2. CallsInv' /\ LiveRowsMayBeRetried' /\ queue' = queue
    BY <1>0, <2>1, CallsStay
  <2>3. queue' \in Seq(Rows) /\ Len(queue) <= Len(queue') /\ ServesQueue(Unasked, Len(queue'))
    BY <1>0, <2>2, UnaskedServes
  <2>4. RetryInv'
    BY <1>0, <2>1, <2>3, RetriesStay
  <2> QED BY <2>2, <2>3, <2>4
<1> QED BY <1>1, <1>2, <1>3, <1>4, <1>5, <1>6 DEF RetryStep

-----------------------------------------------------------------------------
(* The imports                                                             *)

Importing == [at : {"idle", "start", "check", "dupes", "mark", "call", "register",
                    "settle", "rescue", "stop", "finish"},
              run : Runs \cup {None}, k : Nat, n : Tally, to : ItemStates]

(* The items a thread has counted, a duplicate as one of the skipped.      *)
Counted(n) == n.completed + n.failed + n.skipped + n.unsupported

(* The items it must have counted, at its place.                           *)
MustCount(q) == IF q.at \in {"register", "settle", "rescue"} THEN q.k ELSE q.k - 1

LEMMA CountersAre == DOMAIN NoCount = {"completed", "failed", "skipped", "duplicate", "unsupported"}
BY DEF NoCount

LEMMA CountedOnce ==
    ASSUME NEW n \in Tally,
           NEW S \in {{"completed"}, {"failed"}, {"unsupported"}, {"duplicate", "skipped"}}
    PROVE  Plus1(n, S) \in Tally /\ Counted(n) \in Nat /\ Counted(Plus1(n, S)) = Counted(n) + 1
<1> DEFINE m == Plus1(n, S)
<1>1. m \in Tally /\ \A s \in DOMAIN NoCount : m[s] = IF s \in S THEN n[s] + 1 ELSE n[s]
  BY CountersAre DEF Plus1, Tally
<1>2. /\ n.completed \in Nat /\ n.failed \in Nat /\ n.skipped \in Nat /\ n.unsupported \in Nat
      /\ n.completed = n["completed"] /\ n.failed = n["failed"] /\ n.skipped = n["skipped"]
      /\ n.unsupported = n["unsupported"]
  BY CountersAre DEF Tally
<1>3. /\ m.completed = IF "completed" \in S THEN n.completed + 1 ELSE n.completed
      /\ m.failed = IF "failed" \in S THEN n.failed + 1 ELSE n.failed
      /\ m.skipped = IF "skipped" \in S THEN n.skipped + 1 ELSE n.skipped
      /\ m.unsupported = IF "unsupported" \in S THEN n.unsupported + 1 ELSE n.unsupported
  BY <1>1, <1>2, CountersAre
<1> HIDE DEF m
<1>4. Counted(n) \in Nat /\ Counted(m) = Counted(n) + 1
  BY <1>2, <1>3 DEF Counted
<1> QED BY <1>1, <1>4 DEF m

(* A thread is at an item of its import until it is past the last one, it  *)
(* ingests only URLs, and its counters add up to the items it has done.    *)
ImportsWell(q, m) ==
    /\ q \in Importing
    /\ q.at # "idle" =>
       /\ q.run \in Runs /\ q.k \in 1..(Len(ItemsOf[q.run]) + 1)
       /\ q.at \in {"dupes", "mark", "call", "register", "settle", "rescue"}
             => q.k <= Len(ItemsOf[q.run])
       /\ q.at \in {"dupes", "mark", "call", "register"} => ItemsOf[q.run][q.k] \in Urls
       /\ q.at \in {"register", "settle", "rescue"}
             => q.to \in {"completed", "failed", "duplicate", "unsupported"}
       /\ q.at = "finish" => q.k = Len(ItemsOf[q.run]) + 1
       /\ q.at = "start" => q.k = 1
       /\ Counted(q.n) \in MustCount(q)..(MustCount(q) + m[q.run])

ItemsTyped ==
    /\ items = [r \in Runs |-> items[r]]
    /\ \A r \in Runs : items[r] \in [1..Len(ItemsOf[r]) -> ItemStates]

RunStates == {"absent", "queued", "running", "cancelled"} \cup Finals

ImportInv ==
    /\ run \in [Runs -> RunStates] /\ totals \in [Runs -> Tally] /\ ItemsTyped
    /\ cancel \in [Runs -> {"no", "read", "written"}] /\ miscounts \in [Runs -> Nat]
    /\ ithread \in [ImportThreads -> Importing]
    /\ \A t \in ImportThreads : ImportsWell(ithread[t], miscounts)
    /\ FinishedTotalsAddUp

LEMMA LengthsAreNat ==
    \A r \in Runs : Len(ItemsOf[r]) \in Nat /\ ItemsOf[r] \in Seq(Urls \cup {"bad"})
BY RunsAssumption

LEMMA CountedIsNat == \A n \in Tally : Counted(n) \in Nat
BY CountedOnce

SetsItem(r, k, s) ==
    /\ r \in Runs /\ k \in 1..Len(ItemsOf[r]) /\ s \in ItemStates
    /\ items' = [items EXCEPT ![r][k] = s]

LEMMA SetItemIs ==
    ASSUME ItemsTyped, NEW r, NEW k, NEW s, SetsItem(r, k, s)
    PROVE  /\ ItemsTyped' /\ items'[r][k] = s
           /\ \A v \in Runs : \A j \in 1..Len(ItemsOf[v]) :
                 <<v, j>> # <<r, k>> => items'[v][j] = items[v][j]
<1>0. /\ r \in Runs /\ k \in 1..Len(ItemsOf[r]) /\ s \in ItemStates
      /\ items' = [items EXCEPT ![r][k] = s]
  BY DEF SetsItem
<1> DEFINE new == [items[r] EXCEPT ![k] = s]
<1>1. items' = [items EXCEPT ![r] = new]
  BY <1>0
<1>2. new \in [1..Len(ItemsOf[r]) -> ItemStates]
  BY <1>0 DEF ItemsTyped
<1>3. new[k] = s /\ \A j \in 1..Len(ItemsOf[r]) : j # k => new[j] = items[r][j]
  BY <1>0 DEF ItemsTyped
<1> HIDE DEF new
<1>4. items'[r] = new /\ \A v \in Runs : v # r => items'[v] = items[v]
  BY <1>0, <1>1 DEF ItemsTyped
<1>5. items' = [v \in Runs |-> items'[v]]
  BY <1>0, <1>1 DEF ItemsTyped
<1> QED BY <1>0, <1>2, <1>3, <1>4, <1>5 DEF ItemsTyped

(* Miscounts only grow, and widen what the counters may come to.           *)
LEMMA ImportsStayWell ==
    ASSUME NEW q, NEW m \in [Runs -> Nat], NEW n \in [Runs -> Nat], \A r \in Runs : m[r] <= n[r],
           ImportsWell(q, m)
    PROVE  ImportsWell(q, n)
<1>1. CASE q.at = "idle"
  BY <1>1 DEF ImportsWell
<1>2. CASE q.at # "idle"
  <2>1. q.run \in Runs /\ q.k \in 1..(Len(ItemsOf[q.run]) + 1) /\ q.n \in Tally
    BY <1>2 DEF ImportsWell, Importing
  <2>2. Counted(q.n) \in Nat /\ MustCount(q) \in Int /\ m[q.run] \in Nat /\ n[q.run] \in Nat
        /\ m[q.run] <= n[q.run]
    BY <2>1, CountedIsNat, LengthsAreNat DEF MustCount
  <2>3. Counted(q.n) \in MustCount(q)..(MustCount(q) + m[q.run])
    BY <1>2 DEF ImportsWell
  <2>4. Counted(q.n) \in MustCount(q)..(MustCount(q) + n[q.run])
    BY <2>2, <2>3
  <2> QED BY <2>4 DEF ImportsWell
<1> QED BY <1>1, <1>2

(* A thread goes on.                                                       *)
LEMMA ImportsMove ==
    ASSUME ImportInv, NEW t \in ImportThreads, NEW q, ithread' = [ithread EXCEPT ![t] = q],
           miscounts' \in [Runs -> Nat], \A r \in Runs : miscounts[r] <= miscounts'[r],
           ImportsWell(q, miscounts'),
           run' \in [Runs -> RunStates], totals' \in [Runs -> Tally], ItemsTyped', UNCHANGED cancel,
           FinishedTotalsAddUp'
    PROVE  ImportInv'
<1>1. q \in Importing
  BY DEF ImportsWell
<1>2. ithread' \in [ImportThreads -> Importing]
  BY <1>1 DEF ImportInv
<1>3. \A u \in ImportThreads : ImportsWell(ithread'[u], miscounts')
  <2>1. ASSUME NEW u \in ImportThreads, u # t PROVE ImportsWell(ithread'[u], miscounts')
    <3>1. ithread'[u] = ithread[u] /\ ImportsWell(ithread[u], miscounts) /\ miscounts \in [Runs -> Nat]
      BY <2>1 DEF ImportInv
    <3>2. ImportsWell(ithread[u], miscounts')
      BY <3>1, ImportsStayWell
    <3> QED BY <3>1, <3>2
  <2>2. ithread'[t] = q
    BY DEF ImportInv
  <2> QED BY <2>1, <2>2
<1> QED BY <1>2, <1>3 DEF ImportInv

(* What an import thread has, read off the invariant.                      *)
LEMMA ImportThreadIs ==
    ASSUME ImportInv, NEW t \in ImportThreads, ithread[t].at # "idle"
    PROVE  /\ ithread[t] \in Importing /\ RunOf(t) \in Runs
           /\ ithread[t].k \in 1..(Len(ItemsOf[RunOf(t)]) + 1)
           /\ ithread[t].k \in Nat /\ Len(ItemsOf[RunOf(t)]) \in Nat
           /\ Counted(ithread[t].n) \in Nat /\ miscounts[RunOf(t)] \in Nat
           /\ Counted(ithread[t].n) \in
                 MustCount(ithread[t])..(MustCount(ithread[t]) + miscounts[RunOf(t)])
           /\ ImportsWell(ithread[t], miscounts)
<1>1. ithread[t] \in Importing /\ ImportsWell(ithread[t], miscounts)
  BY DEF ImportInv
<1>2. /\ ithread[t].run \in Runs /\ ithread[t].k \in 1..(Len(ItemsOf[ithread[t].run]) + 1)
      /\ Counted(ithread[t].n) \in
            MustCount(ithread[t])..(MustCount(ithread[t]) + miscounts[ithread[t].run])
  BY <1>1 DEF ImportsWell
<1>3. ithread[t].n \in Tally /\ ithread[t].k \in Nat
  BY <1>1 DEF Importing
<1>4. miscounts[ithread[t].run] \in Nat
  BY <1>2 DEF ImportInv
<1> QED BY <1>1, <1>2, <1>3, <1>4, LengthsAreNat, CountedIsNat DEF RunOf

(* What it is when it counts an item ...                                   *)
LEMMA CountAsMoves ==
    ASSUME ImportInv, NEW t \in ImportThreads, ithread[t].at \in {"check", "dupes", "mark", "call"},
           ithread[t].k <= Len(ItemsOf[RunOf(t)]),
           NEW S \in {{"completed"}, {"failed"}, {"unsupported"}, {"duplicate", "skipped"}},
           NEW pc \in {"register", "settle", "rescue"}, pc = "register" => Item(t) \in Urls,
           NEW status \in {"completed", "failed", "duplicate", "unsupported"},
           CountAs(t, S, pc, status)
    PROVE  \E q : /\ ithread' = [ithread EXCEPT ![t] = q] /\ ImportsWell(q, miscounts)
                  /\ q.at = pc /\ q.run = RunOf(t) /\ q.k = ithread[t].k
<1> DEFINE q == [at |-> pc, run |-> ithread[t].run, k |-> ithread[t].k,
                 n |-> Plus1(ithread[t].n, S), to |-> status]
<1>1. ithread' = [ithread EXCEPT ![t] = q]
  BY DEF CountAs
<1>2. /\ ithread[t] \in Importing /\ RunOf(t) \in Runs
      /\ ithread[t].k \in 1..(Len(ItemsOf[RunOf(t)]) + 1)
      /\ Counted(ithread[t].n) \in
            MustCount(ithread[t])..(MustCount(ithread[t]) + miscounts[RunOf(t)])
  BY ImportThreadIs
<1>3. ithread[t].n \in Tally /\ ithread[t].k \in Nat
  BY <1>2 DEF Importing
<1>4. /\ Plus1(ithread[t].n, S) \in Tally /\ Counted(ithread[t].n) \in Nat
      /\ Counted(Plus1(ithread[t].n, S)) = Counted(ithread[t].n) + 1
  BY <1>3, CountedOnce
<1>5. /\ q \in Importing /\ q.at = pc /\ q.run = RunOf(t) /\ q.k = ithread[t].k
      /\ q.n = Plus1(ithread[t].n, S) /\ q.to = status
  BY <1>2, <1>3, <1>4 DEF Importing, RunOf, ItemStates
<1> HIDE DEF q
<1>6. MustCount(q) = ithread[t].k /\ MustCount(ithread[t]) = ithread[t].k - 1
  BY <1>5 DEF MustCount
<1>7. miscounts[RunOf(t)] \in Nat
  BY <1>2 DEF ImportInv
<1>8. Counted(q.n) \in MustCount(q)..(MustCount(q) + miscounts[q.run])
  BY <1>2, <1>3, <1>4, <1>5, <1>6, <1>7
<1>9. ImportsWell(q, miscounts)
  BY <1>2, <1>5, <1>8 DEF ImportsWell, Item, RunOf
<1> QED BY <1>1, <1>5, <1>9

(* ... and when it goes on without counting.                               *)
LEMMA GoToMoves ==
    ASSUME ImportInv, NEW t \in ImportThreads, ithread[t].at # "idle",
           NEW pc \in {"check", "dupes", "mark", "call", "settle", "stop", "finish"}, GoTo(t, pc),
           pc = "settle" <=> ithread[t].at \in {"register", "settle", "rescue"},
           pc \in {"dupes", "mark", "call"} => /\ ithread[t].k <= Len(ItemsOf[RunOf(t)])
                                               /\ Item(t) \in Urls,
           pc = "finish" => ithread[t].k > Len(ItemsOf[RunOf(t)])
    PROVE  \E q : /\ ithread' = [ithread EXCEPT ![t] = q] /\ ImportsWell(q, miscounts)
                  /\ q.at = pc /\ q.run = RunOf(t) /\ q.k = ithread[t].k
<1> DEFINE q == [ithread[t] EXCEPT !.at = pc]
<1>1. ithread' = [ithread EXCEPT ![t] = q]
  BY DEF GoTo
<1>2. /\ ithread[t] \in Importing /\ RunOf(t) \in Runs
      /\ ithread[t].k \in 1..(Len(ItemsOf[RunOf(t)]) + 1) /\ Len(ItemsOf[RunOf(t)]) \in Nat
      /\ Counted(ithread[t].n) \in
            MustCount(ithread[t])..(MustCount(ithread[t]) + miscounts[RunOf(t)])
      /\ ImportsWell(ithread[t], miscounts)
  BY ImportThreadIs
<1>3. /\ q \in Importing /\ q.at = pc /\ q.run = RunOf(t) /\ q.k = ithread[t].k
      /\ q.n = ithread[t].n /\ q.to = ithread[t].to
  BY <1>2 DEF Importing, RunOf
<1> HIDE DEF q
<1>4. MustCount(q) = MustCount(ithread[t])
  BY <1>3 DEF MustCount
<1>5. pc = "settle" => /\ ithread[t].k <= Len(ItemsOf[RunOf(t)])
                       /\ ithread[t].to \in {"completed", "failed", "duplicate", "unsupported"}
  BY <1>2 DEF ImportsWell, RunOf
<1>6. ImportsWell(q, miscounts)
  BY <1>2, <1>3, <1>4, <1>5 DEF ImportsWell, Item, RunOf
<1> QED BY <1>1, <1>3, <1>6

Ends == {"completed", "failed", "duplicate", "unsupported"}

(* Steps that only take the thread on, the counters included.              *)
LEMMA OnlyMoves ==
    ASSUME ImportInv, NEW t \in ImportThreads, UNCHANGED <<totals, items, cancel, miscounts>>,
           \E q : ithread' = [ithread EXCEPT ![t] = q] /\ ImportsWell(q, miscounts),
           run' = run \/ \E r \in Runs, s \in {"running", "cancelled"} : run' = [run EXCEPT ![r] = s]
    PROVE  ImportInv'
<1>1. /\ run' \in [Runs -> RunStates]
      /\ \A r \in Runs : run'[r] \in Finals => run'[r] = run[r]
  BY DEF ImportInv, RunStates, Finals
<1>2. FinishedTotalsAddUp'
  BY <1>1 DEF ImportInv, FinishedTotalsAddUp
<1>3. /\ miscounts' \in [Runs -> Nat] /\ totals' \in [Runs -> Tally] /\ ItemsTyped'
      /\ \A r \in Runs : miscounts[r] <= miscounts'[r]
  BY DEF ImportInv, ItemsTyped
<1> QED BY <1>1, <1>2, <1>3, ImportsMove

(* A look at the status and at the item: where the thread goes.            *)
LEMMA CheckMoves ==
    ASSUME ImportInv, NEW t \in ImportThreads, CheckCancelled(t)
    PROVE  \E q : /\ ithread' = [ithread EXCEPT ![t] = q] /\ ImportsWell(q, miscounts)
                  /\ q.run = RunOf(t) /\ q.k = ithread[t].k
                  /\ \/ q.at = "stop" /\ run[RunOf(t)] = "cancelled"
                     \/ q.at = "finish" /\ ithread[t].k > Len(ItemsOf[RunOf(t)])
                     \/ q.at \in {"settle", "dupes"}
<1>1. /\ ithread[t].at = "check" /\ RunOf(t) \in Runs
      /\ ithread[t].k \in 1..(Len(ItemsOf[RunOf(t)]) + 1) /\ Len(ItemsOf[RunOf(t)]) \in Nat
  BY ImportThreadIs DEF CheckCancelled, At
<1>2. CASE run[RunOf(t)] = "cancelled"
  <2>1. GoTo(t, "stop")
    BY <1>2 DEF CheckCancelled
  <2> QED BY <1>1, <1>2, <2>1, GoToMoves
<1>3. CASE run[RunOf(t)] # "cancelled" /\ ithread[t].k > Len(ItemsOf[RunOf(t)])
  <2>1. GoTo(t, "finish")
    BY <1>3 DEF CheckCancelled
  <2> QED BY <1>1, <1>3, <2>1, GoToMoves
<1>4. CASE /\ run[RunOf(t)] # "cancelled" /\ ~(ithread[t].k > Len(ItemsOf[RunOf(t)]))
           /\ Item(t) = "bad"
  <2>1. CountAs(t, {"unsupported"}, "settle", "unsupported") /\ ithread[t].k <= Len(ItemsOf[RunOf(t)])
    BY <1>1, <1>4 DEF CheckCancelled
  <2> QED BY <1>1, <2>1, CountAsMoves
<1>5. CASE /\ run[RunOf(t)] # "cancelled" /\ ~(ithread[t].k > Len(ItemsOf[RunOf(t)]))
           /\ Item(t) # "bad"
  <2>1. GoTo(t, "dupes") /\ ithread[t].k <= Len(ItemsOf[RunOf(t)])
    BY <1>1, <1>5 DEF CheckCancelled
  <2>2. Item(t) \in Urls
    BY <1>1, <1>5, <2>1, LengthsAreNat DEF Item
  <2> QED BY <1>1, <2>1, <2>2, GoToMoves
<1> QED BY <1>2, <1>3, <1>4, <1>5

LEMMA LookUpMoves ==
    ASSUME ImportInv, NEW t \in ImportThreads, LookUpDuplicate(t)
    PROVE  \E q : /\ ithread' = [ithread EXCEPT ![t] = q] /\ ImportsWell(q, miscounts)
                  /\ q.run = RunOf(t) /\ q.k = ithread[t].k /\ q.at \in {"settle", "mark"}
<1>1. /\ ithread[t].at = "dupes" /\ ithread[t].k <= Len(ItemsOf[RunOf(t)]) /\ Item(t) \in Urls
  BY ImportThreadIs DEF LookUpDuplicate, At, ImportsWell, RunOf, Item
<1>2. CASE Item(t) \in urlIndex
  <2>1. CountAs(t, {"duplicate", "skipped"}, "settle", "duplicate")
    BY <1>2 DEF LookUpDuplicate
  <2> QED BY <1>1, <2>1, CountAsMoves
<1>3. CASE Item(t) \notin urlIndex
  <2>1. GoTo(t, "mark")
    BY <1>3 DEF LookUpDuplicate
  <2> QED BY <1>1, <2>1, GoToMoves
<1> QED BY <1>2, <1>3

LEMMA AnswerMoves ==
    ASSUME CallsInv, ImportInv, NEW t \in ImportThreads, IngestAnswers(t)
    PROVE  \E q : /\ ithread' = [ithread EXCEPT ![t] = q] /\ ImportsWell(q, miscounts)
                  /\ q.run = RunOf(t) /\ q.k = ithread[t].k /\ q.at \in {"settle", "register"}
<1>1. /\ ithread[t].at = "call" /\ ithread[t].k <= Len(ItemsOf[RunOf(t)]) /\ Item(t) \in Urls
  BY ImportThreadIs DEF IngestAnswers, At, ImportsWell, RunOf, Item
<1>2. calls[t].res \in {"success", "skipped", "failed"}
  BY ImportThreadsAssumption DEF IngestAnswers, CallsInv, Results
<1>3. CASE calls[t].res = "skipped"
  <2>1. CountAs(t, {"duplicate", "skipped"}, "settle", "duplicate")
    BY <1>3 DEF IngestAnswers
  <2> QED BY <1>1, <2>1, CountAsMoves
<1>4. CASE calls[t].res = "success"
  <2>1. CountAs(t, {"completed"}, "register", "completed")
    BY <1>4 DEF IngestAnswers
  <2> QED BY <1>1, <2>1, CountAsMoves
<1>5. CASE calls[t].res = "failed"
  <2>1. CountAs(t, {"failed"}, "settle", "failed")
    BY <1>5 DEF IngestAnswers
  <2> QED BY <1>1, <2>1, CountAsMoves
<1> QED BY <1>2, <1>3, <1>4, <1>5

(* The last write of an item.                                              *)
LEMMA SettleMoves ==
    ASSUME ImportInv, NEW t \in ImportThreads, SettleItem(t)
    PROVE  /\ \E q : /\ ithread' = [ithread EXCEPT ![t] = q] /\ ImportsWell(q, miscounts)
                     /\ q.run = RunOf(t) /\ q.k = ithread[t].k + 1 /\ q.at = "check"
           /\ RunOf(t) \in Runs /\ ithread[t].k \in 1..Len(ItemsOf[RunOf(t)])
           /\ ithread[t].to \in Ends
           /\ items' = [items EXCEPT ![RunOf(t)][ithread[t].k] = ithread[t].to]
<1> DEFINE q == [at |-> "check", run |-> ithread[t].run, k |-> ithread[t].k + 1,
                 n |-> ithread[t].n, to |-> ithread[t].to]
<1>1. ithread' = [ithread EXCEPT ![t] = q]
  BY DEF SettleItem
<1>2. /\ ithread[t] \in Importing /\ RunOf(t) \in Runs /\ ithread[t].at \in {"settle", "rescue"}
      /\ ithread[t].k \in 1..(Len(ItemsOf[RunOf(t)]) + 1) /\ Len(ItemsOf[RunOf(t)]) \in Nat
      /\ Counted(ithread[t].n) \in
            MustCount(ithread[t])..(MustCount(ithread[t]) + miscounts[RunOf(t)])
      /\ ImportsWell(ithread[t], miscounts)
  BY ImportThreadIs DEF SettleItem, At
<1>3. ithread[t].k <= Len(ItemsOf[RunOf(t)]) /\ ithread[t].to \in Ends
  BY <1>2 DEF ImportsWell, RunOf, Ends
<1>4. /\ q \in Importing /\ q.at = "check" /\ q.run = RunOf(t) /\ q.k = ithread[t].k + 1
      /\ q.n = ithread[t].n
  BY <1>2 DEF Importing, RunOf
<1> HIDE DEF q
<1>5. MustCount(q) = MustCount(ithread[t]) /\ q.k \in 1..(Len(ItemsOf[q.run]) + 1)
  BY <1>2, <1>3, <1>4 DEF MustCount
<1>6. ImportsWell(q, miscounts)
  BY <1>2, <1>4, <1>5 DEF ImportsWell, Item, RunOf
<1>7. items' = [items EXCEPT ![RunOf(t)][ithread[t].k] = ithread[t].to]
  BY DEF SettleItem, SetItem
<1>8. ithread[t].k \in 1..Len(ItemsOf[RunOf(t)])
  BY <1>2, <1>3
<1> QED BY <1>1, <1>2, <1>3, <1>4, <1>6, <1>7, <1>8

(* An item whose bookkeeping raises after it was counted is counted again. *)
LEMMA RaiseMoves ==
    ASSUME ImportInv, NEW t \in ImportThreads, ItemRaises(t)
    PROVE  /\ \E q : ithread' = [ithread EXCEPT ![t] = q] /\ ImportsWell(q, miscounts')
           /\ miscounts' \in [Runs -> Nat] /\ \A r \in Runs : miscounts[r] <= miscounts'[r]
<1>1. /\ ithread[t].at \in {"dupes", "mark", "register", "settle"} /\ RunOf(t) \in Runs
      /\ CountAs(t, {"failed"}, "rescue", "failed") /\ miscounts \in [Runs -> Nat]
      /\ ithread[t] \in Importing /\ miscounts[RunOf(t)] \in Nat
  BY ImportThreadIs DEF ItemRaises, ImportInv
<1>2. /\ ithread[t].k \in 1..Len(ItemsOf[RunOf(t)]) /\ ithread[t].n \in Tally
      /\ Counted(ithread[t].n) \in
            MustCount(ithread[t])..(MustCount(ithread[t]) + miscounts[RunOf(t)])
  BY <1>1, ImportThreadIs DEF ImportsWell, RunOf, Importing
<1>3. CASE ithread[t].at \in {"dupes", "mark"}
  <2>1. miscounts' = miscounts
    BY <1>3 DEF ItemRaises
  <2> QED BY <1>1, <1>2, <1>3, <2>1, CountAsMoves
<1>4. CASE ithread[t].at \in {"register", "settle"}
  <2> DEFINE q == [at |-> "rescue", run |-> ithread[t].run, k |-> ithread[t].k,
                   n |-> Plus1(ithread[t].n, {"failed"}), to |-> "failed"]
  <2>1. ithread' = [ithread EXCEPT ![t] = q]
    BY <1>1 DEF CountAs
  <2>2. miscounts' = [miscounts EXCEPT ![RunOf(t)] = miscounts[RunOf(t)] + 1]
    BY <1>4 DEF ItemRaises
  <2>3. /\ miscounts' \in [Runs -> Nat] /\ miscounts'[RunOf(t)] = miscounts[RunOf(t)] + 1
        /\ \A r \in Runs : miscounts[r] <= miscounts'[r]
    BY <1>1, <2>2
  <2>4. /\ Plus1(ithread[t].n, {"failed"}) \in Tally /\ Counted(ithread[t].n) \in Nat
        /\ Counted(Plus1(ithread[t].n, {"failed"})) = Counted(ithread[t].n) + 1
    BY <1>2, CountedOnce
  <2>5. /\ q \in Importing /\ q.at = "rescue" /\ q.run = RunOf(t) /\ q.k = ithread[t].k
        /\ q.n = Plus1(ithread[t].n, {"failed"}) /\ q.to = "failed"
    BY <1>1, <1>2, <2>4 DEF Importing, RunOf, ItemStates
  <2> HIDE DEF q
  <2>6. MustCount(q) = ithread[t].k /\ MustCount(ithread[t]) = ithread[t].k /\ ithread[t].k \in Nat
    BY <1>2, <1>4, <2>5, LengthsAreNat DEF MustCount
  <2>7. Counted(q.n) \in MustCount(q)..(MustCount(q) + miscounts'[q.run])
    BY <1>1, <1>2, <2>3, <2>4, <2>5, <2>6
  <2>8. ithread[t].k \in 1..(Len(ItemsOf[RunOf(t)]) + 1) /\ ithread[t].k <= Len(ItemsOf[RunOf(t)])
    BY <1>1, <1>2, LengthsAreNat
  <2>9. ImportsWell(q, miscounts')
    BY <1>1, <2>5, <2>7, <2>8 DEF ImportsWell
  <2> QED BY <2>1, <2>3, <2>9
<1> QED BY <1>1, <1>3, <1>4

LEMMA GoneIsWell == ImportsWell(Gone, miscounts)
<1>1. NoCount \in Tally
  BY DEF NoCount, Tally
<1> QED BY <1>1 DEF ImportsWell, Gone, Importing, ItemStates

(* The end of a run writes the totals that go with its status.             *)
LEMMA EndRunKeeps ==
    ASSUME ImportInv, NEW t \in ImportThreads, StopCancelled(t) \/ FinishRun(t)
    PROVE  ImportInv'
<1>1. /\ ithread[t].at \in {"stop", "finish"} /\ RunOf(t) \in Runs /\ ithread[t] \in Importing
      /\ ithread[t].n \in Tally /\ Counted(ithread[t].n) \in Nat
  BY ImportThreadIs DEF StopCancelled, FinishRun, At, Importing
<1>2. PICK s \in Finals \cup {"cancelled"} :
         EndRun(t, s) /\ (s \in Finals => ithread[t].at = "finish")
  BY DEF StopCancelled, FinishRun, At, FinalStatus, Finals
<1>3. /\ run' = [run EXCEPT ![RunOf(t)] = s] /\ totals' = [totals EXCEPT ![RunOf(t)] = ithread[t].n]
      /\ ithread' = [ithread EXCEPT ![t] = Gone]
      /\ UNCHANGED <<items, cancel, miscounts>>
  BY <1>2 DEF EndRun
<1>4. /\ run' \in [Runs -> RunStates] /\ run'[RunOf(t)] = s
      /\ \A r \in Runs : r # RunOf(t) => run'[r] = run[r]
  BY <1>1, <1>3 DEF ImportInv, RunStates
<1>5. /\ totals' \in [Runs -> Tally] /\ totals'[RunOf(t)] = ithread[t].n
      /\ \A r \in Runs : r # RunOf(t) => totals'[r] = totals[r]
  BY <1>1, <1>3 DEF ImportInv
<1>6. s \in Finals => Counted(ithread[t].n) \in
                         Len(ItemsOf[RunOf(t)])..(Len(ItemsOf[RunOf(t)]) + miscounts[RunOf(t)])
  <2>1. SUFFICES ASSUME s \in Finals
                 PROVE  Counted(ithread[t].n) \in
                         Len(ItemsOf[RunOf(t)])..(Len(ItemsOf[RunOf(t)]) + miscounts[RunOf(t)])
    OBVIOUS
  <2>2. ithread[t].at = "finish"
    BY <1>2, <2>1
  <2>3. ithread[t].k = Len(ItemsOf[RunOf(t)]) + 1 /\ Len(ItemsOf[RunOf(t)]) \in Nat
    BY <2>2, ImportThreadIs DEF ImportsWell, RunOf
  <2>4. MustCount(ithread[t]) = Len(ItemsOf[RunOf(t)])
    BY <2>2, <2>3 DEF MustCount
  <2> QED BY <1>1, <2>4, ImportThreadIs
<1>7. FinishedTotalsAddUp'
  <2>1. \A r \in Runs : run'[r] \in Finals =>
            Counted(totals'[r]) \in Len(ItemsOf[r])..(Len(ItemsOf[r]) + miscounts[r])
    BY <1>4, <1>5, <1>6 DEF ImportInv, FinishedTotalsAddUp, Counted
  <2> QED BY <1>3, <2>1 DEF FinishedTotalsAddUp, Counted
<1>8. ImportsWell(Gone, miscounts') /\ ItemsTyped'
      /\ miscounts' \in [Runs -> Nat] /\ \A r \in Runs : miscounts[r] <= miscounts'[r]
  BY <1>3, GoneIsWell DEF ImportInv, ItemsTyped
<1> QED BY <1>3, <1>4, <1>5, <1>7, <1>8, ImportsMove

LEMMA ImportThreadKeeps ==
    ASSUME CallsInv, LiveRowsMayBeRetried, ImportInv, NEW t \in ImportThreads,
           ImportThreadStep(t) \/ ImportFault(t)
    PROVE  CallsInv' /\ LiveRowsMayBeRetried' /\ queue' = queue /\ ImportInv'
<1>0. /\ t \in Callers /\ urlIndex \subseteq Urls /\ \A r \in Runs : miscounts[r] \in Nat
      /\ ItemsTyped /\ miscounts \in [Runs -> Nat] /\ run \in [Runs -> RunStates]
      /\ totals \in [Runs -> Tally]
  BY ImportThreadsAssumption DEF CallsInv, CallsTypeOK, ImportInv
<1>1. CASE SetRunning(t)
  <2>1. /\ GoTo(t, "check") /\ run' = [run EXCEPT ![RunOf(t)] = "running"]
        /\ UNCHANGED <<totals, items, cancel, miscounts>> /\ UNCHANGED callVars
        /\ ithread[t].at = "start" /\ RunOf(t) \in Runs
    BY <1>1, ImportThreadIs DEF SetRunning, At
  <2>2. \E q : ithread' = [ithread EXCEPT ![t] = q] /\ ImportsWell(q, miscounts)
    BY <2>1, GoToMoves
  <2>3. ImportInv'
    BY <2>1, <2>2, OnlyMoves
  <2> QED BY <1>0, <2>1, <2>3, CallsStay DEF callVars
<1>2. CASE CheckCancelled(t) \/ LookUpDuplicate(t)
  <2>1. UNCHANGED <<run, totals, items, cancel, miscounts>> /\ UNCHANGED callVars
    BY <1>2 DEF CheckCancelled, LookUpDuplicate
  <2>2. \E q : ithread' = [ithread EXCEPT ![t] = q] /\ ImportsWell(q, miscounts)
    BY <1>2, CheckMoves, LookUpMoves
  <2>3. ImportInv'
    BY <2>1, <2>2, OnlyMoves
  <2> QED BY <1>0, <2>1, <2>3, CallsStay DEF callVars
<1>3. CASE MarkProcessing(t)
  <2>1. /\ ithread[t].at = "mark" /\ GoTo(t, "call") /\ SetItem(t, "processing")
        /\ UNCHANGED <<run, totals, cancel, miscounts>> /\ UNCHANGED callVars
    BY <1>3 DEF MarkProcessing, At
  <2>2. /\ RunOf(t) \in Runs /\ ithread[t].k \in 1..Len(ItemsOf[RunOf(t)])
        /\ ithread[t].k <= Len(ItemsOf[RunOf(t)]) /\ Item(t) \in Urls
    BY <2>1, ImportThreadIs DEF ImportsWell, RunOf, Item
  <2>3. PICK q : ithread' = [ithread EXCEPT ![t] = q] /\ ImportsWell(q, miscounts)
    BY <2>1, <2>2, GoToMoves
  <2>7. SetsItem(RunOf(t), ithread[t].k, "processing")
    BY <2>1, <2>2 DEF SetItem, SetsItem, ItemStates
  <2>4. ItemsTyped'
    BY <1>0, <2>7, SetItemIs
  <2>5. FinishedTotalsAddUp' /\ \A r \in Runs : miscounts[r] <= miscounts'[r]
    BY <1>0, <2>1 DEF ImportInv, FinishedTotalsAddUp
  <2>6. ImportInv'
    BY <1>0, <2>1, <2>3, <2>4, <2>5, ImportsMove
  <2> QED BY <1>0, <2>1, <2>6, CallsStay DEF callVars
<1>4. CASE CallIngest(t)
  <2>1. /\ ithread[t].at = "call" /\ BeginCall(t, Item(t), FALSE)
        /\ UNCHANGED importVars /\ UNCHANGED <<stored, urlIndex, queue, faults>>
    BY <1>4 DEF CallIngest, At
  <2>2. Item(t) \in Urls
    BY <2>1, ImportThreadIs DEF ImportsWell, RunOf, Item
  <2>3. CallsInv'
    BY <1>0, <2>1, <2>2, BeginCallKeeps
  <2>4. ImportInv'
    BY <2>1 DEF importVars, ImportInv, FinishedTotalsAddUp, ItemsTyped
  <2> QED BY <2>1, <2>3, <2>4 DEF LiveRowsMayBeRetried
<1>5. CASE IngestAnswers(t)
  <2>1. /\ TakeAnswer(t)
        /\ UNCHANGED <<run, totals, items, cancel, miscounts, stored, urlIndex, queue, faults>>
    BY <1>5 DEF IngestAnswers
  <2>2. \E q : ithread' = [ithread EXCEPT ![t] = q] /\ ImportsWell(q, miscounts)
    BY <1>5, AnswerMoves
  <2>3. ImportInv'
    BY <2>1, <2>2, OnlyMoves
  <2>4. CallsInv'
    BY <1>0, <2>1, TakeAnswerKeeps
  <2> QED BY <2>1, <2>3, <2>4 DEF LiveRowsMayBeRetried
<1>6. CASE RegisterUrl(t)
  <2>1. /\ ithread[t].at = "register" /\ GoTo(t, "settle")
        /\ urlIndex' = urlIndex \cup {Canon[Item(t)]}
        /\ UNCHANGED <<run, totals, items, cancel, miscounts, stored, queue, calls, faults>>
    BY <1>6 DEF RegisterUrl, At
  <2>2. Item(t) \in Urls
    BY <2>1, ImportThreadIs DEF ImportsWell, RunOf, Item
  <2>3. urlIndex' \subseteq Urls
    BY <1>0, <2>1, <2>2
  <2>4. \E q : ithread' = [ithread EXCEPT ![t] = q] /\ ImportsWell(q, miscounts)
    BY <2>1, GoToMoves
  <2>5. ImportInv'
    BY <2>1, <2>4, OnlyMoves
  <2> QED BY <2>1, <2>3, <2>5, CallsStay
<1>7. CASE SettleItem(t)
  <2>1. UNCHANGED <<run, totals, cancel, miscounts>> /\ UNCHANGED callVars
    BY <1>7 DEF SettleItem
  <2>2. PICK q : ithread' = [ithread EXCEPT ![t] = q] /\ ImportsWell(q, miscounts)
    BY <1>7, SettleMoves
  <2>3. /\ RunOf(t) \in Runs /\ ithread[t].k \in 1..Len(ItemsOf[RunOf(t)])
        /\ ithread[t].to \in ItemStates
        /\ items' = [items EXCEPT ![RunOf(t)][ithread[t].k] = ithread[t].to]
    BY <1>7, SettleMoves DEF Ends, ItemStates
  <2>7. SetsItem(RunOf(t), ithread[t].k, ithread[t].to)
    BY <2>3 DEF SetsItem
  <2>4. ItemsTyped'
    BY <1>0, <2>7, SetItemIs
  <2>5. FinishedTotalsAddUp' /\ \A r \in Runs : miscounts[r] <= miscounts'[r]
    BY <1>0, <2>1 DEF ImportInv, FinishedTotalsAddUp
  <2>6. ImportInv'
    BY <1>0, <2>1, <2>2, <2>4, <2>5, ImportsMove
  <2> QED BY <1>0, <2>1, <2>6, CallsStay DEF callVars
<1>8. CASE StopCancelled(t) \/ FinishRun(t)
  <2>1. UNCHANGED callVars
    BY <1>8 DEF StopCancelled, FinishRun, EndRun
  <2> QED BY <1>0, <1>8, <2>1, EndRunKeeps, CallsStay DEF callVars
<1>9. CASE ItemRaises(t)
  <2>1. Fault /\ UNCHANGED <<run, totals, items, cancel, stored, urlIndex, queue, calls>>
    BY <1>9 DEF ItemRaises
  <2>2. PICK q : ithread' = [ithread EXCEPT ![t] = q] /\ ImportsWell(q, miscounts')
    BY <1>9, RaiseMoves
  <2>3. miscounts' \in [Runs -> Nat] /\ \A r \in Runs : miscounts[r] <= miscounts'[r]
    BY <1>9, RaiseMoves
  <2>4. FinishedTotalsAddUp'
    <3>1. \A r \in Runs : miscounts[r] \in Nat /\ miscounts'[r] \in Nat /\ miscounts[r] <= miscounts'[r]
      BY <1>0, <2>3
    <3>2. \A r \in Runs : /\ Counted(totals[r]) \in Nat /\ Len(ItemsOf[r]) \in Nat
                          /\ run[r] \in Finals => Counted(totals[r])
                                \in Len(ItemsOf[r])..(Len(ItemsOf[r]) + miscounts[r])
      BY <1>0, LengthsAreNat, CountedIsNat DEF ImportInv, FinishedTotalsAddUp, Counted
    <3>3. \A r \in Runs : run[r] \in Finals => Counted(totals[r])
                                \in Len(ItemsOf[r])..(Len(ItemsOf[r]) + miscounts'[r])
      BY <3>1, <3>2
    <3> QED BY <2>1, <3>3 DEF FinishedTotalsAddUp, Counted
  <2>5. ItemsTyped'
    BY <1>0, <2>1 DEF ItemsTyped
  <2>6. ImportInv'
    BY <1>0, <2>1, <2>2, <2>3, <2>4, <2>5, ImportsMove
  <2> QED BY <1>0, <2>1, <2>6, CallsStay
<1>10. CASE ImportThreadDies(t)
  <2>1. /\ Fault /\ ithread' = [ithread EXCEPT ![t] = Gone]
        /\ UNCHANGED <<run, totals, items, cancel, miscounts, stored, urlIndex, queue, calls>>
    BY <1>10 DEF ImportThreadDies
  <2>2. ImportInv'
    BY <2>1, GoneIsWell, OnlyMoves
  <2> QED BY <1>0, <2>1, <2>2, CallsStay
<1> QED BY <1>1, <1>2, <1>3, <1>4, <1>5, <1>6, <1>7, <1>8, <1>9, <1>10 DEF ImportThreadStep, ImportFault

LEMMA ImportRequestKeeps ==
    ASSUME CallsInv, LiveRowsMayBeRetried, ImportInv, ImportRequest
    PROVE  CallsInv' /\ LiveRowsMayBeRetried' /\ queue' = queue /\ ImportInv'
<1>1. UNCHANGED callVars /\ urlIndex \subseteq Urls
  BY DEF ImportRequest, CreateImport, StartImport, CancelReads, CancelStep, CancelWrites,
     CancelItems, CallsInv, CallsTypeOK
<1>2. CallsInv' /\ LiveRowsMayBeRetried' /\ queue' = queue
  BY <1>1, CallsStay DEF callVars
<1>3. ASSUME NEW r \in Runs, NEW s \in {"queued", "cancelled"}, run' = [run EXCEPT ![r] = s],
             cancel' \in [Runs -> {"no", "read", "written"}],
             UNCHANGED <<totals, items, ithread, miscounts>>
      PROVE  ImportInv'
  <2>1. /\ run' \in [Runs -> RunStates]
        /\ \A v \in Runs : run'[v] \in Finals => run'[v] = run[v]
    BY <1>3 DEF ImportInv, RunStates, Finals
  <2>2. FinishedTotalsAddUp'
    BY <1>3, <2>1 DEF ImportInv, FinishedTotalsAddUp
  <2> QED BY <1>3, <2>1, <2>2 DEF ImportInv, ItemsTyped
<1>4. ASSUME NEW r \in Runs, CreateImport(r) PROVE ImportInv'
  BY <1>3, <1>4 DEF CreateImport, ImportInv
<1>5. ASSUME NEW r \in Runs, NEW t \in ImportThreads, StartImport(r, t) PROVE ImportInv'
  <2> DEFINE q == [at |-> "start", run |-> r, k |-> 1, n |-> NoCount, to |-> "queued"]
  <2>1. ithread' = [ithread EXCEPT ![t] = q] /\ UNCHANGED <<run, totals, items, cancel, miscounts>>
    BY <1>5 DEF StartImport
  <2>2. NoCount \in Tally /\ Counted(NoCount) = 0
    BY DEF NoCount, Tally, Counted
  <2>3. /\ q \in Importing /\ q.at = "start" /\ q.run = r /\ q.k = 1 /\ q.n = NoCount
    BY <2>2 DEF Importing, ItemStates
  <2> HIDE DEF q
  <2>4. 1 \in 1..(Len(ItemsOf[r]) + 1) /\ miscounts[r] \in Nat
    BY LengthsAreNat DEF ImportInv
  <2>5. MustCount(q) = 0
    BY <2>3 DEF MustCount
  <2>6. ImportsWell(q, miscounts)
    BY <2>2, <2>3, <2>4, <2>5 DEF ImportsWell
  <2> QED BY <2>1, <2>6, OnlyMoves
<1>6. ASSUME NEW r \in Runs, CancelReads(r) PROVE ImportInv'
  BY <1>6 DEF CancelReads, ImportInv, FinishedTotalsAddUp, ItemsTyped
<1>7. ASSUME NEW r \in Runs, CancelWrites(r) PROVE ImportInv'
  BY <1>3, <1>7 DEF CancelWrites, ImportInv
<1>8. ASSUME NEW r \in Runs, CancelItems(r) PROVE ImportInv'
  <2> DEFINE new == [k \in DOMAIN items[r] |-> IF items[r][k] \in {"queued", "processing"}
                                               THEN "cancelled" ELSE items[r][k]]
  <2>1. items' = [items EXCEPT ![r] = new]
    BY <1>8 DEF CancelItems
  <2>2. new \in [1..Len(ItemsOf[r]) -> ItemStates]
    BY DEF ImportInv, ItemsTyped, ItemStates
  <2> HIDE DEF new
  <2>3. ItemsTyped'
    BY <2>1, <2>2 DEF ImportInv, ItemsTyped
  <2>4. cancel' \in [Runs -> {"no", "read", "written"}] /\ UNCHANGED <<run, totals, ithread, miscounts>>
    BY <1>8 DEF CancelItems, ImportInv
  <2> QED BY <2>3, <2>4 DEF ImportInv, FinishedTotalsAddUp
<1> QED BY <1>2, <1>4, <1>5, <1>6, <1>7, <1>8 DEF ImportRequest, CancelStep

-----------------------------------------------------------------------------
(* The captures                                                            *)

Capturing == [at : {"idle", "call", "ingest", "rescue"}, capture : Captures \cup {None}]

WorkedOn(c) == \E t \in CaptureThreads : cthread[t].at # "idle" /\ cthread[t].capture = c

(* As long as nothing failed, a capture that shows a stage has a thread.   *)
CaptureInv ==
    /\ CaptureTypeOK
    /\ \A t \in CaptureThreads : cthread[t].at # "idle" => cthread[t].capture \in Captures
    /\ faults = 0 => \A c \in Captures :
                        capture[c] \notin Settled \cup {"absent"} => WorkedOn(c)

(* Without a failure before this step there was none before the last.      *)
LEMMA FaultsOnlyGrow ==
    ASSUME faults \in Nat, Fault \/ UNCHANGED faults
    PROVE  faults' = 0 => faults = 0 /\ ~Fault
BY DEF Fault

(* A thread that stays at its capture may show any stage, one that leaves  *)
(* it shows a result, or the step is a failure.                            *)
LEMMA CaptureMoves ==
    ASSUME CaptureInv, faults \in Nat, Fault \/ UNCHANGED faults,
           NEW t \in CaptureThreads, cthread[t].at # "idle",
           NEW q \in Capturing, cthread' = [cthread EXCEPT ![t] = q],
           q.at # "idle" => q.capture = cthread[t].capture,
           \/ UNCHANGED capture /\ (q.at # "idle" \/ Fault)
           \/ \E s \in Stages : Show(t, s) /\ (s \in Settled \/ q.at # "idle"),
           UNCHANGED retrying
    PROVE  CaptureInv'
<1>1. /\ cthread[t].capture \in Captures /\ cthread \in [CaptureThreads -> Capturing]
      /\ capture \in [Captures -> Stages \cup {"absent"}]
  BY DEF CaptureInv, CaptureTypeOK, Capturing
<1>2. cthread' \in [CaptureThreads -> Capturing] /\ cthread'[t] = q
      /\ \A u \in CaptureThreads : u # t => cthread'[u] = cthread[u]
  BY <1>1
<1>3. capture' \in [Captures -> Stages \cup {"absent"}]
  BY <1>1 DEF Show
<1>4. CaptureTypeOK'
  BY <1>2, <1>3 DEF CaptureInv, CaptureTypeOK, Capturing
<1>5. \A u \in CaptureThreads : cthread'[u].at # "idle" => cthread'[u].capture \in Captures
  BY <1>1, <1>2 DEF CaptureInv
<1>6. ASSUME faults' = 0, NEW c \in Captures, capture'[c] \notin Settled \cup {"absent"}
      PROVE  WorkedOn(c)'
  <2>1. faults = 0 /\ ~Fault
    BY <1>6, FaultsOnlyGrow
  <2>2. CASE c = cthread[t].capture
    <3>1. q.at # "idle"
      BY <1>1, <1>6, <2>1, <2>2 DEF Show, Settled
    <3> QED BY <1>2, <2>2, <3>1 DEF WorkedOn
  <2>3. CASE c # cthread[t].capture
    <3>1. capture'[c] = capture[c]
      BY <1>1, <2>3 DEF Show
    <3>2. WorkedOn(c)
      BY <1>6, <2>1, <3>1 DEF CaptureInv
    <3> QED BY <1>2, <2>3, <3>2 DEF WorkedOn
  <2> QED BY <2>2, <2>3
<1> QED BY <1>4, <1>5, <1>6 DEF CaptureInv

LEMMA CaptureStepKeeps ==
    ASSUME CallsInv, LiveRowsMayBeRetried, CaptureInv, NEW t \in CaptureThreads,
           CaptureThreadStep(t) \/ ReportStage(t) \/ CaptureFault(t)
    PROVE  CallsInv' /\ LiveRowsMayBeRetried' /\ queue' = queue /\ CaptureInv'
<1>0. /\ t \in Callers /\ urlIndex \subseteq Urls /\ faults \in Nat
      /\ cthread \in [CaptureThreads -> Capturing] /\ capture \in [Captures -> Stages \cup {"absent"}]
      /\ Resting \in Capturing /\ Resting.at = "idle"
  BY CaptureThreadsAssumption DEF CallsInv, CallsTypeOK, CaptureInv, CaptureTypeOK, Capturing, Resting
<1>1. CASE CallCapture(t)
  <2> DEFINE q == [cthread[t] EXCEPT !.at = "ingest"]
  <2>1. /\ cthread[t].at = "call" /\ BeginCall(t, UrlOf[cthread[t].capture], FALSE)
        /\ cthread' = [cthread EXCEPT ![t] = q]
        /\ UNCHANGED <<capture, retrying, stored, urlIndex, queue, faults>>
    BY <1>1 DEF CallCapture
  <2>2. q \in Capturing /\ q.at = "ingest" /\ q.capture = cthread[t].capture
    BY <1>0 DEF Capturing
  <2> HIDE DEF q
  <2>3. CaptureInv'
    BY <1>0, <2>1, <2>2, CaptureMoves
  <2>4. UrlOf[cthread[t].capture] \in Urls
    BY <2>1, UrlOfAssumption DEF CaptureInv
  <2>5. CallsInv'
    BY <1>0, <2>1, <2>4, BeginCallKeeps
  <2> QED BY <2>1, <2>3, <2>5 DEF LiveRowsMayBeRetried
<1>2. CASE ReportStage(t)
  <2>1. /\ cthread[t].at = "ingest" /\ calls[t].at \in {"running", "done"}
        /\ UNCHANGED <<cthread, retrying>> /\ UNCHANGED callVars
    BY <1>2 DEF ReportStage
  <2>2. calls[t].at # "running" => calls[t].res \in Results
    BY <1>0, <2>1 DEF CallsInv
  <2>3. StagesOf(t) \subseteq Stages
    <3>1. CASE calls[t].at = "running"
      BY <3>1 DEF StagesOf, Stages
    <3>2. CASE calls[t].at # "running"
      BY <2>2, <3>2 DEF StagesOf, Stages, Results
    <3> QED BY <3>1, <3>2
  <2>4. \E s \in Stages : Show(t, s)
    BY <1>2, <2>3 DEF ReportStage
  <2>5. cthread' = [cthread EXCEPT ![t] = cthread[t]] /\ cthread[t] \in Capturing
    BY <1>0, <2>1
  <2>6. CaptureInv'
    BY <1>0, <2>1, <2>4, <2>5, CaptureMoves DEF callVars
  <2> QED BY <1>0, <2>1, <2>6, CallsStay DEF callVars
<1>3. CASE FinishCapture(t)
  <2>1. /\ cthread[t].at = "ingest" /\ TakeAnswer(t)
        /\ cthread' = [cthread EXCEPT ![t] = Resting]
        /\ UNCHANGED <<retrying, stored, urlIndex, queue, faults>>
    BY <1>3 DEF FinishCapture, Rest
  <2>2. \E s \in Stages : Show(t, s) /\ s \in Settled
    BY <1>3 DEF FinishCapture, Stages, Settled
  <2>3. CaptureInv'
    BY <1>0, <2>1, <2>2, CaptureMoves
  <2>4. CallsInv'
    BY <1>0, <2>1, TakeAnswerKeeps
  <2> QED BY <2>1, <2>3, <2>4 DEF LiveRowsMayBeRetried
<1>4. CASE RescueCapture(t)
  <2>1. /\ cthread[t].at = "rescue" /\ cthread' = [cthread EXCEPT ![t] = Resting]
        /\ UNCHANGED retrying /\ UNCHANGED callVars
    BY <1>4 DEF RescueCapture, Rest
  <2>2. \E s \in Stages : Show(t, s) /\ s \in Settled
    BY <1>4 DEF RescueCapture, Stages, Settled
  <2>3. CaptureInv'
    BY <1>0, <2>1, <2>2, CaptureMoves DEF callVars
  <2> QED BY <1>0, <2>1, <2>3, CallsStay DEF callVars
<1>5. CASE FinishRaises(t)
  <2> DEFINE q == [cthread[t] EXCEPT !.at = "rescue"]
  <2>1. /\ cthread[t].at = "ingest" /\ Fault /\ TakeAnswer(t)
        /\ cthread' = [cthread EXCEPT ![t] = q]
        /\ UNCHANGED <<capture, retrying, stored, urlIndex, queue>>
    BY <1>5 DEF FinishRaises
  <2>2. q \in Capturing /\ q.at = "rescue" /\ q.capture = cthread[t].capture
    BY <1>0 DEF Capturing
  <2> HIDE DEF q
  <2>3. CaptureInv'
    BY <1>0, <2>1, <2>2, CaptureMoves
  <2>4. CallsInv'
    BY <1>0, <2>1, TakeAnswerKeeps
  <2> QED BY <2>1, <2>3, <2>4 DEF LiveRowsMayBeRetried
<1>6. CASE RescueRaises(t)
  <2>1. /\ cthread[t].at = "rescue" /\ Fault /\ cthread' = [cthread EXCEPT ![t] = Resting]
        /\ UNCHANGED <<capture, retrying, stored, urlIndex, queue, calls>>
    BY <1>6 DEF RescueRaises, Rest
  <2>2. CaptureInv'
    BY <1>0, <2>1, CaptureMoves
  <2> QED BY <1>0, <2>1, <2>2, CallsStay
<1> QED BY <1>1, <1>2, <1>3, <1>4, <1>5, <1>6 DEF CaptureThreadStep, CaptureFault

LEMMA CaptureRequestKeeps ==
    ASSUME CallsInv, LiveRowsMayBeRetried, CaptureInv, CaptureRequest
    PROVE  CallsInv' /\ LiveRowsMayBeRetried' /\ queue' = queue /\ CaptureInv'
<1>1. UNCHANGED callVars /\ urlIndex \subseteq Urls
  BY DEF CaptureRequest, CaptureUrl, RetryReads, RetryStarts, CallsInv, CallsTypeOK
<1>2. CallsInv' /\ LiveRowsMayBeRetried' /\ queue' = queue /\ faults' = faults
  BY <1>1, CallsStay DEF callVars
<1>3. ASSUME NEW c \in Captures, NEW t \in CaptureThreads, cthread[t] = Resting,
             capture' = [capture EXCEPT ![c] = "queued"], Launch(t, c), retrying' \subseteq Captures
      PROVE  CaptureInv'
  <2> DEFINE q == [at |-> "call", capture |-> c]
  <2>1. cthread' = [cthread EXCEPT ![t] = q] /\ cthread \in [CaptureThreads -> Capturing]
        /\ capture \in [Captures -> Stages \cup {"absent"}]
    BY <1>3 DEF Launch, CaptureInv, CaptureTypeOK, Capturing
  <2>2. q \in Capturing /\ q.at = "call" /\ q.capture = c
    BY DEF Capturing
  <2> HIDE DEF q
  <2>3. cthread' \in [CaptureThreads -> Capturing] /\ cthread'[t] = q
        /\ \A u \in CaptureThreads : u # t => cthread'[u] = cthread[u]
    BY <2>1, <2>2
  <2>4. CaptureTypeOK'
    BY <1>3, <2>1, <2>3 DEF CaptureTypeOK, Capturing, Stages
  <2>5. \A u \in CaptureThreads : cthread'[u].at # "idle" => cthread'[u].capture \in Captures
    BY <2>2, <2>3 DEF CaptureInv
  <2>6. ASSUME faults = 0, NEW d \in Captures, capture'[d] \notin Settled \cup {"absent"}
        PROVE  WorkedOn(d)'
    <3>1. CASE d = c
      BY <2>2, <2>3, <3>1 DEF WorkedOn
    <3>2. CASE d # c
      <4>1. capture'[d] = capture[d]
        BY <1>3, <2>1, <3>2
      <4>2. PICK u \in CaptureThreads : cthread[u].at # "idle" /\ cthread[u].capture = d
        BY <2>6, <4>1 DEF CaptureInv, WorkedOn
      <4>3. u # t
        BY <1>3, <4>2 DEF Resting
      <4> QED BY <2>3, <4>2, <4>3 DEF WorkedOn
    <3> QED BY <3>1, <3>2
  <2> QED BY <1>2, <2>4, <2>5, <2>6 DEF CaptureInv
<1>4. ASSUME NEW c \in Captures, NEW t \in CaptureThreads, CaptureUrl(c, t) PROVE CaptureInv'
  BY <1>3, <1>4 DEF CaptureUrl, CaptureInv, CaptureTypeOK
<1>5. ASSUME NEW c \in Captures, RetryReads(c) PROVE CaptureInv'
  BY <1>2, <1>5 DEF RetryReads, CaptureInv, CaptureTypeOK, WorkedOn
<1>6. ASSUME NEW c \in Captures, NEW t \in CaptureThreads, RetryStarts(c, t) PROVE CaptureInv'
  BY <1>3, <1>6 DEF RetryStarts, CaptureInv, CaptureTypeOK
<1> QED BY <1>2, <1>4, <1>5, <1>6 DEF CaptureRequest

-----------------------------------------------------------------------------
(* Imports nobody works on                                                 *)

Ahead(t, r, k) == /\ ithread[t].at \notin {"idle", "stop", "finish"}
                  /\ RunOf(t) = r /\ ithread[t].k <= k
On(t, r, k)    == /\ ithread[t].at \in {"call", "register", "settle", "rescue"}
                  /\ RunOf(t) = r /\ ithread[t].k = k

(* As long as nothing failed: a running import has a thread; an item still *)
(* queued has a thread that will come to it, or a cancel that will settle  *)
(* it; an item in progress has the thread that is at it.                   *)
QuietItem(r, k) ==
    /\ items[r][k] = "queued" =>
       /\ \/ run[r] \in {"absent", "queued"} \/ cancel[r] = "written"
          \/ \E t \in ImportThreads : Ahead(t, r, k)
       /\ \/ cancel[r] = "written"
          \/ /\ run[r] # "cancelled"
             /\ \A t \in ImportThreads : RunOf(t) = r => ithread[t].at # "stop"
    /\ items[r][k] = "processing" => \E t \in ImportThreads : On(t, r, k)

Walked(r) == \E t \in ImportThreads : ithread[t].at # "idle" /\ RunOf(t) = r

QuietImports ==
    /\ \A t \in ImportThreads : ithread[t].at \notin {"idle", "start"}
          => run[RunOf(t)] \notin {"absent", "queued"}
    /\ faults = 0 => \A r \in Runs :
          /\ run[r] = "running" => Walked(r)
          /\ \A k \in 1..Len(ItemsOf[r]) : QuietItem(r, k)

(* A thread goes on, past an item only when that is settled, or stops at   *)
(* a cancelled import.                                                     *)
LEMMA QuietMoves ==
    ASSUME ImportInv, QuietImports, NEW t \in ImportThreads, ithread[t].at # "idle",
           NEW q, ithread' = [ithread EXCEPT ![t] = q],
           UNCHANGED <<run, cancel, faults>>,
           q.run = RunOf(t), q.at # "idle",
           q.at # "start" => ithread[t].at # "start",
           q.at = "stop" => run[q.run] = "cancelled",
           \A r \in Runs : \A k \in 1..Len(ItemsOf[r]) :
              /\ items'[r][k] = "queued" => items[r][k] = "queued"
              /\ items'[r][k] = "processing" => \/ items[r][k] = "processing" /\ ~On(t, r, k)
                                                \/ On(t, r, k)'
              /\ items'[r][k] = "queued" /\ Ahead(t, r, k) => \/ Ahead(t, r, k)'
                                                              \/ run[r] = "cancelled"
    PROVE  QuietImports'
<1>1. ithread'[t] = q /\ \A u \in ImportThreads : u # t => ithread'[u] = ithread[u]
  BY DEF ImportInv
<1>2. \A u \in ImportThreads : RunOf(u)' = RunOf(u)
  BY <1>1 DEF RunOf
<1>3. \A u \in ImportThreads : ithread'[u].at \notin {"idle", "start"}
         => run'[RunOf(u)'] \notin {"absent", "queued"}
  BY <1>1, <1>2 DEF QuietImports
<1>4. ASSUME faults' = 0, NEW r \in Runs PROVE run'[r] = "running" => Walked(r)'
  <2>1. run[r] = "running" => Walked(r)
    BY <1>4 DEF QuietImports
  <2> QED BY <1>1, <1>2, <2>1 DEF Walked
<1>5. ASSUME faults' = 0, NEW r \in Runs, NEW k \in 1..Len(ItemsOf[r]) PROVE QuietItem(r, k)'
  <2>1. QuietItem(r, k)
    BY <1>5 DEF QuietImports
  <2>2. \A u \in ImportThreads : u # t => /\ Ahead(u, r, k)' <=> Ahead(u, r, k)
                                          /\ On(u, r, k)' <=> On(u, r, k)
    BY <1>1, <1>2 DEF Ahead, On
  <2>3. CASE items'[r][k] = "queued"
    <3>1. \/ run[r] \in {"absent", "queued"} \/ cancel[r] = "written"
          \/ \E u \in ImportThreads : Ahead(u, r, k)'
      BY <2>1, <2>2, <2>3 DEF QuietItem
    <3>2. \/ cancel[r] = "written"
          \/ /\ run[r] # "cancelled"
             /\ \A u \in ImportThreads : RunOf(u)' = r => ithread'[u].at # "stop"
      BY <1>1, <1>2, <2>1, <2>3 DEF QuietItem
    <3> QED BY <2>3, <3>1, <3>2 DEF QuietItem
  <2>4. CASE items'[r][k] = "processing"
    <3>1. \E u \in ImportThreads : On(u, r, k)'
      BY <2>1, <2>2, <2>4 DEF QuietItem
    <3> QED BY <2>4, <3>1 DEF QuietItem
  <2> QED BY <2>3, <2>4 DEF QuietItem
<1> QED BY <1>3, <1>4, <1>5 DEF QuietImports

(* Others' steps.                                                          *)
LEMMA QuietStays ==
    ASSUME QuietImports, faults \in Nat, Fault \/ UNCHANGED faults, UNCHANGED importVars
    PROVE  QuietImports'
<1>1. faults' = 0 => faults = 0
  BY FaultsOnlyGrow
<1> QED BY <1>1 DEF importVars, QuietImports, QuietItem, Walked, Ahead, On, RunOf

LEMMA QuietSetRunning ==
    ASSUME ImportInv, QuietImports, NEW t \in ImportThreads, SetRunning(t)
    PROVE  QuietImports'
<1>1. /\ ithread[t].at = "start" /\ RunOf(t) \in Runs /\ ithread[t].k = 1
      /\ run' = [run EXCEPT ![RunOf(t)] = "running"] /\ GoTo(t, "check")
      /\ UNCHANGED <<items, cancel, faults>>
  BY ImportThreadIs DEF SetRunning, At, ImportsWell, callVars
<1>2. PICK q : /\ ithread' = [ithread EXCEPT ![t] = q]
               /\ q.at = "check" /\ q.run = RunOf(t) /\ q.k = ithread[t].k
  BY <1>1, GoToMoves
<1>3. ithread'[t] = q /\ \A u \in ImportThreads : u # t => ithread'[u] = ithread[u]
  BY <1>2 DEF ImportInv
<1>4. \A u \in ImportThreads : RunOf(u)' = RunOf(u)
  BY <1>2, <1>3 DEF RunOf
<1>5. run'[RunOf(t)] = "running" /\ \A r \in Runs : r # RunOf(t) => run'[r] = run[r]
  BY <1>1 DEF ImportInv
<1>6. \A u \in ImportThreads : ithread'[u].at \notin {"idle", "start"}
         => run'[RunOf(u)'] \notin {"absent", "queued"}
  <2>1. ASSUME NEW u \in ImportThreads, ithread'[u].at \notin {"idle", "start"}, RunOf(u) # RunOf(t)
        PROVE  run'[RunOf(u)'] \notin {"absent", "queued"}
    <3>1. u # t /\ ithread[u].at \notin {"idle", "start"}
      BY <1>3, <2>1
    <3>2. RunOf(u) \in Runs /\ run[RunOf(u)] \notin {"absent", "queued"}
      BY <3>1, ImportThreadIs DEF QuietImports
    <3> QED BY <1>4, <1>5, <2>1, <3>2
  <2> QED BY <1>4, <1>5, <2>1
<1>7. ASSUME faults' = 0, NEW r \in Runs PROVE run'[r] = "running" => Walked(r)'
  <2>1. CASE r = RunOf(t)
    BY <1>2, <1>3, <1>4, <2>1 DEF Walked
  <2>2. CASE r # RunOf(t)
    <3>1. run[r] = "running" => Walked(r)
      BY <1>1, <1>7 DEF QuietImports
    <3> QED BY <1>3, <1>4, <1>5, <2>2, <3>1 DEF Walked
  <2> QED BY <2>1, <2>2
<1>8. ASSUME faults' = 0, NEW r \in Runs, NEW k \in 1..Len(ItemsOf[r]) PROVE QuietItem(r, k)'
  <2>1. QuietItem(r, k) /\ k \in Nat /\ 1 <= k
    BY <1>1, <1>8, LengthsAreNat DEF QuietImports
  <2>2. \A u \in ImportThreads : u # t => /\ Ahead(u, r, k)' <=> Ahead(u, r, k)
                                          /\ On(u, r, k)' <=> On(u, r, k)
    BY <1>3, <1>4 DEF Ahead, On
  <2>3. ~On(t, r, k) /\ (Ahead(t, r, k)' <=> r = RunOf(t))
    BY <1>1, <1>2, <1>3, <1>4, <2>1 DEF Ahead, On
  <2>4. CASE r = RunOf(t)
    <3>1. run'[r] = "running"
      BY <1>5, <2>4
    <3>2. items[r][k] = "queued" =>
             \/ cancel[r] = "written"
             \/ \A u \in ImportThreads : RunOf(u)' = r => ithread'[u].at # "stop"
      BY <1>2, <1>3, <1>4, <2>1 DEF QuietItem
    <3>3. items[r][k] = "processing" => \E u \in ImportThreads : On(u, r, k)'
      BY <2>1, <2>2, <2>3 DEF QuietItem
    <3> QED BY <1>1, <2>3, <2>4, <3>1, <3>2, <3>3 DEF QuietItem
  <2>5. CASE r # RunOf(t)
    <3>1. run'[r] = run[r] /\ ~Ahead(t, r, k)
      BY <1>5, <2>5 DEF Ahead
    <3>2. items[r][k] = "queued" =>
             \/ cancel[r] = "written"
             \/ /\ run[r] # "cancelled"
                /\ \A u \in ImportThreads : RunOf(u)' = r => ithread'[u].at # "stop"
      BY <1>2, <1>3, <1>4, <2>1 DEF QuietItem
    <3>3. items[r][k] = "processing" => \E u \in ImportThreads : On(u, r, k)'
      BY <2>1, <2>2, <2>3 DEF QuietItem
    <3>4. items[r][k] = "queued" =>
             \/ run[r] \in {"absent", "queued"} \/ cancel[r] = "written"
             \/ \E u \in ImportThreads : Ahead(u, r, k)'
      BY <2>1, <2>2, <3>1 DEF QuietItem
    <3> QED BY <1>1, <3>1, <3>2, <3>3, <3>4 DEF QuietItem
  <2> QED BY <2>4, <2>5
<1> QED BY <1>6, <1>7, <1>8 DEF QuietImports

LEMMA QuietEndRun ==
    ASSUME ImportInv, QuietImports, NEW t \in ImportThreads, StopCancelled(t) \/ FinishRun(t)
    PROVE  QuietImports'
<1>1. PICK s \in Finals \cup {"cancelled"} :
         EndRun(t, s) /\ (s = "cancelled" => ithread[t].at = "stop")
  BY DEF StopCancelled, FinishRun, At, FinalStatus, Finals
<1>2. /\ ithread[t].at \in {"stop", "finish"} /\ RunOf(t) \in Runs
      /\ run' = [run EXCEPT ![RunOf(t)] = s] /\ ithread' = [ithread EXCEPT ![t] = Gone]
      /\ UNCHANGED <<items, cancel, faults>>
  BY <1>1, ImportThreadIs DEF StopCancelled, FinishRun, At, EndRun, callVars
<1>3. /\ ithread'[t] = Gone /\ Gone.at = "idle"
      /\ \A u \in ImportThreads : u # t => ithread'[u] = ithread[u] /\ RunOf(u)' = RunOf(u)
  BY <1>2 DEF ImportInv, Gone, RunOf
<1>4. /\ run'[RunOf(t)] = s /\ s \notin {"absent", "queued", "running"}
      /\ \A r \in Runs : r # RunOf(t) => run'[r] = run[r]
  BY <1>2 DEF ImportInv, Finals
<1>5. \A u \in ImportThreads : ithread'[u].at \notin {"idle", "start"}
         => run'[RunOf(u)'] \notin {"absent", "queued"}
  <2>1. ASSUME NEW u \in ImportThreads, ithread'[u].at \notin {"idle", "start"}
        PROVE  run'[RunOf(u)'] \notin {"absent", "queued"}
    <3>1. u # t /\ ithread[u].at \notin {"idle", "start"} /\ RunOf(u)' = RunOf(u)
      BY <1>3, <2>1
    <3>2. RunOf(u) \in Runs /\ run[RunOf(u)] \notin {"absent", "queued"}
      BY <3>1, ImportThreadIs DEF QuietImports
    <3> QED BY <1>4, <3>1, <3>2
  <2> QED BY <2>1
<1>6. ASSUME faults' = 0, NEW r \in Runs, run'[r] = "running" PROVE Walked(r)'
  <2>1. r # RunOf(t) /\ run[r] = "running"
    BY <1>4, <1>6
  <2>2. Walked(r)
    BY <1>2, <1>6, <2>1 DEF QuietImports
  <2> QED BY <1>3, <2>1, <2>2 DEF Walked
<1>7. ASSUME faults' = 0, NEW r \in Runs, NEW k \in 1..Len(ItemsOf[r]) PROVE QuietItem(r, k)'
  <2>1. QuietItem(r, k)
    BY <1>2, <1>7 DEF QuietImports
  <2>2. \A u \in ImportThreads : u # t => /\ Ahead(u, r, k)' <=> Ahead(u, r, k)
                                          /\ On(u, r, k)' <=> On(u, r, k)
    BY <1>3 DEF Ahead, On
  <2>3. ~On(t, r, k) /\ ~Ahead(t, r, k)
    BY <1>2 DEF Ahead, On
  <2>4. items[r][k] = "processing" => \E u \in ImportThreads : On(u, r, k)'
    BY <2>1, <2>2, <2>3 DEF QuietItem
  <2>5. items[r][k] = "queued" =>
           \/ cancel[r] = "written"
           \/ run'[r] # "cancelled"
              /\ \A u \in ImportThreads : RunOf(u)' = r => ithread'[u].at # "stop"
    <3>1. \A u \in ImportThreads : ithread'[u].at = "stop" => u # t /\ ithread[u].at = "stop" /\ RunOf(u)' = RunOf(u)
      BY <1>3
    <3>2. run'[r] = "cancelled" => run[r] = "cancelled" \/ (r = RunOf(t) /\ ithread[t].at = "stop")
      BY <1>1, <1>4
    <3> QED BY <2>1, <3>1, <3>2 DEF QuietItem
  <2>6. items[r][k] = "queued" =>
           \/ run'[r] \in {"absent", "queued"} \/ cancel[r] = "written"
           \/ \E u \in ImportThreads : Ahead(u, r, k)'
    <3>1. run[r] \in {"absent", "queued"} => r # RunOf(t)
      BY <1>2 DEF QuietImports
    <3> QED BY <1>4, <2>1, <2>2, <2>3, <3>1 DEF QuietItem
  <2> QED BY <1>2, <2>4, <2>5, <2>6 DEF QuietItem
<1> QED BY <1>5, <1>6, <1>7 DEF QuietImports

LEMMA QuietThreadKeeps ==
    ASSUME CallsInv, ImportInv, QuietImports, NEW t \in ImportThreads,
           ImportThreadStep(t) \/ ImportFault(t)
    PROVE  QuietImports'
<1>0. faults \in Nat
  BY DEF CallsInv, CallsTypeOK
<1>1. CASE CheckCancelled(t)
  <2>1. ithread[t].at = "check" /\ UNCHANGED <<run, items, cancel, faults>>
        /\ ithread[t].k \in Nat /\ Len(ItemsOf[RunOf(t)]) \in Nat
    BY <1>1, ImportThreadIs DEF CheckCancelled, At, callVars
  <2>2. PICK q : /\ ithread' = [ithread EXCEPT ![t] = q]
                 /\ q.run = RunOf(t) /\ q.k = ithread[t].k
                 /\ \/ q.at = "stop" /\ run[RunOf(t)] = "cancelled"
                    \/ q.at = "finish" /\ ithread[t].k > Len(ItemsOf[RunOf(t)])
                    \/ q.at \in {"settle", "dupes"}
    BY <1>1, CheckMoves
  <2>3. ithread'[t] = q /\ RunOf(t)' = RunOf(t)
    BY <2>2 DEF ImportInv, RunOf
  <2>4. \A r \in Runs : \A k \in 1..Len(ItemsOf[r]) :
           /\ ~On(t, r, k)
           /\ Ahead(t, r, k) => Ahead(t, r, k)' \/ run[r] = "cancelled"
    <3>1. ASSUME NEW r \in Runs, NEW k \in 1..Len(ItemsOf[r]), Ahead(t, r, k)
          PROVE  Ahead(t, r, k)' \/ run[r] = "cancelled"
      <4>1. r = RunOf(t) /\ ithread[t].k <= k /\ k <= Len(ItemsOf[r]) /\ k \in Nat
        BY <3>1, LengthsAreNat DEF Ahead
      <4>2. q.at # "finish"
        BY <2>1, <2>2, <4>1
      <4> QED BY <2>2, <2>3, <4>1, <4>2 DEF Ahead
    <3> QED BY <2>1, <3>1 DEF On
  <2>5. q.at # "idle" /\ q.at # "start" /\ (q.at = "stop" => run[q.run] = "cancelled")
    BY <2>2
  <2> QED BY <2>1, <2>2, <2>4, <2>5, QuietMoves
<1>2. CASE LookUpDuplicate(t)
  <2>1. ithread[t].at = "dupes" /\ UNCHANGED <<run, items, cancel, faults>>
    BY <1>2 DEF LookUpDuplicate, At, callVars
  <2>2. PICK q : /\ ithread' = [ithread EXCEPT ![t] = q]
                 /\ q.run = RunOf(t) /\ q.k = ithread[t].k /\ q.at \in {"settle", "mark"}
    BY <1>2, LookUpMoves
  <2>3. ithread'[t] = q /\ RunOf(t)' = RunOf(t)
    BY <2>2 DEF ImportInv, RunOf
  <2>4. \A r \in Runs : \A k \in 1..Len(ItemsOf[r]) :
           ~On(t, r, k) /\ (Ahead(t, r, k) => Ahead(t, r, k)')
    BY <2>1, <2>2, <2>3 DEF Ahead, On
  <2> QED BY <2>1, <2>2, <2>4, QuietMoves
<1>3. CASE MarkProcessing(t)
  <2>1. /\ ithread[t].at = "mark" /\ GoTo(t, "call") /\ UNCHANGED <<run, cancel, faults>>
        /\ items' = [items EXCEPT ![RunOf(t)][ithread[t].k] = "processing"] /\ ItemsTyped
    BY <1>3 DEF MarkProcessing, At, callVars, SetItem, ImportInv
  <2>2. /\ RunOf(t) \in Runs /\ ithread[t].k \in 1..Len(ItemsOf[RunOf(t)])
        /\ ithread[t].k <= Len(ItemsOf[RunOf(t)]) /\ Item(t) \in Urls
    BY <2>1, ImportThreadIs DEF ImportsWell, RunOf, Item
  <2>3. PICK q : /\ ithread' = [ithread EXCEPT ![t] = q]
                 /\ q.run = RunOf(t) /\ q.k = ithread[t].k /\ q.at = "call"
    BY <2>1, <2>2, GoToMoves
  <2>4. ithread'[t] = q /\ RunOf(t)' = RunOf(t)
    BY <2>3 DEF ImportInv, RunOf
  <2>5. /\ items'[RunOf(t)][ithread[t].k] = "processing"
        /\ \A r \in Runs : \A k \in 1..Len(ItemsOf[r]) :
              <<r, k>> # <<RunOf(t), ithread[t].k>> => items'[r][k] = items[r][k]
    <3>1. SetsItem(RunOf(t), ithread[t].k, "processing")
      BY <2>1, <2>2 DEF SetsItem, ItemStates
    <3> QED BY <2>1, <3>1, SetItemIs
  <2>6. \A r \in Runs : \A k \in 1..Len(ItemsOf[r]) :
           /\ ~On(t, r, k) /\ (Ahead(t, r, k) => Ahead(t, r, k)')
           /\ <<r, k>> = <<RunOf(t), ithread[t].k>> => On(t, r, k)'
    BY <2>1, <2>3, <2>4 DEF Ahead, On
  <2>7. \A r \in Runs : \A k \in 1..Len(ItemsOf[r]) :
           /\ items'[r][k] = "queued" => items[r][k] = "queued"
           /\ items'[r][k] = "processing" => \/ items[r][k] = "processing" /\ ~On(t, r, k)
                                             \/ On(t, r, k)'
    BY <2>5, <2>6
  <2> QED BY <2>1, <2>3, <2>6, <2>7, QuietMoves
<1>4. CASE CallIngest(t)
  BY <1>0, <1>4, QuietStays DEF CallIngest
<1>5. CASE IngestAnswers(t)
  <2>1. ithread[t].at = "call" /\ UNCHANGED <<run, items, cancel, faults>>
    BY <1>5 DEF IngestAnswers, At
  <2>2. PICK q : /\ ithread' = [ithread EXCEPT ![t] = q]
                 /\ q.run = RunOf(t) /\ q.k = ithread[t].k /\ q.at \in {"settle", "register"}
    BY <1>5, AnswerMoves
  <2>3. ithread'[t] = q /\ RunOf(t)' = RunOf(t)
    BY <2>2 DEF ImportInv, RunOf
  <2>4. \A r \in Runs : \A k \in 1..Len(ItemsOf[r]) :
           (On(t, r, k) => On(t, r, k)') /\ (Ahead(t, r, k) => Ahead(t, r, k)')
    BY <2>1, <2>2, <2>3 DEF Ahead, On
  <2> QED BY <2>1, <2>2, <2>4, QuietMoves
<1>6. CASE RegisterUrl(t)
  <2>1. ithread[t].at = "register" /\ GoTo(t, "settle") /\ UNCHANGED <<run, items, cancel, faults>>
    BY <1>6 DEF RegisterUrl, At
  <2>2. PICK q : /\ ithread' = [ithread EXCEPT ![t] = q]
                 /\ q.run = RunOf(t) /\ q.k = ithread[t].k /\ q.at = "settle"
    BY <2>1, GoToMoves
  <2>3. ithread'[t] = q /\ RunOf(t)' = RunOf(t)
    BY <2>2 DEF ImportInv, RunOf
  <2>4. \A r \in Runs : \A k \in 1..Len(ItemsOf[r]) :
           (On(t, r, k) => On(t, r, k)') /\ (Ahead(t, r, k) => Ahead(t, r, k)')
    BY <2>1, <2>2, <2>3 DEF Ahead, On
  <2> QED BY <2>1, <2>2, <2>4, QuietMoves
<1>7. CASE SettleItem(t)
  <2>1. /\ ithread[t].at \in {"settle", "rescue"} /\ UNCHANGED <<run, cancel, faults>> /\ ItemsTyped
        /\ ithread[t].k \in Nat
    BY <1>7, ImportThreadIs DEF SettleItem, At, callVars, ImportInv
  <2>2. PICK q : /\ ithread' = [ithread EXCEPT ![t] = q]
                 /\ q.run = RunOf(t) /\ q.k = ithread[t].k + 1 /\ q.at = "check"
    BY <1>7, SettleMoves
  <2>3. ithread'[t] = q /\ RunOf(t)' = RunOf(t)
    BY <2>2 DEF ImportInv, RunOf
  <2>4. /\ RunOf(t) \in Runs /\ ithread[t].k \in 1..Len(ItemsOf[RunOf(t)])
        /\ ithread[t].to \in Ends /\ ithread[t].to \in ItemStates
        /\ items' = [items EXCEPT ![RunOf(t)][ithread[t].k] = ithread[t].to]
    BY <1>7, SettleMoves DEF Ends, ItemStates
  <2>5. /\ items'[RunOf(t)][ithread[t].k] = ithread[t].to
        /\ \A r \in Runs : \A k \in 1..Len(ItemsOf[r]) :
              <<r, k>> # <<RunOf(t), ithread[t].k>> => items'[r][k] = items[r][k]
    <3>1. SetsItem(RunOf(t), ithread[t].k, ithread[t].to)
      BY <2>4 DEF SetsItem
    <3> QED BY <2>1, <3>1, SetItemIs
  <2>6. \A r \in Runs : \A k \in 1..Len(ItemsOf[r]) : <<r, k>> # <<RunOf(t), ithread[t].k>>
           => ~On(t, r, k) /\ (Ahead(t, r, k) => Ahead(t, r, k)')
    <3>1. ASSUME NEW r \in Runs, NEW k \in 1..Len(ItemsOf[r]), <<r, k>> # <<RunOf(t), ithread[t].k>>
          PROVE  ~On(t, r, k) /\ (Ahead(t, r, k) => Ahead(t, r, k)')
      <4>1. k \in Nat
        BY LengthsAreNat
      <4>2. r = RunOf(t) => k # ithread[t].k
        BY <3>1
      <4>3. ~On(t, r, k)
        BY <4>2 DEF On
      <4>4. Ahead(t, r, k) => Ahead(t, r, k)'
        BY <2>1, <2>2, <2>3, <4>1, <4>2 DEF Ahead
      <4> QED BY <4>3, <4>4
    <3> QED BY <3>1
  <2>7. \A r \in Runs : \A k \in 1..Len(ItemsOf[r]) : <<r, k>> = <<RunOf(t), ithread[t].k>>
           => items'[r][k] \notin {"queued", "processing"}
    BY <2>4, <2>5 DEF Ends
  <2>8. \A r \in Runs : \A k \in 1..Len(ItemsOf[r]) :
           /\ items'[r][k] = "queued" => items[r][k] = "queued"
           /\ items'[r][k] = "processing" => items[r][k] = "processing" /\ ~On(t, r, k)
           /\ items'[r][k] = "queued" /\ Ahead(t, r, k) => Ahead(t, r, k)'
    BY <2>5, <2>6, <2>7
  <2> QED BY <2>1, <2>2, <2>8, QuietMoves
<1>8. CASE ImportFault(t)
  <2>1. /\ Fault /\ run' = run
        /\ \/ ithread' = [ithread EXCEPT ![t] = Gone]
           \/ /\ CountAs(t, {"failed"}, "rescue", "failed")
              /\ ithread[t].at \in {"dupes", "mark", "register", "settle"}
    BY <1>8 DEF ImportFault, ItemRaises, ImportThreadDies
  <2>2. faults' # 0
    BY <1>0, <2>1 DEF Fault
  <2>3. /\ \A u \in ImportThreads : u # t => ithread'[u] = ithread[u] /\ RunOf(u)' = RunOf(u)
        /\ \/ ithread'[t].at = "idle"
           \/ ithread[t].at \notin {"idle", "start"} /\ RunOf(t)' = RunOf(t)
    BY <2>1 DEF ImportInv, RunOf, Gone, CountAs
  <2>4. \A u \in ImportThreads : ithread'[u].at \notin {"idle", "start"}
           => run'[RunOf(u)'] \notin {"absent", "queued"}
    BY <2>1, <2>3 DEF QuietImports
  <2> QED BY <2>2, <2>4 DEF QuietImports
<1> QED BY <1>1, <1>2, <1>3, <1>4, <1>5, <1>6, <1>7, <1>8, QuietSetRunning, QuietEndRun
        DEF ImportThreadStep

LEMMA QuietRequestKeeps ==
    ASSUME CallsInv, ImportInv, QuietImports, ImportRequest
    PROVE  QuietImports'
<1>0. /\ UNCHANGED faults /\ run \in [Runs -> RunStates] /\ ithread \in [ImportThreads -> Importing]
      /\ cancel \in [Runs -> {"no", "read", "written"}]
  BY DEF ImportRequest, CreateImport, StartImport, CancelReads, CancelStep, CancelWrites,
     CancelItems, callVars, ImportInv
<1>1. ASSUME NEW r \in Runs, CreateImport(r) PROVE QuietImports'
  <2>1. /\ run[r] = "absent" /\ UNCHANGED <<items, cancel, ithread>>
        /\ run'[r] = "queued" /\ \A v \in Runs : v # r => run'[v] = run[v]
    BY <1>0, <1>1 DEF CreateImport
  <2>2. \A t \in ImportThreads : ithread[t].at \notin {"idle", "start"}
           => RunOf(t) \in Runs /\ RunOf(t) # r /\ run[RunOf(t)] \notin {"absent", "queued"}
    BY <2>1, ImportThreadIs DEF QuietImports
  <2>3. ASSUME faults = 0, NEW v \in Runs, NEW k \in 1..Len(ItemsOf[v]) PROVE QuietItem(v, k)'
    <3>1. QuietItem(v, k)
      BY <2>3 DEF QuietImports
    <3> QED BY <2>1, <3>1 DEF QuietItem, Ahead, On, RunOf
  <2>4. ASSUME faults = 0, NEW v \in Runs, run'[v] = "running" PROVE Walked(v)'
    BY <2>1, <2>4 DEF QuietImports, Walked, RunOf
  <2>5. \A t \in ImportThreads : ithread'[t].at \notin {"idle", "start"}
           => run'[RunOf(t)'] \notin {"absent", "queued"}
    BY <2>1, <2>2 DEF RunOf
  <2> QED BY <1>0, <2>3, <2>4, <2>5 DEF QuietImports
<1>2. ASSUME NEW r \in Runs, NEW t \in ImportThreads, StartImport(r, t) PROVE QuietImports'
  <2> DEFINE q == [at |-> "start", run |-> r, k |-> 1, n |-> NoCount, to |-> "queued"]
  <2>1. /\ ithread[t].at = "idle" /\ UNCHANGED <<run, items, cancel>>
        /\ ithread' = [ithread EXCEPT ![t] = q] /\ q.at = "start"
    BY <1>2 DEF StartImport, At
  <2> HIDE DEF q
  <2>2. /\ ithread'[t].at = "start"
        /\ \A u \in ImportThreads : u # t => ithread'[u] = ithread[u] /\ RunOf(u)' = RunOf(u)
    BY <1>0, <2>1 DEF RunOf
  <2>3. ASSUME faults = 0, NEW v \in Runs, NEW k \in 1..Len(ItemsOf[v]) PROVE QuietItem(v, k)'
    <3>1. QuietItem(v, k)
      BY <2>3 DEF QuietImports
    <3>2. \A u \in ImportThreads : /\ Ahead(u, v, k) => Ahead(u, v, k)'
                                   /\ On(u, v, k) => On(u, v, k)'
      BY <2>1, <2>2 DEF Ahead, On
    <3>3. \A u \in ImportThreads : RunOf(u)' = v /\ ithread'[u].at = "stop"
                                      => RunOf(u) = v /\ ithread[u].at = "stop"
      BY <2>2
    <3>4. items[v][k] = "queued" =>
             \/ run[v] \in {"absent", "queued"} \/ cancel[v] = "written"
             \/ \E u \in ImportThreads : Ahead(u, v, k)'
      BY <3>1, <3>2 DEF QuietItem
    <3>5. items[v][k] = "queued" =>
             \/ cancel[v] = "written"
             \/ /\ run[v] # "cancelled"
                /\ \A u \in ImportThreads : RunOf(u)' = v => ithread'[u].at # "stop"
      BY <3>1, <3>3 DEF QuietItem
    <3>6. items[v][k] = "processing" => \E u \in ImportThreads : On(u, v, k)'
      BY <3>1, <3>2 DEF QuietItem
    <3> QED BY <2>1, <3>4, <3>5, <3>6 DEF QuietItem
  <2>4. ASSUME faults = 0, NEW v \in Runs, run'[v] = "running" PROVE Walked(v)'
    <3>1. PICK u \in ImportThreads : ithread[u].at # "idle" /\ RunOf(u) = v
      BY <2>1, <2>4 DEF QuietImports, Walked
    <3>2. u # t
      BY <2>1, <3>1
    <3> QED BY <2>2, <3>1, <3>2 DEF Walked
  <2>5. \A u \in ImportThreads : ithread'[u].at \notin {"idle", "start"}
           => run'[RunOf(u)'] \notin {"absent", "queued"}
    BY <2>1, <2>2 DEF QuietImports
  <2> QED BY <1>0, <2>3, <2>4, <2>5 DEF QuietImports
<1>3. ASSUME NEW r \in Runs, CancelReads(r) PROVE QuietImports'
  <2>1. /\ cancel[r] = "no" /\ UNCHANGED <<run, items, ithread>>
        /\ \A v \in Runs : cancel[v] = "written" <=> cancel'[v] = "written"
    BY <1>0, <1>3 DEF CancelReads
  <2> QED BY <1>0, <2>1 DEF QuietImports, QuietItem, Walked, Ahead, On, RunOf
<1>4. ASSUME NEW r \in Runs, CancelWrites(r) PROVE QuietImports'
  <2>1. /\ UNCHANGED <<items, ithread>> /\ run'[r] = "cancelled" /\ cancel'[r] = "written"
        /\ \A v \in Runs : v # r => run'[v] = run[v] /\ cancel'[v] = cancel[v]
    BY <1>0, <1>4 DEF CancelWrites
  <2>2. ASSUME faults = 0, NEW v \in Runs, NEW k \in 1..Len(ItemsOf[v]) PROVE QuietItem(v, k)'
    <3>1. QuietItem(v, k)
      BY <2>2 DEF QuietImports
    <3> QED BY <2>1, <3>1 DEF QuietItem, Ahead, On, RunOf
  <2>3. ASSUME faults = 0, NEW v \in Runs, run'[v] = "running" PROVE Walked(v)'
    BY <2>1, <2>3 DEF QuietImports, Walked, RunOf
  <2>4. ASSUME NEW t \in ImportThreads, ithread[t].at \notin {"idle", "start"}
        PROVE  run'[RunOf(t)] \notin {"absent", "queued"}
    <3>1. RunOf(t) \in Runs /\ run[RunOf(t)] \notin {"absent", "queued"}
      BY <2>4, ImportThreadIs DEF QuietImports
    <3> QED BY <2>1, <3>1
  <2>5. \A t \in ImportThreads : ithread'[t].at \notin {"idle", "start"}
           => run'[RunOf(t)'] \notin {"absent", "queued"}
    BY <2>1, <2>4 DEF RunOf
  <2> QED BY <1>0, <2>2, <2>3, <2>5 DEF QuietImports
<1>5. ASSUME NEW r \in Runs, CancelItems(r) PROVE QuietImports'
  <2> DEFINE new == [k \in DOMAIN items[r] |-> IF items[r][k] \in {"queued", "processing"}
                                               THEN "cancelled" ELSE items[r][k]]
  <2>1. /\ items' = [items EXCEPT ![r] = new] /\ UNCHANGED <<run, ithread>>
        /\ \A v \in Runs : v # r => cancel'[v] = cancel[v]
    BY <1>0, <1>5 DEF CancelItems
  <2>2. \A k \in 1..Len(ItemsOf[r]) : new[k] \notin {"queued", "processing"}
    BY DEF ImportInv, ItemsTyped
  <2> HIDE DEF new
  <2>3. items'[r] = new /\ \A v \in Runs : v # r => items'[v] = items[v]
    BY <2>1 DEF ImportInv, ItemsTyped
  <2>4. ASSUME faults = 0, NEW v \in Runs, NEW k \in 1..Len(ItemsOf[v]) PROVE QuietItem(v, k)'
    <3>1. CASE v = r
      BY <2>2, <2>3, <3>1 DEF QuietItem
    <3>2. CASE v # r
      <4>1. QuietItem(v, k)
        BY <2>4 DEF QuietImports
      <4> QED BY <2>1, <2>3, <3>2, <4>1 DEF QuietItem, Ahead, On, RunOf
    <3> QED BY <3>1, <3>2
  <2> QED BY <1>0, <2>1, <2>4 DEF QuietImports, Walked, RunOf
<1> QED BY <1>1, <1>2, <1>3, <1>4, <1>5 DEF ImportRequest, CancelStep

-----------------------------------------------------------------------------
(* The intake                                                              *)

IntakeInv ==
    /\ CallsInv /\ LiveRowsMayBeRetried
    /\ ImportInv /\ QuietImports /\ CaptureInv /\ AgentInv /\ RetryInv
    /\ asked \in 0..MaxAsked /\ cancels \in 0..MaxCancels

LEMMA IntakeStarts == Init => IntakeInv
<1> SUFFICES ASSUME Init PROVE IntakeInv
  OBVIOUS
<1> USE DEF Init
<1>1. CallsInv /\ LiveRowsMayBeRetried
  <2>1. NoCall \in CallRecords /\ NoCall.at = "none" /\ NoCall.row = 0
    BY DEF NoCall, CallRecords
  <2>2. calls \in [Callers -> CallRecords] /\ queue \in Seq(Rows) /\ Len(queue) = 0
    BY <2>1 DEF CallsInit
  <2> QED BY <2>1, <2>2 DEF CallsInit, CallsInv, CallsTypeOK, CallRecords, LiveRowsMayBeRetried
<1>2. ImportInv
  <2>1. NoCount \in Tally
    BY DEF NoCount, Tally
  <2>2. ItemsTyped
    BY DEF ImportInit, ItemsTyped, ItemStates
  <2>3. Gone \in Importing /\ \A t \in ImportThreads : ImportsWell(ithread[t], miscounts)
    BY GoneIsWell DEF ImportInit, ImportsWell
  <2>4. FinishedTotalsAddUp
    BY DEF ImportInit, FinishedTotalsAddUp, Finals
  <2> QED BY <2>1, <2>2, <2>3, <2>4 DEF ImportInit, ImportInv, RunStates
<1>3. QuietImports
  BY DEF ImportInit, QuietImports, QuietItem, Gone
<1>4. CaptureInv
  BY DEF CaptureInit, CaptureInv, CaptureTypeOK, Resting
<1>5. AgentInv
  BY DEF AgentInit, AgentInv, AgentTypeOK, NotRunning, Holds, OneIngestPerClaim, ClaimsAreWorkedOn
<1>6. RetryInv
  <2>1. Len(queue) \in Nat
    BY DEF CallsInit
  <2>2. ServesQueue(Unasked, Len(queue)) /\ Unasked \in Serves
    BY <2>1, UnaskedServes DEF ServesQueue
  <2> QED BY <2>2 DEF RetryInit, RetryInv
<1> QED BY <1>1, <1>2, <1>3, <1>4, <1>5, <1>6, BoundsAssumption DEF IntakeInv

LEMMA CaptureStays ==
    ASSUME CaptureInv, faults \in Nat, Fault \/ UNCHANGED faults, UNCHANGED captureVars
    PROVE  CaptureInv'
<1>1. faults' = 0 => faults = 0
  BY FaultsOnlyGrow
<1> QED BY <1>1 DEF captureVars, CaptureInv, CaptureTypeOK, WorkedOn

LEMMA BoundsHold ==
    ASSUME asked \in 0..MaxAsked, cancels \in 0..MaxCancels, Next
    PROVE  asked' \in 0..MaxAsked /\ cancels' \in 0..MaxCancels
<1>1. asked' = asked \/ (asked < MaxAsked /\ asked' = asked + 1)
  BY DEF Next, ImportPart, ImportRequest, CapturePart, CaptureRequest, AgentPart, RuleRequest,
     RetryPart, RetryRequest, CallPart, Crash, Others
<1>2. cancels' = cancels \/ (cancels < MaxCancels /\ cancels' = cancels + 1)
  BY DEF Next, ImportPart, ImportRequest, CapturePart, CaptureRequest, AgentPart, RuleRequest,
     RetryPart, RetryRequest, CallPart, Crash, Others
<1> QED BY <1>1, <1>2, BoundsAssumption

(* Failures are counted.                                                   *)
LEMMA PartsCountFaults ==
    ASSUME CapturePart \/ AgentPart \/ RetryPart \/ CallPart \/ ImportPart
    PROVE  Fault \/ UNCHANGED faults
<1>1. CASE CapturePart
  BY <1>1 DEF CapturePart, CaptureRequest, CaptureUrl, RetryReads, RetryStarts, CaptureThreadStep,
     CallCapture, FinishCapture, RescueCapture, ReportStage, CaptureFault, FinishRaises,
     RescueRaises, callVars
<1>2. CASE AgentPart
  BY <1>2 DEF AgentPart, RuleRequest, CreateRule, ApproveRule, DisableRule, RunRule, RunThreadStep,
     ClaimUrl, CallForRule, RuleCallReturns, CompleteClaim, ReleaseClaim, RunFault, CallRaises,
     ClaimIsLeft, callVars
<1>3. CASE RetryPart
  BY <1>3 DEF RetryPart, RetryRequest, ProcessRetries, RetryStep, CallRetry, RetryAnswers,
     CompleteRetry, LookAgain, CountAgain, RetryRequestFails, callVars
<1>4. CASE CallPart
  BY <1>4 DEF CallPart, CallStep, CallSucceeds, CallSkips, CallFails, CallMissesTranscript,
     CallEnqueues
<1>5. CASE ImportPart
  BY <1>5 DEF ImportPart, ImportRequest, CreateImport, StartImport, CancelReads, CancelStep,
     CancelWrites, CancelItems, ImportThreadStep, SetRunning, CheckCancelled, LookUpDuplicate,
     MarkProcessing, CallIngest, IngestAnswers, RegisterUrl, SettleItem, StopCancelled, FinishRun,
     EndRun, ImportFault, ItemRaises, ImportThreadDies, callVars
<1> QED BY <1>1, <1>2, <1>3, <1>4, <1>5

LEMMA CrashKeeps ==
    ASSUME IntakeInv, Crash
    PROVE  IntakeInv'
<1>1. /\ Fault /\ UNCHANGED <<stored, urlIndex, queue, run, totals, items, miscounts, capture,
                              rule, claim, asked, cancels>>
      /\ calls' = [c \in Callers |-> NoCall] /\ ithread' = [t \in ImportThreads |-> Gone]
      /\ cthread' = [t \in CaptureThreads |-> Resting]
      /\ qthread' = [t \in RetryThreads |-> Unasked]
      /\ rthread' = [t \in RunThreads |-> NotRunning]
      /\ cancel' = [r \in Runs |-> "no"] /\ retrying' = {}
      /\ lost' = lost \cup {Claimed(t) : t \in {u \in RunThreads :
                                     rthread[u].at \in {"call", "complete", "release"}}}
  BY DEF Crash, Others
<1>2. faults \in Nat /\ faults' \in 0..MaxFaults /\ faults' # 0
  BY <1>1 DEF IntakeInv, CallsInv, CallsTypeOK, Fault
<1>3. CallsInv' /\ LiveRowsMayBeRetried'
  <2>1. NoCall \in CallRecords /\ NoCall.at = "none" /\ NoCall.row = 0
    BY DEF NoCall, CallRecords
  <2>2. calls' \in [Callers -> CallRecords] /\ queue \in Seq(Rows) /\ Len(queue) \in Nat
    BY <1>1, <2>1 DEF IntakeInv, CallsInv, CallsTypeOK
  <2> QED BY <1>1, <1>2, <2>1, <2>2
          DEF IntakeInv, CallsInv, CallsTypeOK, CallRecords, LiveRowsMayBeRetried
<1>4. ImportInv'
  <2>1. \A t \in ImportThreads : ImportsWell(ithread'[t], miscounts)
    BY <1>1, GoneIsWell
  <2>2. ithread' \in [ImportThreads -> Importing]
    BY <1>1, GoneIsWell DEF ImportsWell
  <2>3. ItemsTyped' /\ FinishedTotalsAddUp'
    BY <1>1 DEF IntakeInv, ImportInv, ItemsTyped, FinishedTotalsAddUp
  <2>4. cancel' \in [Runs -> {"no", "read", "written"}]
    BY <1>1
  <2> QED BY <1>1, <2>1, <2>2, <2>3, <2>4 DEF IntakeInv, ImportInv
<1>5. QuietImports'
  BY <1>1, <1>2 DEF QuietImports, Gone
<1>6. CaptureInv'
  BY <1>1, <1>2 DEF IntakeInv, CaptureInv, CaptureTypeOK, Resting
<1>7. AgentInv'
  <2>1. \A t \in RunThreads : ~Holds(t)' /\ rthread'[t].at = "idle"
    BY <1>1 DEF Holds, NotRunning
  <2>2. \A t \in RunThreads : Holds(t) => Claimed(t) \in lost' /\ Claimed(t) \in Rules \X Urls
    BY <1>1, CandidatesAreUrls DEF Holds, IntakeInv
  <2>3. lost \subseteq lost' /\ lost' \subseteq Rules \X Urls
    BY <1>1, <2>2 DEF Holds, IntakeInv, AgentInv, AgentTypeOK
  <2>4. AgentTypeOK'
    BY <1>1, <2>3 DEF IntakeInv, AgentInv, AgentTypeOK, NotRunning
  <2>5. OneIngestPerClaim'
    BY <2>1 DEF OneIngestPerClaim
  <2>6. ClaimsAreWorkedOn'
    BY <1>1, <2>2, <2>3 DEF IntakeInv, AgentInv, ClaimsAreWorkedOn, Holds
  <2> QED BY <2>1, <2>4, <2>5, <2>6 DEF AgentInv
<1>8. RetryInv'
  <2>1. Len(queue') \in Nat
    BY <1>1 DEF IntakeInv, CallsInv, CallsTypeOK
  <2>2. ServesQueue(Unasked, Len(queue')) /\ Unasked \in Serves
    BY <2>1, UnaskedServes DEF ServesQueue
  <2> QED BY <1>1, <2>2 DEF RetryInv
<1> QED BY <1>1, <1>3, <1>4, <1>5, <1>6, <1>7, <1>8 DEF IntakeInv

LEMMA IntakeStep == IntakeInv /\ [Next]_vars => IntakeInv'
<1> SUFFICES ASSUME IntakeInv, [Next]_vars PROVE IntakeInv'
  OBVIOUS
<1>0. /\ CallsInv /\ LiveRowsMayBeRetried /\ ImportInv /\ QuietImports /\ CaptureInv
      /\ AgentInv /\ RetryInv /\ asked \in 0..MaxAsked /\ cancels \in 0..MaxCancels
      /\ faults \in Nat /\ queue \in Seq(Rows)
  BY DEF IntakeInv, CallsInv, CallsTypeOK
<1>01. CallsInv' => queue' \in Seq(Rows)
  BY DEF CallsInv, CallsTypeOK
<1>02. Len(queue) \in Nat
  BY <1>0
<1>1. CASE ImportPart
  <2>1. CallsInv' /\ LiveRowsMayBeRetried' /\ queue' = queue /\ ImportInv'
    BY <1>0, <1>1, ImportRequestKeeps, ImportThreadKeeps DEF ImportPart
  <2>2. QuietImports'
    BY <1>0, <1>1, QuietRequestKeeps, QuietThreadKeeps DEF ImportPart
  <2>3. CaptureInv' /\ AgentInv'
    BY <1>0, <1>1, PartsCountFaults, CaptureStays, AgentStays DEF ImportPart
  <2>4. RetryInv'
    BY <1>0, <1>02, <1>1, <2>1, RetriesUnchanged DEF ImportPart
  <2> QED BY <1>0, <1>1, <2>1, <2>2, <2>3, <2>4, BoundsHold DEF IntakeInv, Next
<1>2. CASE CapturePart
  <2>1. CallsInv' /\ LiveRowsMayBeRetried' /\ queue' = queue /\ CaptureInv'
    BY <1>0, <1>2, CaptureRequestKeeps, CaptureStepKeeps DEF CapturePart
  <2>2. QuietImports'
    BY <1>0, <1>2, PartsCountFaults, QuietStays DEF CapturePart
  <2>3. ImportInv'
    BY <1>0, <1>2 DEF CapturePart, importVars, ImportInv, ItemsTyped, FinishedTotalsAddUp
  <2>4. AgentInv'
    BY <1>0, <1>2, AgentStays DEF CapturePart
  <2>5. RetryInv'
    BY <1>0, <1>02, <1>2, <2>1, RetriesUnchanged DEF CapturePart
  <2> QED BY <1>0, <1>2, <2>1, <2>2, <2>3, <2>4, <2>5, BoundsHold DEF IntakeInv, Next
<1>3. CASE AgentPart
  <2>1. CallsInv' /\ LiveRowsMayBeRetried' /\ queue' = queue /\ AgentInv'
    BY <1>0, <1>3, RuleRequestKeeps, RunStepKeeps DEF AgentPart
  <2>2. QuietImports'
    BY <1>0, <1>3, PartsCountFaults, QuietStays DEF AgentPart
  <2>3. ImportInv'
    BY <1>0, <1>3 DEF AgentPart, importVars, ImportInv, ItemsTyped, FinishedTotalsAddUp
  <2>4. CaptureInv'
    BY <1>0, <1>3, PartsCountFaults, CaptureStays DEF AgentPart
  <2>5. RetryInv'
    BY <1>0, <1>02, <1>3, <2>1, RetriesUnchanged DEF AgentPart
  <2> QED BY <1>0, <1>3, <2>1, <2>2, <2>3, <2>4, <2>5, BoundsHold DEF IntakeInv, Next
<1>4. CASE RetryPart
  <2>1. CallsInv' /\ LiveRowsMayBeRetried' /\ RetryInv'
    BY <1>0, <1>4, ProcessRetriesKeeps, RetryStepKeeps DEF RetryPart, RetryRequest
  <2>2. QuietImports'
    BY <1>0, <1>4, PartsCountFaults, QuietStays DEF RetryPart
  <2>3. ImportInv'
    BY <1>0, <1>4 DEF RetryPart, importVars, ImportInv, ItemsTyped, FinishedTotalsAddUp
  <2>4. CaptureInv' /\ AgentInv'
    BY <1>0, <1>4, PartsCountFaults, CaptureStays, AgentStays DEF RetryPart
  <2> QED BY <1>0, <1>4, <2>1, <2>2, <2>3, <2>4, BoundsHold DEF IntakeInv, Next
<1>5. CASE CallPart
  <2>1. CallsInv' /\ LiveRowsMayBeRetried' /\ Len(queue) <= Len(queue')
    BY <1>0, <1>5, CallStepKeeps DEF CallPart
  <2>2. QuietImports'
    BY <1>0, <1>5, PartsCountFaults, QuietStays DEF CallPart
  <2>3. ImportInv'
    BY <1>0, <1>5 DEF CallPart, importVars, ImportInv, ItemsTyped, FinishedTotalsAddUp
  <2>4. CaptureInv' /\ AgentInv'
    BY <1>0, <1>5, PartsCountFaults, CaptureStays, AgentStays DEF CallPart
  <2>5. RetryInv'
    BY <1>0, <1>01, <1>5, <2>1, RetriesUnchanged DEF CallPart
  <2> QED BY <1>0, <1>5, <2>1, <2>2, <2>3, <2>4, <2>5, BoundsHold DEF IntakeInv, Next
<1>6. CASE Crash
  BY <1>6, CrashKeeps
<1>7. CASE UNCHANGED vars
  <2>1. /\ UNCHANGED callVars /\ UNCHANGED importVars /\ UNCHANGED captureVars
        /\ UNCHANGED agentVars /\ UNCHANGED <<qthread, asked, cancels>>
    BY <1>7 DEF vars
  <2>2. CallsInv' /\ LiveRowsMayBeRetried' /\ queue' = queue /\ UNCHANGED faults
    BY <1>0, <2>1 DEF callVars, CallsInv, CallsTypeOK, LiveRowsMayBeRetried
  <2>3. ImportInv'
    BY <1>0, <2>1 DEF importVars, ImportInv, ItemsTyped, FinishedTotalsAddUp
  <2>4. QuietImports' /\ CaptureInv' /\ AgentInv'
    BY <1>0, <2>1, <2>2, QuietStays, CaptureStays, AgentStays
  <2>5. RetryInv'
    BY <1>0, <1>02, <2>1, <2>2, RetriesUnchanged
  <2> QED BY <1>0, <2>1, <2>2, <2>3, <2>4, <2>5 DEF IntakeInv
<1> QED BY <1>1, <1>2, <1>3, <1>4, <1>5, <1>6, <1>7 DEF Next

LEMMA IntakeInvariant == Spec => []IntakeInv
BY IntakeStarts, IntakeStep, PTL DEF Spec

(* Every table, queue and thread of the intake holds only what the code    *)
(* can put there, however many requests, threads and crashes there are.    *)
THEOREM IntakeTypes == Spec => []TypeOK
<1>1. IntakeInv => TypeOK
  <2> SUFFICES ASSUME IntakeInv PROVE TypeOK
    OBVIOUS
  <2>1. CallsTypeOK /\ CaptureTypeOK /\ AgentTypeOK
    BY DEF IntakeInv, CallsInv, CaptureInv, AgentInv
  <2>2. ImportTypeOK
    BY DEF IntakeInv, ImportInv, ItemsTyped, RunStates, Importing, ImportTypeOK
  <2>3. RetryTypeOK
    BY DEF IntakeInv, RetryInv, Serves, Dues, RetryTypeOK
  <2> QED BY <2>1, <2>2, <2>3 DEF IntakeInv, TypeOK
<1> QED BY <1>1, IntakeInvariant, PTL

(* Two requests that run one rule never ingest one source at the same      *)
(* time: the INSERT of the claim lets only one of them through.            *)
THEOREM ClaimsAreExclusive == Spec => []OneIngestPerClaim
<1>1. IntakeInv => OneIngestPerClaim
  BY DEF IntakeInv, AgentInv
<1> QED BY <1>1, IntakeInvariant, PTL

(* A claim that stays "processing" was left by a failed write or a crash;  *)
(* any other has a run that will complete or release it.                   *)
THEOREM ClaimsHaveRuns == Spec => []ClaimsAreWorkedOn
<1>1. IntakeInv => ClaimsAreWorkedOn
  BY DEF IntakeInv, AgentInv
<1> QED BY <1>1, IntakeInvariant, PTL

(* enqueue_retry marks a row dead when it counts its last attempt, however *)
(* stale the count it read, and inserts only rows with attempts left.      *)
THEOREM RetriesAreBounded == Spec => []LiveRowsMayBeRetried
<1>1. IntakeInv => LiveRowsMayBeRetried
  BY DEF IntakeInv
<1> QED BY <1>1, IntakeInvariant, PTL

(* The counters _run_import writes with its final status add up to the     *)
(* items of the import, but for those an exception made it count twice.    *)
THEOREM FinishedImportsAddUp == Spec => []FinishedTotalsAddUp
<1>1. IntakeInv => FinishedTotalsAddUp
  BY DEF IntakeInv, ImportInv
<1> QED BY <1>1, IntakeInvariant, PTL

(* As long as nothing fails, an import or a capture that no thread works   *)
(* on any more shows an end, and so do the items of the import, however    *)
(* its threads and a cancel were interleaved.                              *)
THEOREM QuietIntakeSettled == Spec => []QuietIntakeIsSettled
<1>1. ASSUME IntakeInv PROVE QuietIntakeIsSettled
  <2>1. ASSUME NEW r \in Runs, faults = 0, cancel[r] = "no", run[r] \notin {"absent", "queued"},
               \A t \in ImportThreads : RunOf(t) # r
        PROVE  /\ run[r] \in Finals \cup {"cancelled"}
               /\ \A k \in DOMAIN items[r] : items[r][k] \notin {"queued", "processing"}
    <3>1. /\ run[r] \in RunStates /\ DOMAIN items[r] = 1..Len(ItemsOf[r])
          /\ run[r] = "running" => Walked(r)
          /\ \A k \in 1..Len(ItemsOf[r]) : QuietItem(r, k)
      BY <1>1, <2>1 DEF IntakeInv, ImportInv, ItemsTyped, QuietImports
    <3>2. run[r] \in Finals \cup {"cancelled"}
      BY <2>1, <3>1 DEF Walked, RunStates
    <3>3. \A k \in 1..Len(ItemsOf[r]) : items[r][k] \notin {"queued", "processing"}
      BY <2>1, <3>1 DEF QuietItem, Ahead, On
    <3> QED BY <3>1, <3>2, <3>3
  <2>2. ASSUME NEW c \in Captures, faults = 0, RunsFor(c) = {}, capture[c] # "absent"
        PROVE  capture[c] \in Settled
    BY <1>1, <2>2 DEF IntakeInv, CaptureInv, WorkedOn, RunsFor
  <2> QED BY <2>1, <2>2 DEF QuietIntakeIsSettled
<1> QED BY <1>1, IntakeInvariant, PTL

(* Only a start, or a thread past its last look at the status, makes a     *)
(* cancelled import show something else; a cancel is never undone by the   *)
(* threads that have yet to look.                                          *)
THEOREM CancelsHoldOutsideWindows == Spec => CancelLostOnlyInWindows
<1> DEFINE Lost == \A r \in Runs : run[r] = "cancelled" /\ run'[r] # "cancelled" =>
               \E t \in ImportThreads : RunOf(t) = r /\ ithread[t].at \in {"start", "finish"}
<1>1. ASSUME IntakeInv, [Next]_vars PROVE [Lost]_vars
  <2>0. run \in [Runs -> RunStates]
    BY <1>1 DEF IntakeInv, ImportInv
  <2>1. ASSUME UNCHANGED run PROVE Lost
    BY <2>1
  <2>2. ASSUME NEW t \in ImportThreads, SetRunning(t) \/ FinishRun(t) PROVE Lost
    <3>1. PICK s : /\ run' = [run EXCEPT ![RunOf(t)] = s]
                   /\ ithread[t].at \in {"start", "finish"}
      BY <2>2 DEF SetRunning, FinishRun, EndRun, At
    <3> QED BY <2>0, <3>1
  <2>3. ASSUME NEW r \in Runs, run' = [run EXCEPT ![r] = "cancelled"] PROVE Lost
    BY <2>0, <2>3
  <2>4. ASSUME NEW r \in Runs, CreateImport(r) PROVE Lost
    BY <2>0, <2>4 DEF CreateImport
  <2>5. CASE ImportPart
    <3>1. CASE ImportRequest
      BY <2>1, <2>3, <2>4, <3>1
         DEF ImportRequest, StartImport, CancelReads, CancelStep, CancelWrites, CancelItems
    <3>2. ASSUME NEW t \in ImportThreads, StopCancelled(t) PROVE Lost
      <4>1. RunOf(t) \in Runs /\ run' = [run EXCEPT ![RunOf(t)] = "cancelled"]
        BY <1>1, <3>2, ImportThreadIs DEF StopCancelled, EndRun, At, IntakeInv
      <4> QED BY <2>3, <4>1
    <3>3. ASSUME NEW t \in ImportThreads, ImportThreadStep(t) \/ ImportFault(t) PROVE Lost
      BY <2>1, <2>2, <3>2, <3>3
         DEF ImportThreadStep, CheckCancelled, LookUpDuplicate, MarkProcessing, CallIngest,
             IngestAnswers, RegisterUrl, SettleItem, ImportFault, ItemRaises, ImportThreadDies,
             importVars
    <3> QED BY <2>5, <3>1, <3>3 DEF ImportPart
  <2>6. CASE CapturePart \/ AgentPart \/ RetryPart \/ CallPart \/ Crash
    BY <2>1, <2>6 DEF CapturePart, AgentPart, RetryPart, CallPart, Crash, importVars
  <2>7. CASE UNCHANGED vars
    BY <2>7
  <2> QED BY <1>1, <2>5, <2>6, <2>7 DEF Next
<1>2. Spec => [][Lost]_vars
  BY <1>1, IntakeInvariant, PTL DEF Spec
<1> QED BY <1>2 DEF CancelLostOnlyInWindows

=============================================================================
