----------------------------- MODULE IngestAgent -----------------------------
(***************************************************************************)
(* The ingest agent (app/services/ingest_agent.py): rules a user approves, *)
(* and runs of a rule over candidate URLs.  A run claims each URL for the  *)
(* rule in ingest_agent_claims (INSERT OR IGNORE, in Postgres ON CONFLICT  *)
(* DO NOTHING, on the primary key), ingests it and completes the claim, or *)
(* releases it when the ingest raises.                                     *)
(***************************************************************************)
EXTENDS IngestCalls

CONSTANTS
    Rules,
    Candidates,  \* the URLs given to a run of a rule that match the rule
    Refreshing,  \* rules with force_refresh
    RunThreads   \* requests running a rule at once

ASSUME CandidatesAssumption == Candidates \in [Rules -> Seq(Urls)]
ASSUME RunThreadsAssumption == RunThreads \subseteq Callers

VARIABLES
    rule,     \* "absent", or approved and enabled of ingest_agent_rules
    claim,    \* ingest_agent_claims.status by rule and canonical URL
    rthread,  \* program counter, rule and candidate of a run
    lost      \* history: claims whose run ended without settling them

agentVars == <<rule, claim, rthread, lost>>

NotRunning == [at |-> "idle", rule |-> None, k |-> 0]

AgentTypeOK ==
    /\ rule \in [Rules -> {"absent", "proposed", "enabled", "disabled", "unapproved"}]
    /\ claim \in [Rules \X Urls -> {"none", "processing", "completed"}]
    /\ rthread \in [RunThreads -> [at : {"idle", "claim", "call", "complete", "release"},
                                   rule : Rules \cup {None}, k : Nat]]
    /\ lost \subseteq Rules \X Urls

AgentInit ==
    /\ rule = [r \in Rules |-> "absent"]
    /\ claim = [x \in Rules \X Urls |-> "none"]
    /\ rthread = [t \in RunThreads |-> NotRunning]
    /\ lost = {}

Candidate(t) == Candidates[rthread[t].rule][rthread[t].k]
Claimed(t)   == <<rthread[t].rule, Canon[Candidate(t)]>>
Proceed(t, pc) == rthread' = [rthread EXCEPT ![t].at = pc]

(* On to the next candidate, or to the end of the run.                     *)
NextCandidate(t) ==
    rthread' = [rthread EXCEPT ![t] =
                  IF @.k = Len(Candidates[@.rule]) THEN NotRunning
                  ELSE [at |-> "claim", rule |-> @.rule, k |-> @.k + 1]]

-----------------------------------------------------------------------------
CreateRule(r) ==
    /\ rule[r] = "absent"
    /\ rule' = [rule EXCEPT ![r] = "proposed"]
    /\ UNCHANGED <<claim, rthread, lost, callVars>>

(* approve_rule also enables a rule again.                                 *)
ApproveRule(r) ==
    /\ rule[r] # "absent"
    /\ rule' = [rule EXCEPT ![r] = "enabled"]
    /\ UNCHANGED <<claim, rthread, lost, callVars>>

(* disable_rule leaves approved as it is.                                  *)
DisableRule(r) ==
    /\ rule[r] # "absent"
    /\ rule' = [rule EXCEPT ![r] = IF @ \in {"proposed", "unapproved"}
                                   THEN "unapproved" ELSE "disabled"]
    /\ UNCHANGED <<claim, rthread, lost, callVars>>

(* run_rule reads the rule once, at the start.                             *)
RunRule(r, t) ==
    /\ rule[r] = "enabled" /\ rthread[t] = NotRunning
    /\ Candidates[r] # <<>>
    /\ rthread' = [rthread EXCEPT ![t] = [at |-> "claim", rule |-> r, k |-> 1]]
    /\ UNCHANGED <<rule, claim, lost, callVars>>

(* Mutant of ClaimUrl: a claim that is only in progress does not count.    *)
ClaimUnlessCompleted(t) ==
    /\ rthread[t].at = "claim"
    /\ IF claim[Claimed(t)] # "completed"
       THEN claim' = [claim EXCEPT ![Claimed(t)] = "processing"] /\ Proceed(t, "call")
       ELSE NextCandidate(t) /\ UNCHANGED claim
    /\ UNCHANGED <<rule, lost, callVars>>

ClaimUrl(t) ==
    /\ rthread[t].at = "claim"
    /\ IF claim[Claimed(t)] = "none"
       THEN claim' = [claim EXCEPT ![Claimed(t)] = "processing"] /\ Proceed(t, "call")
       ELSE NextCandidate(t) /\ UNCHANGED claim
    /\ UNCHANGED <<rule, lost, callVars>>

CallForRule(t) ==
    /\ rthread[t].at = "call"
    /\ BeginCall(t, Canon[Candidate(t)], rthread[t].rule \in Refreshing)
    /\ UNCHANGED <<agentVars, stored, urlIndex, queue, faults>>

(* Mutant of CallRaises: the claim is not released.                        *)
CallRaisesUnreleased(t) ==
    /\ rthread[t].at = "call" /\ calls[t].at = "none" /\ Fault
    /\ NextCandidate(t)
    /\ UNCHANGED <<rule, claim, lost, stored, urlIndex, queue, calls>>

(* Creating the ingest service raises; ingest_single_url itself does not.  *)
CallRaises(t) ==
    /\ rthread[t].at = "call" /\ calls[t].at = "none" /\ Fault
    /\ Proceed(t, "release")
    /\ UNCHANGED <<rule, claim, lost, stored, urlIndex, queue, calls>>

(* The result, a failure included, is not looked at.                       *)
RuleCallReturns(t) ==
    /\ rthread[t].at = "call" /\ calls[t].at = "done"
    /\ TakeAnswer(t)
    /\ Proceed(t, "complete")
    /\ UNCHANGED <<rule, claim, lost, stored, urlIndex, queue, faults>>

CompleteClaim(t) ==
    /\ rthread[t].at = "complete"
    /\ claim' = [claim EXCEPT ![Claimed(t)] = "completed"]
    /\ NextCandidate(t)
    /\ UNCHANGED <<rule, lost, callVars>>

ReleaseClaim(t) ==
    /\ rthread[t].at = "release"
    /\ claim' = [claim EXCEPT ![Claimed(t)] = "none"]
    /\ NextCandidate(t)
    /\ UNCHANGED <<rule, lost, callVars>>

(* _complete_claim or _release_claim raises: the request ends with an      *)
(* error and the claim stays.                                              *)
ClaimIsLeft(t) ==
    /\ rthread[t].at \in {"complete", "release"} /\ Fault
    /\ lost' = lost \cup {Claimed(t)}
    /\ rthread' = [rthread EXCEPT ![t] = NotRunning]
    /\ UNCHANGED <<rule, claim, stored, urlIndex, queue, calls>>

RunThreadStep(t) ==
    \/ ClaimUrl(t)
    \/ CallForRule(t)
    \/ RuleCallReturns(t)
    \/ CompleteClaim(t)
    \/ ReleaseClaim(t)

RunFault(t) == CallRaises(t) \/ ClaimIsLeft(t)
=============================================================================
