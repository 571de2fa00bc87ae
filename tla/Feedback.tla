-------------------------------- MODULE Feedback --------------------------------
(***************************************************************************)
(* Feedback on the answers: once for each, rewarded up to a daily cap, and *)
(* counted into the learned length of answers if it says something about   *)
(* the length.  SQLite reads first and then does all the rest under its    *)
(* write lock; Postgres holds the row locks it takes statement by          *)
(* statement.                                                              *)
(***************************************************************************)
EXTENDS ModelRouting

CONSTANTS Quick, Survey, DailyCap     \* credits
ASSUME CreditsAssumption == Quick \in Nat /\ Survey \in Nat /\ DailyCap \in Nat /\ Quick <= Survey

VARIABLES
    given,      \* answers with feedback
    credits,    \* credits granted today
    samples,    \* sample_count of the learned length; 0: no row
    lengths,    \* feedback about the length there was (history)
    submit      \* the submission of a thread
feedbackVars == <<given, credits, samples, lengths, submit>>

FeedbackInit ==
    /\ given = {} /\ credits = 0 /\ samples = 0 /\ lengths = 0
    /\ submit = [t \in Threads |-> Rest]

(* What would be granted to a request.                                     *)
LeastOf(a, b) == IF a < b THEN a ELSE b
(* Mutant of Reward: what was granted too much is taken back.              *)
RewardOrFine(asked, sum) == LeastOf(asked, DailyCap - sum)
Reward(asked, sum) == LeastOf(asked, IF sum < DailyCap THEN DailyCap - sum ELSE 0)

(* A submission at its next step.                                          *)
Now(step, s, seen, grant) ==
    [at |-> step, answer |-> s.answer, asked |-> s.asked, length |-> s.length,
     seen |-> seen, grant |-> grant]
Others(t) == {submit[u] : u \in Threads \ {t}}
HoldsAnswer(s) == ~local /\ s.at # "rest"
HoldsLength(s) ==
    s.at \in {"upsert", "sum", "commit"} /\ s.length /\ (s.at = "upsert" => s.seen > 0)

-----------------------------------------------------------------------------
(* The answer is looked up, in Postgres locked, and a second feedback on   *)
(* it is refused.                                                          *)
Submit(t) ==
    \E a \in 1..answered, asked \in {Quick, Survey}, length \in BOOLEAN :
       /\ submit[t] = Rest
       /\ \A s \in Others(t) : HoldsAnswer(s) => s.answer # a
       /\ a \notin given
       /\ submit' = [submit EXCEPT ![t] =
             [at |-> "write", answer |-> a, asked |-> asked, length |-> length, seen |-> 0, grant |-> 0]]
       /\ UNCHANGED <<given, credits, samples, lengths>>

Learnt(s, seen) ==
    /\ samples' = IF s.length THEN seen + 1 ELSE samples
    /\ lengths' = IF s.length THEN lengths + 1 ELSE lengths

(* SQLite: the insertion fails if there is feedback by now.                *)
Unrated(a) == a \notin given
WriteLocally(t) ==
    LET s == submit[t] IN
    /\ local /\ s.at = "write"
    /\ IF Unrated(s.answer)
       THEN /\ given' = given \cup {s.answer}
            /\ Learnt(s, samples)
            /\ credits' = credits + Reward(s.asked, credits)
       ELSE UNCHANGED <<given, credits, samples, lengths>>
    /\ submit' = [submit EXCEPT ![t] = Rest]

(* Postgres: the learned length is locked if there is one,                 *)
ReadLength(t) ==
    /\ ~local /\ submit[t].at = "write"
    /\ submit[t].length /\ samples > 0 => ~\E s \in Others(t) : HoldsLength(s)
    /\ submit' = [submit EXCEPT ![t] = Now("upsert", @, samples, 0)]
    /\ UNCHANGED <<given, credits, samples, lengths>>
(* written, which waits for another one who inserts it,                    *)
UpsertLength(t) ==
    /\ submit[t].at = "upsert"
    /\ submit[t].length => ~\E s \in Others(t) : HoldsLength(s)
    /\ submit' = [submit EXCEPT ![t] = Now("sum", @, @.seen, 0)]
    /\ UNCHANGED <<given, credits, samples, lengths>>
(* the credits of the day are added up,                                    *)
SumCredits(t) ==
    /\ submit[t].at = "sum"
    /\ submit' = [submit EXCEPT ![t] = Now("commit", @, @.seen, Reward(@.asked, credits))]
    /\ UNCHANGED <<given, credits, samples, lengths>>
(* and the reward is entered.                                              *)
CommitFeedback(t) ==
    LET s == submit[t] IN
    /\ s.at = "commit"
    /\ given' = given \cup {s.answer}
    /\ Learnt(s, s.seen)
    /\ credits' = credits + s.grant
    /\ submit' = [submit EXCEPT ![t] = Rest]

FeedbackStep(t) ==
    WriteLocally(t) \/ ReadLength(t) \/ UpsertLength(t) \/ SumCredits(t) \/ CommitFeedback(t)
=============================================================================
