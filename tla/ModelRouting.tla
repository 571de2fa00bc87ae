------------------------------ MODULE ModelRouting ------------------------------
(***************************************************************************)
(* A question to the models.  The router picks the configured routes whose *)
(* budget of the day is not used up and that are not cooling down, calls   *)
(* them in order of preference until one answers, and enters the call into *)
(* the ledger; the adaptive router around it records the interaction.      *)
(***************************************************************************)
EXTENDS Requests, Sequences

CONSTANTS
    Preference,     \* the routes, the best one first
    Budget,         \* how many requests a day each may serve
    MaxCalls,       \* max_provider_calls of a request
    Earlier         \* bound: how many interactions there may have been before
ASSUME BudgetAssumption == \A n \in 1..Len(Preference) : Budget[Preference[n]] \in Nat \ {0}

Routes == {Preference[n] : n \in 1..Len(Preference)}
ASSUME PreferenceAssumption ==
    Preference \in Seq(Routes) \ {<<>>} /\ MaxCalls \in Nat \ {0} /\ Earlier \in Nat

VARIABLES
    used,           \* today's entries of the ledger, by route
    cooling,        \* routes that rest, known to this process only
    answered,       \* number of recorded interactions
    route           \* the request of a thread
routeVars == <<used, cooling, answered, route>>

RoutingInit ==
    /\ used = [r \in Routes |-> 0] /\ cooling = {} /\ answered \in {0, Earlier}
    /\ route = [t \in Threads |-> Rest]

(* A request for any model, or pinned to one.                              *)
Ask(t) ==
    \E pin \in {"any"} \cup Routes :
       /\ route[t] = Rest
       /\ route' = [route EXCEPT ![t] =
             [at |-> "choose", pin |-> pin, left |-> IF pin = "any" THEN Preference ELSE <<pin>>,
              chosen |-> <<>>]]
       /\ UNCHANGED <<used, cooling, answered>>

(* Mutant of QuotaAvailable: one more than the budget.                     *)
QuotaUpToBudget(r) == used[r] <= Budget[r]
QuotaAvailable(r) == used[r] < Budget[r]

(* The routes are looked at one after the other.  Who pins a route gets no *)
(* other one, and also one that cools down.                                *)
Consider(t) ==
    LET q == route[t]
        r == Head(q.left)
        fits == QuotaAvailable(r) /\ (q.pin = "any" => r \notin cooling)
        chosen == IF fits THEN Append(q.chosen, r) ELSE q.chosen
    IN
    /\ q.at = "choose"
    /\ route' = [route EXCEPT ![t] =
          IF Len(q.left) > 1 THEN [at |-> "choose", pin |-> q.pin,
                                     left |-> Tail(q.left), chosen |-> chosen]
          ELSE IF chosen = <<>> THEN Rest
          ELSE [at |-> "call", pin |-> q.pin,
                left |-> SubSeq(chosen, 1, IF Len(chosen) < MaxCalls THEN Len(chosen) ELSE MaxCalls)]]
    /\ UNCHANGED <<used, cooling, answered>>

Answers(t) ==
    /\ route[t].at = "call"
    /\ route' = [route EXCEPT ![t] = [at |-> "record", by |-> Head(@.left)]]
    /\ UNCHANGED <<used, cooling, answered>>

(* A provider that is over its limit or broken rests for a while.          *)
CallFails(t) ==
    LET q == route[t] IN
    /\ q.at = "call"
    /\ cooling' \in {cooling, cooling \cup {Head(q.left)}}
    /\ route' = [route EXCEPT ![t] =
          IF q.pin # "any" \/ Len(q.left) = 1 THEN Rest
          ELSE [at |-> "call", pin |-> q.pin, left |-> Tail(q.left)]]
    /\ UNCHANGED <<used, answered>>

(* The time for the request is up before the next call.                    *)
DeadlineReached(t) ==
    /\ route[t].at = "call"
    /\ route' = [route EXCEPT ![t] = Rest]
    /\ UNCHANGED <<used, cooling, answered>>

Record(t) ==
    /\ route[t].at = "record"
    /\ used' = [used EXCEPT ![route[t].by] = @ + 1]
    /\ route' = [route EXCEPT ![t] = [at |-> "interaction"]]
    /\ UNCHANGED <<cooling, answered>>

RecordInteraction(t) ==
    /\ route[t].at = "interaction"
    /\ answered' = answered + 1
    /\ route' = [route EXCEPT ![t] = Rest]
    /\ UNCHANGED <<used, cooling>>

CooledDown ==
    \E r \in cooling : cooling' = cooling \ {r} /\ UNCHANGED <<used, answered, route>>

RouteStep(t) ==
    Consider(t) \/ Answers(t) \/ CallFails(t) \/ DeadlineReached(t) \/ Record(t) \/ RecordInteraction(t)
=============================================================================
