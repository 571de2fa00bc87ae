------------------------------ MODULE PlaneProofs ------------------------------
(***************************************************************************)
(* Proofs about what the plane of the tenants keeps: the agents' runs, the *)
(* neighbours' rows, the end of an erasure, the migrations' claims and the *)
(* types of the rows; for any number of threads, writes, migrations and    *)
(* failures.                                                               *)
(***************************************************************************)
EXTENDS TenantProofs

(* What the steps of the plane keep, the rows of the agents' runs aside.   *)
IsRequest(q) == q = [at |-> q.at, run |-> q.run, call |-> q.call]
ServingInv ==
    /\ DOMAIN agent = Threads
    /\ \A t \in Threads : IsRequest(agent[t]) /\ (agent[t] # NoRequest => Agents)
PlaneInv ==
    /\ FenceInv /\ RowsInv /\ StepInv /\ FiniteInv /\ ErasingInv /\ ServingInv
    /\ fenced \in BOOLEAN

(* A step of one request leaves the others alone.                          *)
LEMMA OneRequest ==
    ASSUME ServingInv, NEW t \in Threads, NEW q, agent' = [agent EXCEPT ![t] = q]
    PROVE  DOMAIN agent' = Threads /\ agent'[t] = q /\ \A u \in Threads \ {t} : agent'[u] = agent[u]
BY DEF ServingInv

(* A request that moves keeps its run.                                     *)
LEMMA RequestIs ==
    ASSUME ServingInv, NEW t \in Threads, NEW at, NEW call
    PROVE  /\ [agent[t] EXCEPT !.at = at] = [at |-> at, run |-> agent[t].run, call |-> agent[t].call]
           /\ [agent[t] EXCEPT !.at = at, !.call = call] = [at |-> at, run |-> agent[t].run,
                  call |-> call]
<1>1. IsRequest(agent[t])
  BY DEF ServingInv
<1> DEFINE q == agent[t]
<1> HIDE DEF q
<1>2. [q EXCEPT !.at = at] = [at |-> at, run |-> q.run, call |-> q.call]
  BY <1>1 DEF IsRequest, q
<1>3. [q EXCEPT !.at = at, !.call = call] = [at |-> at, run |-> q.run, call |-> call]
  <2>1. [q EXCEPT !.at = at, !.call = call] = [[q EXCEPT !.at = at] EXCEPT !.call = call]
    OBVIOUS
  <2> DEFINE p == [at |-> at, run |-> q.run, call |-> q.call]
  <2>2. [p EXCEPT !.call = call] = [at |-> at, run |-> q.run, call |-> call]
    OBVIOUS
  <2> QED BY <1>2, <2>1, <2>2
<1> QED BY <1>2, <1>3 DEF q

(* How a request moves.                                                    *)
LEMMA RequestsMove ==
    ASSUME ServingInv, NEW t \in Threads
    PROVE  /\ Run(t) => \/ agent' = agent
                        \/ agent' = [agent EXCEPT ![t] = [at |-> "call", run |-> NewId, call |-> 0]]
           /\ Approve(t) => \E r \in Runs : agent' = [agent EXCEPT ![t] = [at |-> "approve",
                  run |-> r.id, call |-> 0]]
           /\ SetRunning(t) =>
                 agent' = [agent EXCEPT ![t] = [at |-> "call", run |-> agent[t].run,
                     call |-> agent[t].call]]
           /\ CreateToolCall(t) => agent' = [agent EXCEPT ![t] =
                 [at |-> "tool", run |-> agent[t].run, call |-> 200 + Cardinality(Calls)]]
           /\ InvokeTool(t) => \E outcome \in {"completed", "failed"} : agent' = [agent EXCEPT ![t] =
                 [at |-> outcome, run |-> agent[t].run, call |-> agent[t].call]]
           /\ Mark(t) \/ Ends(t) => agent' = [agent EXCEPT ![t] = NoRequest]
<1>1. Run(t) => \/ agent' = agent
                \/ agent' = [agent EXCEPT ![t] = [at |-> "call", run |-> NewId, call |-> 0]]
  BY DEF Run
<1>2. Approve(t) => \E r \in Runs : agent' = [agent EXCEPT ![t] = [at |-> "approve", run |-> r.id,
          call |-> 0]]
  BY DEF Approve
<1>3. \A at : Moves(t, at) =>
         agent' = [agent EXCEPT ![t] = [at |-> at, run |-> agent[t].run, call |-> agent[t].call]]
  BY RequestIs DEF Moves
<1>4. SetRunning(t) => Moves(t, "call")
  BY DEF SetRunning
<1>5. InvokeTool(t) => \E outcome \in {"completed", "failed"} : Moves(t, outcome)
  BY DEF InvokeTool
<1>6. CreateToolCall(t) => agent' = [agent EXCEPT ![t] =
         [at |-> "tool", run |-> agent[t].run, call |-> 200 + Cardinality(Calls)]]
  <2> DEFINE id == 200 + Cardinality(Calls)
  <2>1. CreateToolCall(t) => agent' = [agent EXCEPT ![t].at = "tool", ![t].call = id]
    BY DEF CreateToolCall
  <2> HIDE DEF id
  <2>2. [agent EXCEPT ![t].at = "tool", ![t].call = id] =
        [agent EXCEPT ![t] = [agent[t] EXCEPT !.at = "tool", !.call = id]]
    BY DEF ServingInv
  <2>3. [agent[t] EXCEPT !.at = "tool", !.call = id] = [at |-> "tool", run |-> agent[t].run, call |-> id]
    BY RequestIs
  <2> QED BY <2>1, <2>2, <2>3 DEF id
<1>7. Mark(t) \/ Ends(t) => agent' = [agent EXCEPT ![t] = NoRequest]
  BY DEF Mark, Ends
<1> QED BY <1>1, <1>2, <1>3, <1>4, <1>5, <1>6, <1>7

(* The steps of the requests keep ServingInv, each moving its own.         *)
LEMMA ServingStep ==
    ASSUME ServingInv, NEW t \in Threads, AgentStep(t) \/ (Ends(t) /\ UNCHANGED store)
    PROVE  ServingInv' /\ store' = store /\ \A u \in Threads \ {t} : agent'[u] = agent[u]
<1>1. store' = store
  BY
     DEF AgentStep, Run, Approve, SetRunning, CreateToolCall, InvokeTool, Mark, Refused, Ends,
         Stored, tableVars
<1>2. Ends(t) \/ Run(t) \/ Approve(t) \/ SetRunning(t) \/ CreateToolCall(t) \/ InvokeTool(t) \/ Mark(t)
  BY DEF AgentStep, Refused
<1>3. agent' = agent \/ \E q : agent' = [agent EXCEPT ![t] = q] /\ IsRequest(q) /\ (q # NoRequest
          => Agents)
  <2>1. agent[t].at # "idle" => Agents
    BY DEF ServingInv, NoRequest
  <2>2. CASE Ends(t) \/ Mark(t)
    <3>1. IsRequest(NoRequest)
      BY DEF NoRequest, IsRequest
    <3> QED BY <2>2, <3>1, RequestsMove
  <2>3. CASE Run(t)
    <3>1. Agents /\ IsRequest([at |-> "call", run |-> NewId, call |-> 0])
      BY <2>3 DEF IsRequest, Run
    <3> QED BY <2>3, <3>1, RequestsMove
  <2>4. CASE Approve(t)
    <3>1. PICK r \in Runs : agent' = [agent EXCEPT ![t] = [at |-> "approve", run |-> r.id, call |-> 0]]
      BY <2>4, RequestsMove
    <3>2. Agents /\ IsRequest([at |-> "approve", run |-> r.id, call |-> 0])
      BY <2>4 DEF IsRequest, Approve
    <3> QED BY <3>1, <3>2
  <2>5. CASE SetRunning(t) \/ CreateToolCall(t) \/ InvokeTool(t)
    <3>1. agent[t].at # "idle"
      BY <2>5 DEF SetRunning, CreateToolCall, InvokeTool
    <3>2. PICK at, call : agent' = [agent EXCEPT ![t] = [at |-> at, run |-> agent[t].run, call |-> call]]
      BY <2>5, RequestsMove
    <3>3. IsRequest([at |-> at, run |-> agent[t].run, call |-> call])
      BY DEF IsRequest
    <3> QED BY <2>1, <3>1, <3>2, <3>3
  <2> QED BY <1>2, <2>2, <2>3, <2>4, <2>5
<1>4. CASE agent' = agent
  BY <1>1, <1>4 DEF ServingInv, Agents, kind
<1>5. CASE agent' # agent
  <2>1. PICK q : agent' = [agent EXCEPT ![t] = q] /\ IsRequest(q) /\ (q # NoRequest => Agents)
    BY <1>3, <1>5
  <2>2. DOMAIN agent' = Threads /\ agent'[t] = q /\ \A u \in Threads \ {t} : agent'[u] = agent[u]
    BY <2>1, OneRequest
  <2>3. \A u \in Threads : IsRequest(agent'[u]) /\ (agent'[u] # NoRequest => Agents)
    BY <2>1, <2>2 DEF ServingInv
  <2> QED BY <1>1, <2>2, <2>3 DEF ServingInv, Agents, kind
<1> QED BY <1>4, <1>5

-----------------------------------------------------------------------------
(* The runs R and their calls C, the requests A that serve them, the runs  *)
(* served twice, the next id n of a run, and what has happened so far:     *)
(* runs and calls are told apart by their ids, and no call is of a run to  *)
(* come or of one that waits for its approval;                             *)
RunsOk(R, C, n) ==
    /\ \A r \in R : IsRow(r) /\ r.id \in Nat /\ r.id < n
    /\ \A r, s \in R : r.id = s.id => r = s
    /\ \A r \in R : r.body = "awaiting_approval" => \A c \in C : r.id \notin c.ref
CallsOk(C, n, twice, ended) ==
    /\ IsFiniteSet(C)
    /\ \A c \in C : IsRow(c) /\ c.id \in Nat /\ (~ended => c.id < 200 + Cardinality(C))
    /\ \A c \in C : \A i \in c.ref : i \in Nat /\ i < n
    /\ \A c, d \in C : c.id = d.id => c = d
    /\ \A c, d \in C : \A i \in c.ref \cap d.ref : i \notin twice => c = d

(* a run served once has no call before its tool is called, is approved    *)
(* by then, and has its call afterwards;                                   *)
Serving(A, t) == A[t].at # "idle"
RequestsOk(R, C, A, twice, n, ended) ==
    /\ \A t \in Threads : Serving(A, t) => A[t].run \in Nat /\ A[t].run < n
    /\ \A t, u \in Threads :
          Serving(A, t) /\ Serving(A, u) /\ A[t].run = A[u].run /\ A[t].run \notin twice => t = u
    /\ \A t \in Threads : A[t].at \in {"approve", "call"} /\ A[t].run \notin twice =>
          \A c \in C : A[t].run \notin c.ref
    /\ \A t \in Threads : Serving(A, t) /\ A[t].at # "approve" =>
          \A r \in R : r.id = A[t].run => r.body # "awaiting_approval"
    /\ \A t \in Threads : ~ended /\ A[t].at \in {"tool", "completed", "failed"} =>
          \E c \in C : c.id = A[t].call /\ c.ref = {A[t].run}

(* and the leaver's runs tell the truth.                                   *)
TruthOk(R, C, A, twice, ended, failed) ==
    /\ \A r \in R : r.owner = Leaver /\ r.body \in {"completed", "failed"} =>
          r.id \in twice \/ \E c \in C : c.ref = {r.id} /\ c.body = r.body
    /\ \A r \in R : r.owner = Leaver /\ r.body = "running" =>
          failed \/ ended \/ \E t \in Threads : Serving(A, t) /\ A[t].run = r.id

AgentsOk(R, C, A, twice, n, ended, failed) ==
    /\ RunsOk(R, C, n) /\ CallsOk(C, n, twice, ended)
    /\ RequestsOk(R, C, A, twice, n, ended) /\ TruthOk(R, C, A, twice, ended, failed)

AgentsInv ==
    Agents => NewId \in Nat /\ AgentsOk(Runs, Calls, agent, doubled, NewId, fenced, faults > 0)

(* The rows S, with the status of those with that id set.                  *)
WithStatusOf(S, id, status) ==
    {x \in S : x.id # id} \cup WithStatus({x \in S : x.id = id}, status)

(* A row whose status is set is the same otherwise;                        *)
LEMMA StatusCopies ==
    ASSUME NEW x, IsRow(x), NEW status
    PROVE  LET q == [x EXCEPT !.body = status]
           IN  IsRow(q) /\ q.tab = x.tab /\ q.owner = x.owner /\ q.id = x.id /\ q.ref = x.ref /\
               q.body = status
BY DEF IsRow

(* rows keep their ids when the status of one is set.                      *)
LEMMA StatusKeeps ==
    ASSUME NEW S, \A x \in S : IsRow(x), NEW id, NEW status
    PROVE  /\ \A q \in WithStatusOf(S, id, status) :
                 /\ IsRow(q)
                 /\ \E x \in S : /\ q.id = x.id /\ q.ref = x.ref /\ q.owner = x.owner
                                 /\ q.body = IF x.id = id THEN status ELSE x.body
           /\ \A x \in S : \E q \in WithStatusOf(S, id, status) :
                 /\ q.id = x.id /\ q.ref = x.ref /\ q.owner = x.owner
                 /\ q.body = IF x.id = id THEN status ELSE x.body
           /\ (\A x, y \in S : x.id = y.id => x = y) =>
                 \A p, q \in WithStatusOf(S, id, status) : p.id = q.id => p = q
<1> DEFINE Copy(x) == [x EXCEPT !.body = status]
<1>1. WithStatusOf(S, id, status) = {x \in S : x.id # id} \cup {Copy(x) : x \in {y \in S : y.id = id}}
  BY DEF WithStatusOf, WithStatus
<1>2. \A x \in S : /\ IsRow(Copy(x)) /\ Copy(x).owner = x.owner /\ Copy(x).id = x.id
                   /\ Copy(x).ref = x.ref /\ Copy(x).body = status
  BY StatusCopies
<1> HIDE DEF Copy
<1>3. \A q \in WithStatusOf(S, id, status) :
         /\ IsRow(q)
         /\ \E x \in S : /\ q.id = x.id /\ q.ref = x.ref /\ q.owner = x.owner
                         /\ q.body = IF x.id = id THEN status ELSE x.body
  BY <1>1, <1>2
<1>4. \A x \in S : \E q \in WithStatusOf(S, id, status) :
         /\ q.id = x.id /\ q.ref = x.ref /\ q.owner = x.owner
         /\ q.body = IF x.id = id THEN status ELSE x.body
  <2>1. SUFFICES ASSUME NEW x \in S
                 PROVE  \E q \in WithStatusOf(S, id, status) :
                           /\ q.id = x.id /\ q.ref = x.ref /\ q.owner = x.owner
                           /\ q.body = IF x.id = id THEN status ELSE x.body
    OBVIOUS
  <2>2. CASE x.id = id
    BY <1>1, <1>2, <2>2
  <2>3. CASE x.id # id
    BY <1>1, <2>3
  <2> QED BY <2>2, <2>3
<1>5. ASSUME \A x, y \in S : x.id = y.id => x = y,
             NEW p \in WithStatusOf(S, id, status), NEW q \in WithStatusOf(S, id, status), p.id = q.id
      PROVE  p = q
  <2>1. CASE p.id = id
    <3>1. p \in {Copy(x) : x \in {y \in S : y.id = id}} /\ q \in {Copy(x) : x \in {y \in S : y.id = id}}
      BY <1>1, <1>5, <2>1
    <3>2. PICK x \in S, y \in S : p = Copy(x) /\ q = Copy(y) /\ x.id = id /\ y.id = id
      BY <3>1
    <3> QED BY <1>5, <3>2
  <2>2. CASE p.id # id
    <3>1. p \in S /\ q \in S
      BY <1>1, <1>2, <1>5, <2>2
    <3> QED BY <1>5, <3>1
  <2> QED BY <2>1, <2>2
<1> QED BY <1>3, <1>4, <1>5

(* There are as many rows as before.                                       *)
LEMMA StatusCounts ==
    ASSUME NEW S, IsFiniteSet(S), \A x \in S : IsRow(x), \A x, y \in S : x.id = y.id => x = y,
           NEW id, NEW status
    PROVE  /\ IsFiniteSet(WithStatusOf(S, id, status))
           /\ Cardinality(WithStatusOf(S, id, status)) = Cardinality(S)
<1> DEFINE T == WithStatusOf(S, id, status)
           Copy(x) == IF x.id = id THEN [x EXCEPT !.body = status] ELSE x
           f == [x \in S |-> Copy(x)]
<1>1. \A x \in S : Copy(x).id = x.id
  BY StatusCopies
<1>2. T = {Copy(x) : x \in S}
  BY DEF WithStatusOf, WithStatus
<1> HIDE DEF T, Copy
<1>3. f \in Bijection(S, T)
  <2>1. f \in [S -> T]
    BY <1>2
  <2>2. \A a, b \in S : f[a] = f[b] => a = b
    BY <1>1
  <2>3. \A q \in T : \E x \in S : f[x] = q
    BY <1>2
  <2> HIDE DEF f
  <2>4. f \in Injection(S, T)
    BY <2>1, <2>2 DEF Injection, IsInjective
  <2>5. f \in Surjection(S, T)
    BY <2>1, <2>3 DEF Surjection
  <2> QED BY <2>4, <2>5 DEF Bijection
<1>4. ExistsBijection(S, T)
  BY <1>3 DEF ExistsBijection
<1> QED BY <1>4, FS_Bijection DEF T

(* What the steps of the request of t do to runs, calls and requests.      *)
Added(S, x) == S \cup {x}
Others(A, B, t) == \A u \in Threads \ {t} : B[u] = A[u]
NewRun(r, n, A, B, t) ==
    /\ IsRow(r) /\ r.id = n /\ Others(A, B, t)
    /\ \/ r.body = "awaiting_approval" /\ B[t] = A[t]
       \/ r.body = "running" /\ B[t].at = "call" /\ B[t].run = n
NewCall(c, C, A, B, t) ==
    /\ IsRow(c) /\ c.id = 200 + Cardinality(C) /\ c.ref = {A[t].run} /\ Others(A, B, t)
    /\ B[t].at = "tool" /\ B[t].run = A[t].run /\ B[t].call = c.id

(* A new run, served at once or waiting for its approval.                  *)
LEMMA RunOk ==
    ASSUME NEW R, NEW C, NEW A, NEW twice, NEW n \in Nat, NEW failed \in BOOLEAN,
           AgentsOk(R, C, A, twice, n, FALSE, failed), NEW t \in Threads, ~Serving(A, t),
           NEW r, NEW B, NewRun(r, n, A, B, t)
    PROVE  AgentsOk(Added(R, r), C, B, twice, n + 1, FALSE, failed)
<1> USE DEF Added, NewRun, Others
<1>1. \A c \in C : n \notin c.ref
  BY DEF AgentsOk, CallsOk
<1>2. RunsOk(R \cup {r}, C, n + 1)
  BY <1>1 DEF AgentsOk, RunsOk
<1>3. CallsOk(C, n + 1, twice, FALSE)
  BY DEF AgentsOk, CallsOk
<1>4. RequestsOk(R \cup {r}, C, B, twice, n + 1, FALSE)
  <2>1. \A u \in Threads : Serving(A, u) => A[u].run \in Nat /\ A[u].run < n
    BY DEF AgentsOk, RequestsOk
  <2>2. \A u \in Threads : Serving(B, u) =>
           \/ u # t /\ B[u] = A[u] /\ Serving(A, u) /\ A[u].run # n
           \/ u = t /\ B[u].run = n /\ r.body = "running" /\ B[u].at = "call"
    BY <2>1 DEF Serving
  <2>3. \A q \in R : q.id # n
    BY DEF AgentsOk, RunsOk
  <2>4. \A u \in Threads : Serving(B, u) => B[u].run \in Nat /\ B[u].run < n + 1
    BY <2>1, <2>2
  <2>5. \A u, v \in Threads :
           Serving(B, u) /\ Serving(B, v) /\ B[u].run = B[v].run /\ B[u].run \notin twice => u = v
    BY <2>2 DEF AgentsOk, RequestsOk
  <2>6. \A u \in Threads : B[u].at \in {"approve", "call"} /\ B[u].run \notin twice =>
           \A c \in C : B[u].run \notin c.ref
    BY <1>1, <2>2 DEF AgentsOk, RequestsOk, Serving
  <2>7. \A u \in Threads : Serving(B, u) /\ B[u].at # "approve" =>
           \A q \in R \cup {r} : q.id = B[u].run => q.body # "awaiting_approval"
    BY <2>2, <2>3 DEF AgentsOk, RequestsOk
  <2>8. \A u \in Threads : B[u].at \in {"tool", "completed", "failed"} =>
           \E c \in C : c.id = B[u].call /\ c.ref = {B[u].run}
    BY <2>2 DEF AgentsOk, RequestsOk, Serving
  <2> QED BY <2>4, <2>5, <2>6, <2>7, <2>8 DEF RequestsOk
<1>5. TruthOk(R \cup {r}, C, B, twice, FALSE, failed)
  <2>1. \A q \in R \cup {r} : q.owner = Leaver /\ q.body \in {"completed", "failed"} =>
           q.id \in twice \/ \E c \in C : c.ref = {q.id} /\ c.body = q.body
    BY DEF AgentsOk, TruthOk
  <2>2. ASSUME NEW q \in R, q.owner = Leaver, q.body = "running", ~failed
        PROVE  \E u \in Threads : Serving(B, u) /\ B[u].run = q.id
    <3>1. PICK u \in Threads : Serving(A, u) /\ A[u].run = q.id
      BY <2>2 DEF AgentsOk, TruthOk
    <3> QED BY <3>1 DEF Serving
  <2>3. r.body = "running" => Serving(B, t) /\ B[t].run = r.id
    BY DEF Serving
  <2> QED BY <2>1, <2>2, <2>3 DEF TruthOk
<1> QED BY <1>2, <1>3, <1>4, <1>5 DEF AgentsOk

(* A run that waits is taken up; twice, if it is served already.           *)
LEMMA ApproveOk ==
    ASSUME NEW R, NEW C, NEW A, NEW twice, NEW n \in Nat, NEW ended \in BOOLEAN, NEW failed \in BOOLEAN,
           AgentsOk(R, C, A, twice, n, ended, failed), NEW t \in Threads, ~Serving(A, t),
           NEW r \in R, r.body = "awaiting_approval", NEW B, \A u \in Threads \ {t} : B[u] = A[u],
           B[t].at = "approve", B[t].run = r.id,
           NEW more, twice \subseteq more,
           \A u \in Threads : Serving(A, u) /\ A[u].run = r.id => r.id \in more
    PROVE  AgentsOk(R, C, B, more, n + 1, ended, failed)
<1>1. RunsOk(R, C, n + 1)
  BY DEF AgentsOk, RunsOk
<1>2. CallsOk(C, n + 1, more, ended)
  BY DEF AgentsOk, CallsOk
<1>3. RequestsOk(R, C, B, more, n + 1, ended)
  <2>1. r.id \in Nat /\ r.id < n /\ \A c \in C : r.id \notin c.ref
    BY DEF AgentsOk, RunsOk
  <2>2. \A u \in Threads : u = t \/ B[u] = A[u]
    OBVIOUS
  <2>3. \A u \in Threads : Serving(B, u) => B[u].run \in Nat /\ B[u].run < n + 1
    BY <2>1, <2>2 DEF AgentsOk, RequestsOk, Serving
  <2>4. \A u, v \in Threads :
           Serving(B, u) /\ Serving(B, v) /\ B[u].run = B[v].run /\ B[u].run \notin more => u = v
    BY <2>2 DEF AgentsOk, RequestsOk, Serving
  <2>5. \A u \in Threads : B[u].at \in {"approve", "call"} /\ B[u].run \notin more =>
           \A c \in C : B[u].run \notin c.ref
    BY <2>1, <2>2 DEF AgentsOk, RequestsOk, Serving
  <2>6. \A u \in Threads : Serving(B, u) /\ B[u].at # "approve" =>
           \A q \in R : q.id = B[u].run => q.body # "awaiting_approval"
    BY <2>2 DEF AgentsOk, RequestsOk, Serving
  <2>7. \A u \in Threads : ~ended /\ B[u].at \in {"tool", "completed", "failed"} =>
           \E c \in C : c.id = B[u].call /\ c.ref = {B[u].run}
    BY <2>2 DEF AgentsOk, RequestsOk
  <2> QED BY <2>3, <2>4, <2>5, <2>6, <2>7 DEF RequestsOk
<1>4. TruthOk(R, C, B, more, ended, failed)
  <2>1. \A q \in R : q.owner = Leaver /\ q.body \in {"completed", "failed"} =>
           q.id \in more \/ \E c \in C : c.ref = {q.id} /\ c.body = q.body
    BY DEF AgentsOk, TruthOk
  <2>2. ASSUME NEW q \in R, q.owner = Leaver, q.body = "running", ~failed, ~ended
        PROVE  \E u \in Threads : Serving(B, u) /\ B[u].run = q.id
    <3>1. PICK u \in Threads : Serving(A, u) /\ A[u].run = q.id
      BY <2>2 DEF AgentsOk, TruthOk
    <3> QED BY <3>1 DEF Serving
  <2> QED BY <2>1, <2>2 DEF TruthOk
<1> QED BY <1>1, <1>2, <1>3, <1>4 DEF AgentsOk

(* An approved run runs.                                                   *)
LEMMA SetRunningOk ==
    ASSUME NEW R, NEW C, NEW A, NEW twice, NEW n \in Nat, NEW failed \in BOOLEAN,
           AgentsOk(R, C, A, twice, n, FALSE, failed), NEW t \in Threads, A[t].at = "approve",
           NEW B, \A u \in Threads \ {t} : B[u] = A[u], B[t].at = "call", B[t].run = A[t].run
    PROVE  AgentsOk(WithStatusOf(R, A[t].run, "running"), C, B, twice, n, FALSE, failed)
<1> DEFINE S == WithStatusOf(R, A[t].run, "running")
<1>1. /\ \A q \in S : /\ IsRow(q)
                      /\ \E x \in R : /\ q.id = x.id /\ q.ref = x.ref /\ q.owner = x.owner
                                      /\ q.body = IF x.id = A[t].run THEN "running" ELSE x.body
      /\ \A p, q \in S : p.id = q.id => p = q
  BY StatusKeeps DEF AgentsOk, RunsOk
<1> HIDE DEF S
<1>2. RunsOk(S, C, n)
  BY <1>1 DEF AgentsOk, RunsOk
<1>3. CallsOk(C, n, twice, FALSE)
  BY DEF AgentsOk
<1>4. RequestsOk(S, C, B, twice, n, FALSE)
  <2>1. \A u \in Threads : u = t \/ B[u] = A[u]
    OBVIOUS
  <2>2. \A u \in Threads : Serving(B, u) => B[u].run \in Nat /\ B[u].run < n
    BY <2>1 DEF AgentsOk, RequestsOk, Serving
  <2>3. \A u, v \in Threads :
           Serving(B, u) /\ Serving(B, v) /\ B[u].run = B[v].run /\ B[u].run \notin twice => u = v
    BY <2>1 DEF AgentsOk, RequestsOk, Serving
  <2>4. \A u \in Threads : B[u].at \in {"approve", "call"} /\ B[u].run \notin twice =>
           \A c \in C : B[u].run \notin c.ref
    BY <2>1 DEF AgentsOk, RequestsOk
  <2>5. \A u \in Threads : Serving(B, u) /\ B[u].at # "approve" =>
           \A q \in S : q.id = B[u].run => q.body # "awaiting_approval"
    BY <1>1, <2>1 DEF AgentsOk, RequestsOk, Serving
  <2>6. \A u \in Threads : B[u].at \in {"tool", "completed", "failed"} =>
           \E c \in C : c.id = B[u].call /\ c.ref = {B[u].run}
    BY <2>1 DEF AgentsOk, RequestsOk
  <2> QED BY <2>2, <2>3, <2>4, <2>5, <2>6 DEF RequestsOk
<1>5. TruthOk(S, C, B, twice, FALSE, failed)
  <2>1. ASSUME NEW q \in S, q.owner = Leaver, q.body \in {"completed", "failed"}
        PROVE  q.id \in twice \/ \E c \in C : c.ref = {q.id} /\ c.body = q.body
    <3>1. PICK x \in R : q.id = x.id /\ q.owner = x.owner /\ q.body = x.body
      BY <1>1, <2>1
    <3> QED BY <2>1, <3>1 DEF AgentsOk, TruthOk
  <2>2. ASSUME NEW q \in S, q.owner = Leaver, q.body = "running", ~failed
        PROVE  \E u \in Threads : Serving(B, u) /\ B[u].run = q.id
    <3>1. CASE q.id = A[t].run
      BY <3>1 DEF Serving
    <3>2. CASE q.id # A[t].run
      <4>1. PICK x \in R : q.id = x.id /\ q.owner = x.owner /\ q.body = x.body
        BY <1>1, <3>2
      <4>2. PICK u \in Threads : Serving(A, u) /\ A[u].run = q.id
        BY <2>2, <4>1 DEF AgentsOk, TruthOk
      <4> QED BY <3>2, <4>2 DEF Serving
    <3> QED BY <3>1, <3>2
  <2> QED BY <2>1, <2>2 DEF TruthOk
<1> QED BY <1>2, <1>3, <1>4, <1>5 DEF AgentsOk, S

(* Its tool is called.                                                     *)
LEMMA CreateCallOk ==
    ASSUME NEW R, NEW C, NEW A, NEW twice, NEW n \in Nat, NEW failed \in BOOLEAN,
           AgentsOk(R, C, A, twice, n, FALSE, failed), NEW t \in Threads, A[t].at = "call",
           NEW c, NEW B, NewCall(c, C, A, B, t)
    PROVE  AgentsOk(R, Added(C, c), B, twice, n, FALSE, failed)
<1> USE DEF Added, NewCall, Others
<1>1. /\ IsFiniteSet(C) /\ \A d \in C : d.id < c.id
      /\ Cardinality(C) \in Nat
  BY FS_CardinalityType DEF AgentsOk, CallsOk
<1>2. c \notin C
  BY <1>1
<1>3. IsFiniteSet(C \cup {c}) /\ Cardinality(C \cup {c}) = Cardinality(C) + 1
  BY <1>1, <1>2, FS_AddElement
<1>4. \A r \in R : r.id = A[t].run => r.body # "awaiting_approval"
  BY DEF AgentsOk, RequestsOk, Serving
<1>5. A[t].run \in Nat /\ A[t].run < n /\ (A[t].run \notin twice => \A d \in C : A[t].run \notin d.ref)
  BY DEF AgentsOk, RequestsOk, Serving
<1>6. RunsOk(R, C \cup {c}, n)
  BY <1>4 DEF AgentsOk, RunsOk
<1>7. CallsOk(C \cup {c}, n, twice, FALSE)
  <2>1. \A d \in C \cup {c} : IsRow(d) /\ d.id \in Nat /\ d.id < 200 + Cardinality(C \cup {c})
    BY <1>1, <1>3 DEF AgentsOk, CallsOk
  <2>2. \A d \in C \cup {c} : \A i \in d.ref : i \in Nat /\ i < n
    BY <1>5 DEF AgentsOk, CallsOk
  <2>3. \A d, e \in C \cup {c} : d.id = e.id => d = e
    BY <1>1 DEF AgentsOk, CallsOk
  <2>4. \A d, e \in C \cup {c} : \A i \in d.ref \cap e.ref : i \notin twice => d = e
    BY <1>5 DEF AgentsOk, CallsOk
  <2> QED BY <1>3, <2>1, <2>2, <2>3, <2>4 DEF CallsOk
<1>8. RequestsOk(R, C \cup {c}, B, twice, n, FALSE)
  <2>1. \A u \in Threads : u = t \/ B[u] = A[u]
    OBVIOUS
  <2>2. \A u \in Threads : Serving(B, u) => B[u].run \in Nat /\ B[u].run < n
    BY <1>5, <2>1 DEF AgentsOk, RequestsOk, Serving
  <2>3. \A u, v \in Threads :
           Serving(B, u) /\ Serving(B, v) /\ B[u].run = B[v].run /\ B[u].run \notin twice => u = v
    BY <2>1 DEF AgentsOk, RequestsOk, Serving
  <2>4. ASSUME NEW u \in Threads, B[u].at \in {"approve", "call"}, B[u].run \notin twice
        PROVE  \A d \in C \cup {c} : B[u].run \notin d.ref
    <3>1. u # t /\ B[u] = A[u] /\ Serving(B, u) /\ Serving(B, t)
      BY <2>1, <2>4 DEF Serving
    <3>2. B[u].run # A[t].run
      BY <2>3, <2>4, <3>1
    <3> QED BY <2>4, <3>1, <3>2 DEF AgentsOk, RequestsOk
  <2>5. \A u \in Threads : Serving(B, u) /\ B[u].at # "approve" =>
           \A q \in R : q.id = B[u].run => q.body # "awaiting_approval"
    BY <1>4, <2>1 DEF AgentsOk, RequestsOk, Serving
  <2>6. \A u \in Threads : B[u].at \in {"tool", "completed", "failed"} =>
           \E d \in C \cup {c} : d.id = B[u].call /\ d.ref = {B[u].run}
    BY <2>1 DEF AgentsOk, RequestsOk
  <2> QED BY <2>2, <2>3, <2>4, <2>5, <2>6 DEF RequestsOk
<1>9. TruthOk(R, C \cup {c}, B, twice, FALSE, failed)
  <2>1. \A q \in R : q.owner = Leaver /\ q.body \in {"completed", "failed"} =>
           q.id \in twice \/ \E d \in C \cup {c} : d.ref = {q.id} /\ d.body = q.body
    BY DEF AgentsOk, TruthOk
  <2>2. ASSUME NEW q \in R, q.owner = Leaver, q.body = "running", ~failed
        PROVE  \E u \in Threads : Serving(B, u) /\ B[u].run = q.id
    <3>1. PICK u \in Threads : Serving(A, u) /\ A[u].run = q.id
      BY <2>2 DEF AgentsOk, TruthOk
    <3> QED BY <3>1 DEF Serving
  <2> QED BY <2>1, <2>2 DEF TruthOk
<1> QED BY <1>6, <1>7, <1>8, <1>9 DEF AgentsOk

(* The tool returns, or raises.                                            *)
LEMMA InvokeOk ==
    ASSUME NEW R, NEW C, NEW A, NEW twice, NEW n \in Nat, NEW ended \in BOOLEAN, NEW failed \in BOOLEAN,
           AgentsOk(R, C, A, twice, n, ended, failed), NEW t \in Threads, A[t].at = "tool",
           NEW B, \A u \in Threads \ {t} : B[u] = A[u],
           B[t].at \in {"completed", "failed"}, B[t].run = A[t].run, B[t].call = A[t].call
    PROVE  AgentsOk(R, C, B, twice, n, ended, failed)
<1>1. \A u \in Threads : u = t \/ B[u] = A[u]
  OBVIOUS
<1>2. \A u \in Threads : (Serving(B, u) <=> Serving(A, u)) /\ B[u].run = A[u].run /\
          B[u].call = A[u].call
  BY <1>1 DEF Serving
<1>3. RequestsOk(R, C, B, twice, n, ended)
  <2>1. \A u \in Threads : Serving(B, u) => B[u].run \in Nat /\ B[u].run < n
    BY <1>2 DEF AgentsOk, RequestsOk
  <2>2. \A u, v \in Threads :
           Serving(B, u) /\ Serving(B, v) /\ B[u].run = B[v].run /\ B[u].run \notin twice => u = v
    BY <1>2 DEF AgentsOk, RequestsOk
  <2>3. \A u \in Threads : B[u].at \in {"approve", "call"} /\ B[u].run \notin twice =>
           \A c \in C : B[u].run \notin c.ref
    BY <1>1 DEF AgentsOk, RequestsOk
  <2>4. \A u \in Threads : Serving(B, u) /\ B[u].at # "approve" =>
           \A q \in R : q.id = B[u].run => q.body # "awaiting_approval"
    BY <1>1 DEF AgentsOk, RequestsOk, Serving
  <2>5. \A u \in Threads : ~ended /\ B[u].at \in {"tool", "completed", "failed"} =>
           \E c \in C : c.id = B[u].call /\ c.ref = {B[u].run}
    BY <1>1 DEF AgentsOk, RequestsOk
  <2> QED BY <2>1, <2>2, <2>3, <2>4, <2>5 DEF RequestsOk
<1>4. TruthOk(R, C, B, twice, ended, failed)
  <2>1. \A q \in R : q.owner = Leaver /\ q.body \in {"completed", "failed"} =>
           q.id \in twice \/ \E d \in C : d.ref = {q.id} /\ d.body = q.body
    BY DEF AgentsOk, TruthOk
  <2>2. ASSUME NEW q \in R, q.owner = Leaver, q.body = "running", ~failed, ~ended
        PROVE  \E u \in Threads : Serving(B, u) /\ B[u].run = q.id
    <3>1. PICK u \in Threads : Serving(A, u) /\ A[u].run = q.id
      BY <2>2 DEF AgentsOk, TruthOk
    <3> QED BY <1>2, <3>1
  <2> QED BY <2>1, <2>2 DEF TruthOk
<1> QED BY <1>3, <1>4 DEF AgentsOk

(* The call and its run get the same status.                               *)
LEMMA MarkOk ==
    ASSUME NEW R, NEW C, NEW A, NEW twice, NEW n \in Nat, NEW failed \in BOOLEAN,
           AgentsOk(R, C, A, twice, n, FALSE, failed), NEW t \in Threads,
           A[t].at \in {"completed", "failed"},
           NEW B, \A u \in Threads \ {t} : B[u] = A[u], B[t].at = "idle"
    PROVE  AgentsOk(WithStatusOf(R, A[t].run, A[t].at), WithStatusOf(C, A[t].call, A[t].at),
                    B, twice, n, FALSE, failed)
<1> DEFINE S == WithStatusOf(R, A[t].run, A[t].at)
           D == WithStatusOf(C, A[t].call, A[t].at)
<1>1. /\ \A q \in S : /\ IsRow(q)
                      /\ \E x \in R : /\ q.id = x.id /\ q.ref = x.ref /\ q.owner = x.owner
                                      /\ q.body = IF x.id = A[t].run THEN A[t].at ELSE x.body
      /\ \A p, q \in S : p.id = q.id => p = q
  BY StatusKeeps DEF AgentsOk, RunsOk
<1>2. /\ \A d \in D : /\ IsRow(d)
                      /\ \E x \in C : /\ d.id = x.id /\ d.ref = x.ref /\ d.owner = x.owner
                                      /\ d.body = IF x.id = A[t].call THEN A[t].at ELSE x.body
      /\ \A x \in C : \E d \in D : /\ d.id = x.id /\ d.ref = x.ref /\ d.owner = x.owner
                                   /\ d.body = IF x.id = A[t].call THEN A[t].at ELSE x.body
      /\ \A c, d \in D : c.id = d.id => c = d
  BY StatusKeeps DEF AgentsOk, CallsOk
<1>3. IsFiniteSet(D) /\ Cardinality(D) = Cardinality(C)
  BY StatusCounts DEF AgentsOk, CallsOk
<1> HIDE DEF S, D
<1>4. PICK call \in C : call.id = A[t].call /\ call.ref = {A[t].run}
  BY DEF AgentsOk, RequestsOk
<1>5. RunsOk(S, D, n)
  <2>1. \A q \in S : IsRow(q) /\ q.id \in Nat /\ q.id < n
    BY <1>1 DEF AgentsOk, RunsOk
  <2>2. ASSUME NEW q \in S, q.body = "awaiting_approval", NEW d \in D PROVE q.id \notin d.ref
    <3>1. PICK x \in R : q.id = x.id /\ x.body = "awaiting_approval"
      BY <1>1, <2>2
    <3>2. PICK c \in C : d.ref = c.ref
      BY <1>2
    <3> QED BY <3>1, <3>2 DEF AgentsOk, RunsOk
  <2> QED BY <1>1, <2>1, <2>2 DEF RunsOk
<1>6. CallsOk(D, n, twice, FALSE)
  <2>1. \A d \in D : IsRow(d) /\ d.id \in Nat /\ d.id < 200 + Cardinality(D)
    BY <1>2, <1>3 DEF AgentsOk, CallsOk
  <2>2. \A d \in D : \A i \in d.ref : i \in Nat /\ i < n
    BY <1>2 DEF AgentsOk, CallsOk
  <2>3. ASSUME NEW c \in D, NEW d \in D, NEW i \in c.ref \cap d.ref, i \notin twice PROVE c = d
    <3>1. PICK x \in C : c.id = x.id /\ c.ref = x.ref
      BY <1>2
    <3>2. PICK y \in C : d.id = y.id /\ d.ref = y.ref
      BY <1>2
    <3>3. x = y
      BY <2>3, <3>1, <3>2 DEF AgentsOk, CallsOk
    <3> QED BY <1>2, <3>1, <3>2, <3>3
  <2> QED BY <1>2, <1>3, <2>1, <2>2, <2>3 DEF CallsOk
<1>7. RequestsOk(S, D, B, twice, n, FALSE)
  <2>1. \A u \in Threads : u = t \/ B[u] = A[u]
    OBVIOUS
  <2>2. \A u \in Threads : Serving(B, u) => u # t /\ Serving(A, u) /\ B[u] = A[u]
    BY <2>1 DEF Serving
  <2>3. \A u \in Threads : Serving(B, u) => B[u].run \in Nat /\ B[u].run < n
    BY <2>2 DEF AgentsOk, RequestsOk
  <2>4. \A u, v \in Threads :
           Serving(B, u) /\ Serving(B, v) /\ B[u].run = B[v].run /\ B[u].run \notin twice => u = v
    BY <2>2 DEF AgentsOk, RequestsOk
  <2>5. ASSUME NEW u \in Threads, B[u].at \in {"approve", "call"}, B[u].run \notin twice, NEW d \in D
        PROVE  B[u].run \notin d.ref
    <3>1. B[u] = A[u]
      BY <2>1, <2>5
    <3>2. PICK c \in C : d.ref = c.ref
      BY <1>2
    <3> QED BY <2>5, <3>1, <3>2 DEF AgentsOk, RequestsOk
  <2>6. ASSUME NEW u \in Threads, Serving(B, u), B[u].at # "approve", NEW q \in S, q.id = B[u].run
        PROVE  q.body # "awaiting_approval"
    <3>1. Serving(A, u) /\ B[u] = A[u]
      BY <2>2, <2>6
    <3>2. PICK x \in R : /\ q.id = x.id
                         /\ q.body = IF x.id = A[t].run THEN A[t].at ELSE x.body
      BY <1>1
    <3> QED BY <2>6, <3>1, <3>2 DEF AgentsOk, RequestsOk
  <2>7. ASSUME NEW u \in Threads, B[u].at \in {"tool", "completed", "failed"}
        PROVE  \E d \in D : d.id = B[u].call /\ d.ref = {B[u].run}
    <3>1. B[u] = A[u]
      BY <2>1, <2>7
    <3>2. PICK c \in C : c.id = A[u].call /\ c.ref = {A[u].run}
      BY <2>7, <3>1 DEF AgentsOk, RequestsOk
    <3> QED BY <1>2, <3>1, <3>2
  <2> QED BY <2>3, <2>4, <2>5, <2>6, <2>7 DEF RequestsOk
<1>8. TruthOk(S, D, B, twice, FALSE, failed)
  <2>1. ASSUME NEW q \in S, q.owner = Leaver, q.body \in {"completed", "failed"}, q.id \notin twice
        PROVE  \E d \in D : d.ref = {q.id} /\ d.body = q.body
    <3>1. PICK x \in R : /\ q.id = x.id /\ q.owner = x.owner
                         /\ q.body = IF x.id = A[t].run THEN A[t].at ELSE x.body
      BY <1>1
    <3>2. CASE x.id = A[t].run
      <4>1. PICK d \in D : d.ref = call.ref /\ d.body = A[t].at
        BY <1>2, <1>4
      <4> QED BY <1>4, <3>1, <3>2, <4>1
    <3>3. CASE x.id # A[t].run
      <4>1. PICK c \in C : c.ref = {x.id} /\ c.body = x.body
        BY <2>1, <3>1, <3>3 DEF AgentsOk, TruthOk
      <4>2. c.id # A[t].call
        <5>1. call.ref # c.ref
          BY <1>4, <3>3, <4>1
        <5> QED BY <1>4, <5>1 DEF AgentsOk, CallsOk
      <4>3. PICK d \in D : d.ref = c.ref /\ d.body = c.body
        BY <1>2, <4>2
      <4> QED BY <3>1, <3>3, <4>1, <4>3
    <3> QED BY <3>2, <3>3
  <2>2. ASSUME NEW q \in S, q.owner = Leaver, q.body = "running", ~failed
        PROVE  \E u \in Threads : Serving(B, u) /\ B[u].run = q.id
    <3>1. PICK x \in R : /\ q.id = x.id /\ q.owner = x.owner
                         /\ q.body = IF x.id = A[t].run THEN A[t].at ELSE x.body
      BY <1>1
    <3>2. x.id # A[t].run /\ x.body = "running"
      BY <2>2, <3>1
    <3>3. PICK u \in Threads : Serving(A, u) /\ A[u].run = x.id
      BY <2>2, <3>1, <3>2 DEF AgentsOk, TruthOk
    <3>4. u # t /\ B[u] = A[u]
      BY <3>2, <3>3
    <3> QED BY <3>1, <3>3, <3>4 DEF Serving
  <2> QED BY <2>1, <2>2 DEF TruthOk
<1> QED BY <1>5, <1>6, <1>7, <1>8 DEF AgentsOk, S, D

(* A request ends early only in a failure or behind the fence.             *)
LEMMA EndOk ==
    ASSUME NEW R, NEW C, NEW A, NEW twice, NEW n \in Nat, NEW ended \in BOOLEAN, NEW failed \in BOOLEAN,
           AgentsOk(R, C, A, twice, n, ended, failed), NEW t \in Threads, ended = TRUE \/ failed = TRUE,
           NEW B, Others(A, B, t), B[t].at = "idle"
    PROVE  AgentsOk(R, C, B, twice, n, ended, failed)
<1> USE DEF Others
<1>1. \A u \in Threads : B[u].at # "idle" => u # t /\ A[u].at # "idle" /\ B[u] = A[u]
  OBVIOUS
<1>2. RequestsOk(R, C, B, twice, n, ended)
  <2>1. RequestsOk(R, C, A, twice, n, ended)
    BY DEF AgentsOk
  <2>2. \A u \in Threads : Serving(B, u) => B[u].run \in Nat /\ B[u].run < n
    BY <1>1, <2>1 DEF RequestsOk, Serving
  <2>3. \A u, v \in Threads :
           Serving(B, u) /\ Serving(B, v) /\ B[u].run = B[v].run /\ B[u].run \notin twice => u = v
    BY <1>1, <2>1 DEF RequestsOk, Serving
  <2>4. \A u \in Threads : B[u].at \in {"approve", "call"} /\ B[u].run \notin twice =>
           \A c \in C : B[u].run \notin c.ref
    BY <1>1, <2>1 DEF RequestsOk
  <2>5. \A u \in Threads : Serving(B, u) /\ B[u].at # "approve" =>
           \A r \in R : r.id = B[u].run => r.body # "awaiting_approval"
    BY <1>1, <2>1 DEF RequestsOk, Serving
  <2>6. \A u \in Threads : ~ended /\ B[u].at \in {"tool", "completed", "failed"} =>
           \E c \in C : c.id = B[u].call /\ c.ref = {B[u].run}
    BY <1>1, <2>1 DEF RequestsOk
  <2> QED BY <2>2, <2>3, <2>4, <2>5, <2>6 DEF RequestsOk
<1>3. TruthOk(R, C, B, twice, ended, failed)
  BY DEF AgentsOk, TruthOk
<1> QED BY <1>2, <1>3 DEF AgentsOk

(* A failure changes nothing here, nor does time; the fence ends promises. *)
LEMMA LaterOk ==
    ASSUME NEW R, NEW C, NEW A, NEW twice, NEW n \in Nat,
           NEW ended \in BOOLEAN, NEW after \in BOOLEAN, ended = TRUE => after = TRUE,
           NEW failed \in BOOLEAN, NEW worse \in BOOLEAN, failed = TRUE => worse = TRUE,
           AgentsOk(R, C, A, twice, n, ended, failed)
    PROVE  AgentsOk(R, C, A, twice, n, after, worse)
<1>1. RunsOk(R, C, n)
  BY DEF AgentsOk, RunsOk
<1>2. CallsOk(C, n, twice, after)
  BY DEF AgentsOk, CallsOk
<1>3. RequestsOk(R, C, A, twice, n, after)
  BY DEF AgentsOk, RequestsOk
<1>4. TruthOk(R, C, A, twice, after, worse)
  BY DEF AgentsOk, TruthOk
<1> QED BY <1>1, <1>2, <1>3, <1>4 DEF AgentsOk

(* The erasure takes the leaver's runs along with their calls.             *)
LeftOf(R, S) == S \subseteq R
Stays(R) == \E r \in R : r.owner = Leaver

(* so the invariant of the agents is kept.                                 *)
LEMMA EraseOk ==
    ASSUME NEW R, NEW C, NEW A, NEW twice, NEW n \in Nat, NEW failed \in BOOLEAN,
           AgentsOk(R, C, A, twice, n, TRUE, failed), NEW S, NEW D,
           LeftOf(R, S), LeftOf(C, D), ~Stays(S)
    PROVE  AgentsOk(S, D, A, twice, n, TRUE, failed)
<1> USE DEF Stays, LeftOf
<1>1. RunsOk(S, D, n)
  BY DEF AgentsOk, RunsOk
<1>2. CallsOk(D, n, twice, TRUE)
  <2>1. IsFiniteSet(D)
    BY FS_Subset DEF AgentsOk, CallsOk
  <2> QED BY <2>1 DEF AgentsOk, CallsOk
<1>3. RequestsOk(S, D, A, twice, n, TRUE)
  BY DEF AgentsOk, RequestsOk
<1>4. TruthOk(S, D, A, twice, TRUE, failed)
  BY DEF AgentsOk, TruthOk
<1> QED BY <1>1, <1>2, <1>3, <1>4 DEF AgentsOk

(* A run that is stored,                                                   *)
LEMMA NewRunIs ==
    ASSUME NEW ref, NEW status, NEW id, db' = db \cup {AgentRow("agent_runs", id, ref, status)}
    PROVE  /\ Runs' = Runs \cup {AgentRow("agent_runs", id, ref, status)} /\ Calls' = Calls
           /\ LET r == AgentRow("agent_runs", id, ref, status)
              IN  IsRow(r) /\ r.id = id /\ r.ref = ref /\ r.body = status
<1> DEFINE r == AgentRow("agent_runs", id, ref, status)
<1>1. IsRow(r) /\ r.tab = "agent_runs" /\ r.id = id /\ r.ref = ref /\ r.body = status
  BY DEF AgentRow, IsRow
<1>2. db' = db \cup {r}
  OBVIOUS
<1> HIDE DEF r
<1>3. Runs' = Runs \cup {r} /\ Calls' = Calls
  BY <1>1, <1>2 DEF Runs, Calls
<1> QED BY <1>1, <1>3 DEF r

(* and a call that is.                                                     *)
LEMMA NewCallIs ==
    ASSUME NEW ref, NEW status, NEW id, db' = db \cup {AgentRow("agent_tool_calls", id, ref, status)}
    PROVE  /\ Calls' = Calls \cup {AgentRow("agent_tool_calls", id, ref, status)} /\ Runs' = Runs
           /\ LET c == AgentRow("agent_tool_calls", id, ref, status)
              IN  IsRow(c) /\ c.id = id /\ c.ref = ref /\ c.body = status
<1> DEFINE c == AgentRow("agent_tool_calls", id, ref, status)
<1>1. IsRow(c) /\ c.tab = "agent_tool_calls" /\ c.id = id /\ c.ref = ref /\ c.body = status
  BY DEF AgentRow, IsRow
<1>2. db' = db \cup {c}
  OBVIOUS
<1> HIDE DEF c
<1>3. Calls' = Calls \cup {c} /\ Runs' = Runs
  BY <1>1, <1>2 DEF Runs, Calls
<1> QED BY <1>1, <1>3 DEF c

(* A status that is set is set of runs and of calls:                       *)
LEMMA StatusOfRows ==
    ASSUME RowsInv, NEW rows \in SUBSET db, NEW status, db' = (db \ rows) \cup WithStatus(rows, status)
    PROVE  /\ Runs' = (Runs \ rows) \cup WithStatus(rows \cap Runs, status)
           /\ Calls' = (Calls \ rows) \cup WithStatus(rows \cap Calls, status)
<1> DEFINE Copy(x) == [x EXCEPT !.body = status]
<1>1. \A x \in db : Copy(x).tab = x.tab
  BY StatusCopies DEF RowsInv, AllFit, Fits
<1>2. \A S : WithStatus(S, status) = {Copy(x) : x \in S}
  BY DEF WithStatus
<1> HIDE DEF Copy
<1> QED BY <1>1, <1>2 DEF Runs, Calls

(* of one run,                                                             *)
LEMMA StatusOfRun ==
    ASSUME RowsInv, NEW run, NEW status, NEW rows, rows = {r \in Runs : r.id = run},
           db' = (db \ rows) \cup WithStatus(rows, status)
    PROVE  Runs' = WithStatusOf(Runs, run, status) /\ Calls' = Calls
<1>1. rows \in SUBSET db /\ Runs \cap Calls = {}
  BY DEF Runs, Calls
<1>2. /\ Runs \ rows = {x \in Runs : x.id # run} /\ rows \cap Runs = {y \in Runs : y.id = run}
      /\ Calls \ rows = Calls /\ rows \cap Calls = {}
  BY <1>1
<1>3. WithStatus({}, status) = {}
  BY DEF WithStatus
<1>4. /\ Runs' = (Runs \ rows) \cup WithStatus(rows \cap Runs, status)
      /\ Calls' = (Calls \ rows) \cup WithStatus(rows \cap Calls, status)
  BY <1>1, StatusOfRows
<1> QED BY <1>2, <1>3, <1>4 DEF WithStatusOf

(* or of the run and the call of a request.                                *)
LEMMA StatusOfBoth ==
    ASSUME RowsInv, NEW t, NEW status, db' = (db \ Marked(t)) \cup WithStatus(Marked(t), status)
    PROVE  /\ Runs' = WithStatusOf(Runs, agent[t].run, status)
           /\ Calls' = WithStatusOf(Calls, agent[t].call, status)
<1> DEFINE rows == Marked(t)
           run == agent[t].run
           call == agent[t].call
<1>1. rows = {c \in Calls : c.id = call} \cup {r \in Runs : r.id = run}
  BY DEF Marked
<1> HIDE DEF rows, run, call
<1>2. rows \in SUBSET db /\ Runs \cap Calls = {}
  BY <1>1 DEF Runs, Calls
<1>3. /\ Runs \ rows = {x \in Runs : x.id # run} /\ rows \cap Runs = {y \in Runs : y.id = run}
      /\ Calls \ rows = {x \in Calls : x.id # call} /\ rows \cap Calls = {y \in Calls : y.id = call}
  BY <1>1, <1>2
<1>4. db' = (db \ rows) \cup WithStatus(rows, status)
  BY DEF rows
<1>5. /\ Runs' = (Runs \ rows) \cup WithStatus(rows \cap Runs, status)
      /\ Calls' = (Calls \ rows) \cup WithStatus(rows \cap Calls, status)
  BY <1>2, <1>4, StatusOfRows
<1>6. Runs' = WithStatusOf(Runs, run, status) /\ Calls' = WithStatusOf(Calls, call, status)
  BY <1>3, <1>5 DEF WithStatusOf
<1> QED BY <1>6 DEF run, call

(* The ids of the runs count the operations.                               *)
LEMMA NewIdGrows ==
    ASSUME ops \in Nat
    PROVE  /\ NewId \in Nat
           /\ ops' = ops + 1 => NewId' = NewId + 1
           /\ ops' = ops => NewId' = NewId
BY LeaverAssumption DEF NewId

(* Every step of a request keeps the agents' invariant.                    *)
LEMMA AgentsStep ==
    ASSUME PlaneInv, AgentsInv, NEW t \in Threads, AgentStep(t), faults' = faults
    PROVE  AgentsInv'
<1> DEFINE Good(R, C, A, twice, n) == AgentsOk(R, C, A, twice, n, fenced, faults > 0)
<1>1. Agents' = Agents /\ Agents
  <2>1. store' = store
    BY ServingStep DEF PlaneInv
  <2>2. agent[t].at # "idle" => Agents
    BY DEF PlaneInv, ServingInv, NoRequest
  <2>3. Run(t) \/ Approve(t) => Agents
    BY DEF Run, Approve
  <2>4. SetRunning(t) \/ CreateToolCall(t) \/ InvokeTool(t) \/ Mark(t) \/ Refused(t)
            => agent[t].at # "idle"
    BY DEF SetRunning, CreateToolCall, InvokeTool, Mark, Refused
  <2>5. Agents
    BY <2>2, <2>3, <2>4 DEF AgentStep
  <2> QED BY <2>1, <2>5 DEF Agents, kind
<1>2. fenced' = fenced
  BY
     DEF AgentStep, Run, Approve, SetRunning, CreateToolCall, InvokeTool, Mark, Refused, Ends,
         Stored, tableVars
<1>3. NewId \in Nat /\ Good(Runs, Calls, agent, doubled, NewId)
  BY <1>1 DEF AgentsInv
<1>4. (faults > 0) \in BOOLEAN /\ (faults > 0)' = (faults > 0) /\ ops \in Nat /\ fenced \in BOOLEAN
  BY DEF PlaneInv, RowsInv
<1>5. SUFFICES NewId' \in Nat /\ Good(Runs', Calls', agent', doubled', NewId')
  BY <1>2, <1>4 DEF AgentsInv
<1>6. ASSUME NEW q, agent' = [agent EXCEPT ![t] = q]
      PROVE  agent'[t] = q /\ \A u \in Threads \ {t} : agent'[u] = agent[u]
  BY <1>6, OneRequest DEF PlaneInv
<1> DEFINE failed == faults > 0
<1> HIDE DEF failed
<1>a. failed \in BOOLEAN /\ fenced \in BOOLEAN /\ \A R, C, A, twice, n : Good(R, C, A, twice,
          n) = AgentsOk(R, C, A, twice, n, fenced, failed)
  BY <1>4 DEF failed
<1> HIDE DEF Good
<1>7. CASE Run(t)
  <2>1. PICK gated \in BOOLEAN :
           LET status == IF gated THEN "awaiting_approval" ELSE "running" IN
           /\ Stored(db \cup {AgentRow("agent_runs", NewId, {}, status)})
           /\ agent' = IF gated THEN agent
                       ELSE [agent EXCEPT ![t] = [at |-> "call", run |-> NewId, call |-> 0]]
    BY <1>7 DEF Run
  <2> DEFINE status == IF gated THEN "awaiting_approval" ELSE "running"
             r == AgentRow("agent_runs", NewId, {}, status)
  <2>2. agent[t] = NoRequest /\ ops' = ops + 1 /\ doubled' = doubled
    BY <1>7 DEF Run
  <2>3. ~fenced /\ db' = db \cup {r}
    BY <2>1 DEF Stored
  <2>4. Runs' = Runs \cup {r} /\ Calls' = Calls /\ IsRow(r) /\ r.id = NewId
    BY <2>3, NewRunIs
  <2>5. \/ r.body = "awaiting_approval" /\ agent' = agent
        \/ r.body = "running" /\ agent' = [agent EXCEPT ![t] = [at |-> "call", run |-> NewId,
            call |-> 0]]
    BY <2>1, <2>3, NewRunIs
  <2> HIDE DEF r
  <2>6. /\ \A u \in Threads \ {t} : agent'[u] = agent[u]
        /\ \/ r.body = "awaiting_approval" /\ agent'[t] = agent[t]
           \/ r.body = "running" /\ agent'[t].at = "call" /\ agent'[t].run = NewId
    BY <1>6, <2>5
  <2>7. ~Serving(agent, t)
    BY <2>2 DEF Serving, NoRequest
  <2>8. AgentsOk(Runs, Calls, agent, doubled, NewId, FALSE, failed)
    BY <1>3, <1>a, <2>3
  <2>b. NewRun(r, NewId, agent, agent', t)
    BY <2>4, <2>6 DEF NewRun, Others
  <2>9. AgentsOk(Added(Runs, r), Calls, agent', doubled, NewId + 1, FALSE, failed)
    BY <1>3, <1>a, <2>b, <2>7, <2>8, RunOk
  <2>10. NewId' = NewId + 1
    BY <1>4, <2>2, NewIdGrows
  <2>11. fenced = FALSE /\ Runs' = Added(Runs, r) /\ Calls' = Calls
    BY <2>3, <2>4 DEF Added
  <2>12. AgentsOk(Runs', Calls', agent', doubled', NewId', fenced, failed)
    BY <2>2, <2>9, <2>10, <2>11
  <2>13. NewId' \in Nat
    BY <1>3, <2>10
  <2> QED BY <1>a, <2>12, <2>13
<1>8. CASE Approve(t)
  <2>1. PICK r \in Runs : /\ MayApprove(r)
                          /\ agent' = [agent EXCEPT ![t] = [at |-> "approve", run |-> r.id, call |-> 0]]
                          /\ doubled' = doubled \cup {id \in {r.id} : \E u \in Threads : Serves(u, id)}
    BY <1>8 DEF Approve
  <2>2. agent[t] = NoRequest /\ ops' = ops + 1 /\ db' = db
    BY <1>8 DEF Approve
  <2>3. ~Serving(agent, t)
    BY <2>2 DEF Serving, NoRequest
  <2>4. /\ doubled \subseteq doubled'
        /\ \A u \in Threads : Serving(agent, u) /\ agent[u].run = r.id => r.id \in doubled'
    BY <2>1 DEF Serving, Serves
  <2>5. agent'[t].at = "approve" /\ agent'[t].run = r.id /\ \A u \in Threads \ {t} : agent'[u] = agent[u]
    BY <1>6, <2>1
  <2>6. r.body = "awaiting_approval"
    BY <2>1 DEF MayApprove
  <2>7. AgentsOk(Runs, Calls, agent, doubled, NewId, fenced, failed)
    BY <1>3, <1>a
  <2>8. AgentsOk(Runs, Calls, agent', doubled', NewId + 1, fenced, failed)
    BY <1>3, <1>a, <2>3, <2>4, <2>5, <2>6, <2>7, ApproveOk
  <2>9. NewId' = NewId + 1 /\ Runs' = Runs /\ Calls' = Calls
    BY <1>4, <2>2, NewIdGrows DEF Runs, Calls
  <2> QED BY <1>3, <1>a, <2>8, <2>9
<1>9. CASE SetRunning(t)
  <2> DEFINE rows == {r \in Runs : r.id = agent[t].run}
  <2>1. /\ ~fenced /\ db' = (db \ rows) \cup WithStatus(rows, "running")
        /\ ops' = ops /\ doubled' = doubled /\ agent[t].at = "approve"
    BY <1>9 DEF SetRunning, Stored
  <2>2. rows = {r \in Runs : r.id = agent[t].run}
    OBVIOUS
  <2> HIDE DEF rows
  <2>3. Runs' = WithStatusOf(Runs, agent[t].run, "running") /\ Calls' = Calls
    BY <2>1, <2>2, StatusOfRun DEF PlaneInv
  <2>4. agent' = [agent EXCEPT ![t] = [at |-> "call", run |-> agent[t].run, call |-> agent[t].call]]
    BY <1>9, RequestsMove DEF PlaneInv
  <2>5. agent'[t].at = "call" /\ agent'[t].run = agent[t].run /\
            \A u \in Threads \ {t} : agent'[u] = agent[u]
    BY <1>6, <2>4
  <2>6. AgentsOk(Runs, Calls, agent, doubled, NewId, FALSE, failed)
    BY <1>3, <1>a, <2>1
  <2>7. AgentsOk(Runs', Calls, agent', doubled, NewId, FALSE, failed)
    BY <1>3, <1>a, <2>1, <2>3, <2>5, <2>6, SetRunningOk
  <2>8. NewId' = NewId
    BY <1>4, <2>1, NewIdGrows
  <2> QED BY <1>3, <1>a, <2>1, <2>3, <2>7, <2>8
<1>10. CASE CreateToolCall(t)
  <2> DEFINE id == 200 + Cardinality(Calls)
             c == AgentRow("agent_tool_calls", id, {agent[t].run}, "running")
  <2>0. id = 200 + Cardinality(Calls)
    OBVIOUS
  <2>1. /\ ~fenced /\ db' = db \cup {c}
        /\ ops' = ops /\ doubled' = doubled /\ agent[t].at = "call"
    BY <1>10 DEF CreateToolCall, Stored
  <2>2. agent' = [agent EXCEPT ![t] = [at |-> "tool", run |-> agent[t].run, call |-> id]]
    BY <1>10, RequestsMove DEF PlaneInv
  <2> HIDE DEF id
  <2>3. Calls' = Calls \cup {c} /\ Runs' = Runs /\ IsRow(c) /\ c.id = id /\ c.ref = {agent[t].run}
    BY <2>1, NewCallIs
  <2>4. /\ agent'[t].at = "tool" /\ agent'[t].run = agent[t].run /\ agent'[t].call = id
        /\ \A u \in Threads \ {t} : agent'[u] = agent[u]
    BY <1>6, <2>2
  <2> HIDE DEF c
  <2>5. AgentsOk(Runs, Calls, agent, doubled, NewId, FALSE, failed)
    BY <1>3, <1>a, <2>1
  <2>b. NewCall(c, Calls, agent, agent', t)
    BY <2>0, <2>3, <2>4 DEF NewCall, Others
  <2>6. AgentsOk(Runs, Added(Calls, c), agent', doubled, NewId, FALSE, failed)
    BY <1>3, <1>a, <2>1, <2>5, <2>b, CreateCallOk
  <2>7. NewId' = NewId
    BY <1>4, <2>1, NewIdGrows
  <2> QED BY <1>3, <1>a, <2>1, <2>3, <2>6, <2>7 DEF Added
<1>11. CASE InvokeTool(t)
  <2>1. UNCHANGED <<db, ops, doubled>> /\ agent[t].at = "tool"
    BY <1>11 DEF InvokeTool, tableVars
  <2>2. PICK outcome \in {"completed", "failed"} :
           agent' = [agent EXCEPT ![t] = [at |-> outcome, run |-> agent[t].run, call |-> agent[t].call]]
    BY <1>11, RequestsMove DEF PlaneInv
  <2>3. /\ agent'[t].at \in {"completed", "failed"} /\ agent'[t].run = agent[t].run
        /\ agent'[t].call = agent[t].call /\ \A u \in Threads \ {t} : agent'[u] = agent[u]
    BY <1>6, <2>2
  <2>4. AgentsOk(Runs, Calls, agent, doubled, NewId, fenced, failed)
    BY <1>3, <1>a
  <2>5. AgentsOk(Runs, Calls, agent', doubled, NewId, fenced, failed)
    BY <1>3, <1>a, <2>1, <2>3, <2>4, InvokeOk
  <2>6. NewId' = NewId /\ Runs' = Runs /\ Calls' = Calls
    BY <1>4, <2>1, NewIdGrows DEF Runs, Calls
  <2> QED BY <1>3, <1>a, <2>1, <2>5, <2>6
<1>12. CASE Mark(t)
  <2>1. /\ ~fenced /\ db' = (db \ Marked(t)) \cup WithStatus(Marked(t), agent[t].at)
        /\ ops' = ops /\ doubled' = doubled /\ agent[t].at \in {"completed", "failed"}
    BY <1>12 DEF Mark, Stored
  <2>3. /\ Runs' = WithStatusOf(Runs, agent[t].run, agent[t].at)
        /\ Calls' = WithStatusOf(Calls, agent[t].call, agent[t].at)
    BY <2>1, StatusOfBoth DEF PlaneInv
  <2>4. agent' = [agent EXCEPT ![t] = NoRequest]
    BY <1>12, RequestsMove DEF PlaneInv
  <2>5. agent'[t].at = "idle" /\ \A u \in Threads \ {t} : agent'[u] = agent[u]
    BY <1>6, <2>4 DEF NoRequest
  <2>6. AgentsOk(Runs, Calls, agent, doubled, NewId, FALSE, failed)
    BY <1>3, <1>a, <2>1
  <2>7. AgentsOk(Runs', Calls', agent', doubled, NewId, FALSE, failed)
    BY <1>3, <1>a, <2>1, <2>3, <2>5, <2>6, MarkOk
  <2>8. NewId' = NewId
    BY <1>4, <2>1, NewIdGrows
  <2> QED BY <1>3, <1>a, <2>1, <2>7, <2>8
<1>13. CASE Refused(t)
  <2>1. UNCHANGED <<db, ops, doubled>> /\ fenced
    BY <1>13 DEF Refused, Ends, tableVars
  <2>2. agent' = [agent EXCEPT ![t] = NoRequest]
    BY <1>13, RequestsMove DEF PlaneInv, Refused
  <2>3. agent'[t].at = "idle" /\ \A u \in Threads \ {t} : agent'[u] = agent[u]
    BY <1>6, <2>2 DEF NoRequest
  <2>4. AgentsOk(Runs, Calls, agent, doubled, NewId, fenced, failed)
    BY <1>3, <1>a
  <2>5. AgentsOk(Runs, Calls, agent', doubled, NewId, fenced, failed)
    <3>1. fenced = TRUE /\ Others(agent, agent', t)
      BY <2>1, <2>3 DEF Others
    <3> QED BY <1>3, <1>a, <2>3, <2>4, <3>1, EndOk
  <2>6. NewId' = NewId /\ Runs' = Runs /\ Calls' = Calls
    BY <1>4, <2>1, NewIdGrows DEF Runs, Calls
  <2> QED BY <1>3, <1>a, <2>1, <2>5, <2>6
<1> QED BY <1>7, <1>8, <1>9, <1>10, <1>11, <1>12, <1>13 DEF AgentStep

-----------------------------------------------------------------------------
(* Only one step of the erasure deletes tables of the agents, and it       *)
(* deletes both.                                                           *)
LEMMA StepsOfAgents ==
    /\ Steps[2] = {"agent_tool_calls", "agent_runs"}
    /\ \A n \in 1..14 : n # 2 => Steps[n] \cap {"agent_tool_calls", "agent_runs"} = {}
    /\ (OfMemories \cup {"memory_records"}) \cap {"agent_tool_calls", "agent_runs"} = {}
<1>1. Steps[2] = {"agent_tool_calls", "agent_runs"}
  BY DEF Steps, AgentsErased
<1>2. \A n \in 1..7 : n # 2 => Steps[n] \cap {"agent_tool_calls", "agent_runs"} = {}
  BY DEF Steps, SessionsErased, TokensErased, ImportsErased, CapturesErased, FeedbackErased
<1>3. \A n \in 8..13 : Steps[n] \cap {"agent_tool_calls", "agent_runs"} = {}
  BY DEF Steps, UsageErased, BusErased, GraphErased, IntelligenceErased, HomeErased, VectorsErased
<1>4. Steps[14] \cap {"agent_tool_calls", "agent_runs"} = {}
  BY DEF Steps, Residuals
<1>5. (OfMemories \cup {"memory_records"}) \cap {"agent_tool_calls", "agent_runs"} = {}
  BY DEF OfMemories
<1>6. \A n \in 1..14 : n \in 1..7 \/ n \in 8..13 \/ n = 14
  OBVIOUS
<1> QED BY <1>1, <1>2, <1>3, <1>4, <1>5, <1>6

(* Rows that are not there have no children.                               *)
LEMMA NoChildrenOfNone == ASSUME NEW D PROVE ChildrenOf({}, D) = {}
BY DEF ChildrenOf

(* The step of the erasure that reaches the runs takes all the leaver's.   *)
LEMMA AgentsErasure ==
    ASSUME RowsInv, Agents, ErasureStep
    PROVE  db' = db \/ (db' \subseteq db /\ \A r \in Runs' : r.owner # Leaver)
<1>1. \A r \in db : r.tab \in {"agent_runs", "agent_tool_calls"}
  BY AgentTablesAre DEF RowsInv, AllFit, Fits
<1>2. CASE EraseStore
  <2> DEFINE mine == Mine(er.at)
  <2>1. er.at \in 1..14 /\ Erased(mine \cup ChildrenOf(mine, db))
    BY <1>2, LastIs DEF EraseStore
  <2>2. mine = {r \in db : r.owner = Leaver /\ r.tab \in Steps[er.at]}
    BY DEF Mine, Rows
  <2> HIDE DEF mine
  <2>3. CASE er.at = 2
    <3>1. \A r \in db : r.owner = Leaver => r \in mine
      BY <1>1, <2>2, <2>3, StepsOfAgents
    <3>2. db' \subseteq db /\ \A r \in db' : r.owner # Leaver
      BY <2>1, <3>1, ErasedIs
    <3> QED BY <3>2 DEF Runs
  <2>4. CASE er.at # 2
    <3>1. mine = {}
      BY <1>1, <2>1, <2>2, <2>4, StepsOfAgents
    <3> QED BY <2>1, <3>1, ErasedIs, NoChildrenOfNone
  <2> QED BY <2>3, <2>4
<1>3. CASE EraseMemories
  <2>1. PICK gone \in SUBSET Rows(Leaver, OfMemories \cup {"memory_records"}) :
           Erased(gone \cup ChildrenOf(gone, db))
    BY <1>3 DEF EraseMemories
  <2>2. gone = {}
    BY <1>1, StepsOfAgents DEF Rows
  <2> QED BY <2>1, <2>2, ErasedIs, NoChildrenOfNone
<1>4. CASE Fence \/ Finish \/ Raises
  BY <1>4 DEF Fence, Finish, Raises, tableVars
<1> QED BY <1>2, <1>3, <1>4 DEF ErasureStep

(* The erasure keeps the invariant of the agents.                          *)
LEMMA AgentsErasureOk ==
    ASSUME PlaneInv, AgentsInv, ErasureStep, UNCHANGED agentVars
    PROVE  AgentsInv'
<1>1. UNCHANGED <<store, ops>>
  BY NeighboursStay DEF PlaneInv
<1>2. Agents' = Agents /\ NewId' = NewId
  BY <1>1 DEF Agents, kind, NewId
<1>3. SUFFICES ASSUME Agents
               PROVE  NewId \in Nat /\ AgentsOk(Runs', Calls', agent, doubled, NewId, fenced',
                          (faults > 0)')
  BY <1>2 DEF AgentsInv, agentVars
<1>4. NewId \in Nat /\ AgentsOk(Runs, Calls, agent, doubled, NewId, fenced, faults > 0)
  BY <1>3 DEF AgentsInv
<1>5. fenced' = TRUE
  <2>1. Fence \/ er.at # 0
    <3>1. EraseStore \/ EraseMemories \/ Finish \/ Raises => er.at # 0
      <4>1. (EraseStore \/ Raises => er.at \in 1..Last) /\ (EraseMemories => er.at = Memories)
        BY DEF EraseStore, EraseMemories, Raises
      <4>2. Finish => er.at = Last + 1
        BY DEF Finish
      <4> QED BY <4>1, <4>2, LastIs
    <3> QED BY <3>1 DEF ErasureStep
  <2>2. er.at # 0 => fenced
    BY DEF PlaneInv, ErasingInv
  <2>3. EraseStore \/ EraseMemories \/ Finish \/ Raises => fenced' = fenced
    BY DEF EraseStore, EraseMemories, Finish, Raises, tableVars
  <2>4. Fence => fenced' = TRUE
    BY DEF Fence
  <2> QED BY <2>1, <2>2, <2>3, <2>4 DEF ErasureStep
<1>6. faults \in Nat /\ faults' \in {faults, faults + 1}
  <2>1. EraseMemories => faults' \in {faults, faults + 1}
    BY DEF EraseMemories
  <2>2. faults \in Nat
    BY DEF PlaneInv, ErasingInv
  <2> QED BY <2>1, <2>2 DEF ErasureStep, Fence, EraseStore, Finish, Raises
<1> DEFINE failed == faults > 0
           worse == faults' > 0
<1>7. /\ failed \in BOOLEAN /\ worse \in BOOLEAN /\ (failed => worse) /\ worse = (faults > 0)'
      /\ fenced \in BOOLEAN
  BY <1>6 DEF PlaneInv
<1>8. AgentsOk(Runs, Calls, agent, doubled, NewId, fenced, failed)
  BY <1>4
<1> HIDE DEF failed, worse
<1>9. AgentsOk(Runs, Calls, agent, doubled, NewId, TRUE, worse)
  BY <1>4, <1>7, <1>8, LaterOk
<1>10. CASE db' = db
  <2>1. Runs' = Runs /\ Calls' = Calls
    BY <1>10 DEF Runs, Calls
  <2> QED BY <1>4, <1>5, <1>7, <1>9, <2>1
<1>11. CASE db' # db
  <2>1. db' \subseteq db /\ \A r \in Runs' : r.owner # Leaver
    BY <1>3, <1>11, AgentsErasure DEF PlaneInv
  <2>2. LeftOf(Runs, Runs') /\ LeftOf(Calls, Calls')
    BY <2>1 DEF Runs, Calls, LeftOf
  <2>3. ~Stays(Runs')
    BY <2>1 DEF Stays
  <2>4. AgentsOk(Runs', Calls', agent, doubled, NewId, TRUE, worse)
    BY <1>4, <1>7, <1>9, <2>2, <2>3, EraseOk
  <2> QED BY <1>4, <1>5, <1>7, <2>4
<1> QED BY <1>10, <1>11

-----------------------------------------------------------------------------
(* What the steps of the other parts leave alone.                          *)
LEMMA LiveLeaves == ASSUME NEW t \in Threads, LiveStep(t) PROVE UNCHANGED <<store, fenced>>
BY DEF LiveStep, Begin, Write, Delete, MergeReads, MergeWrites, LocalMergeWrites, Committed

(* A migration does not move the fence,                                    *)
LEMMA MigrationLeaves == ASSUME MigrationStep PROVE UNCHANGED <<store, fenced>>
BY
   DEF MigrationStep, StartMigration, LockOwner, NextStatement, SetSequence, FinishMigration,
       Rollback,
   Check, Insert, InsertItem, InsertOnce, InsertReview, Parity, Replayed, tableVars

(* nor does a request.                                                     *)
LEMMA AgentLeaves == ASSUME NEW t \in Threads, AgentStep(t) PROVE UNCHANGED <<store, fenced>>
BY
   DEF AgentStep, Run, Approve, SetRunning, CreateToolCall, InvokeTool, Mark, Refused, Ends, Stored,
       tableVars

(* Without a step of the erasure, it is where it was.                      *)
LEMMA ErasingStays ==
    ASSUME ErasingInv, UNCHANGED <<er, store, fenced>>, faults' \in {faults, faults + 1}
    PROVE  ErasingInv'
<1>1. faults' \in Nat
  BY DEF ErasingInv
<1> QED BY <1>1 DEF ErasingInv, kind

(* What the other steps leave alone is kept:                               *)
LEMMA ServingStays ==
    ASSUME ServingInv, UNCHANGED <<store, agent>> PROVE ServingInv'
BY DEF ServingInv, Agents, kind

(* A store without runs has nothing to be kept.                            *)
LEMMA AgentsElsewhere == ASSUME ~Agents, store' = store PROVE AgentsInv' /\ FiniteInv'
BY DEF AgentsInv, FiniteInv, Agents, kind

(* the requests, and the runs.                                             *)
LEMMA AgentsStay ==
    ASSUME AgentsInv, FiniteInv, UNCHANGED <<store, db, ops, fenced, agent, doubled>>,
           faults \in Nat, faults' \in {faults, faults + 1}, fenced \in BOOLEAN
    PROVE  AgentsInv' /\ FiniteInv'
<1> DEFINE failed == faults > 0
           worse == faults' > 0
<1>1. Agents' = Agents /\ NewId' = NewId /\ Runs' = Runs /\ Calls' = Calls
  BY DEF Agents, kind, NewId, Runs, Calls
<1>2. failed \in BOOLEAN /\ worse \in BOOLEAN /\ (failed = TRUE => worse = TRUE) /\ worse = (faults > 0)'
  OBVIOUS
<1>3. ASSUME Agents
      PROVE  NewId \in Nat /\ AgentsOk(Runs, Calls, agent, doubled, NewId, fenced, worse)
  <2>1. NewId \in Nat /\ AgentsOk(Runs, Calls, agent, doubled, NewId, fenced, failed)
    BY <1>3 DEF AgentsInv
  <2> HIDE DEF failed, worse
  <2> QED BY <1>2, <2>1, LaterOk
<1> HIDE DEF worse
<1>4. AgentsInv'
  BY <1>1, <1>2, <1>3 DEF AgentsInv
<1> QED BY <1>1, <1>4 DEF FiniteInv

(* A live write keeps the invariant of the plane;                          *)
LEMMA PlaneLive ==
    ASSUME PlaneInv, AgentsInv, NEW t \in Threads, LiveStep(t),
           UNCHANGED <<migVars, erasureVars, agentVars>>, FenceInv'
    PROVE  PlaneInv' /\ AgentsInv'
<1>1. ~Agents
  BY AgentsAlone DEF PlaneInv
<1>2. UNCHANGED <<store, fenced>>
  BY LiveLeaves
<1>3. UNCHANGED <<mig, runs, er, faults, agent>>
  BY DEF migVars, erasureVars, agentVars
<1>4. RowsInv'
  BY <1>3, LiveKeepsRows DEF PlaneInv
<1>5. ErasingInv'
  BY <1>2, <1>3, ErasingStays DEF PlaneInv
<1>6. ServingInv'
  BY <1>2, <1>3, ServingStays DEF PlaneInv
<1>7. AgentsInv' /\ FiniteInv'
  BY <1>1, <1>2, AgentsElsewhere
<1>8. StepInv' /\ fenced' \in BOOLEAN
  BY <1>2, <1>3 DEF PlaneInv, StepInv
<1> QED BY <1>4, <1>5, <1>6, <1>7, <1>8 DEF PlaneInv

(* so does a migration,                                                    *)
LEMMA PlaneMigration ==
    ASSUME PlaneInv, AgentsInv, MigrationStep, UNCHANGED <<erasureVars, agentVars>>, FenceInv'
    PROVE  PlaneInv' /\ AgentsInv'
<1>1. ~Agents
  BY AgentsAlone DEF PlaneInv
<1>2. UNCHANGED <<store, fenced>>
  BY MigrationLeaves
<1>3. UNCHANGED <<er, faults, agent>>
  BY DEF erasureVars, agentVars
<1>4. RowsInv' /\ StepInv'
  BY MigrationKeepsRows DEF PlaneInv
<1>5. ErasingInv'
  BY <1>2, <1>3, ErasingStays DEF PlaneInv
<1>6. ServingInv'
  BY <1>2, <1>3, ServingStays DEF PlaneInv
<1>7. AgentsInv' /\ FiniteInv'
  BY <1>1, <1>2, AgentsElsewhere
<1> QED BY <1>2, <1>4, <1>5, <1>6, <1>7 DEF PlaneInv

(* a request of an agent,                                                  *)
LEMMA PlaneAgent ==
    ASSUME PlaneInv, AgentsInv, NEW t \in Threads, AgentStep(t), UNCHANGED <<migVars,
               erasureVars>>, FenceInv'
    PROVE  PlaneInv' /\ AgentsInv'
<1>1. UNCHANGED <<store, fenced>>
  BY AgentLeaves
<1>2. UNCHANGED <<mig, runs, er, faults>>
  BY DEF migVars, erasureVars
<1>3. RowsInv' /\ FiniteInv'
  BY <1>2, AgentsKeepRows DEF PlaneInv, ServingInv
<1>4. ErasingInv'
  BY <1>1, <1>2, ErasingStays DEF PlaneInv
<1>5. ServingInv'
  BY ServingStep DEF PlaneInv
<1>6. AgentsInv'
  BY <1>2, AgentsStep
<1>7. StepInv' /\ fenced' \in BOOLEAN
  BY <1>1, <1>2 DEF PlaneInv, StepInv
<1> QED BY <1>3, <1>4, <1>5, <1>6, <1>7 DEF PlaneInv

(* the erasure,                                                            *)
LEMMA PlaneErasure ==
    ASSUME PlaneInv, AgentsInv, ErasureStep, UNCHANGED <<migVars, agentVars>>, FenceInv'
    PROVE  PlaneInv' /\ AgentsInv'
<1>1. UNCHANGED <<store, tx, pend, ops>> /\ db' \subseteq db
  BY NeighboursStay DEF PlaneInv
<1>2. UNCHANGED <<mig, runs, agent>>
  BY DEF migVars, agentVars
<1>3. RowsInv'
  <2>1. AllFit(kind, db') /\ TxsFit(kind, tx') /\ ops' \in Nat
    BY <1>1 DEF PlaneInv, RowsInv, AllFit
  <2> QED BY <1>1, <1>2, <2>1, RowsKeep DEF PlaneInv
<1>4. ErasingInv'
  BY ErasingStep DEF PlaneInv
<1>5. ServingInv'
  BY <1>1, <1>2, ServingStays DEF PlaneInv
<1>6. AgentsInv'
  BY AgentsErasureOk
<1>7. FiniteInv'
  BY <1>1, FS_Subset DEF PlaneInv, FiniteInv, Agents, kind
<1>8. StepInv'
  BY <1>2 DEF PlaneInv, StepInv
<1>9. fenced' \in BOOLEAN
  <2>1. EraseMemories => fenced' = fenced
    BY DEF EraseMemories
  <2> QED BY <2>1 DEF PlaneInv, ErasureStep, Fence, EraseStore, Finish, Raises, tableVars
<1> QED BY <1>3, <1>4, <1>5, <1>6, <1>7, <1>8, <1>9 DEF PlaneInv

(* and a crash.                                                            *)
LEMMA PlaneCrash ==
    ASSUME PlaneInv, AgentsInv, Crash, FenceInv'
    PROVE  PlaneInv' /\ AgentsInv'
<1>1. er' = er /\ faults' = faults + 1 /\ faults \in Nat /\ fenced \in BOOLEAN
  BY DEF Crash, PlaneInv, ErasingInv
<1>2. ASSUME NEW t \in Threads, Open(t), tx' = [tx EXCEPT ![t] = Idle],
             UNCHANGED <<store, db, seq, pend, locks, fenced, overtaken, settled, muddled, ops,
                 migVars, agentVars>>
      PROVE  PlaneInv' /\ AgentsInv'
  <2>1. UNCHANGED <<store, db, pend, fenced, ops, mig, runs, agent, doubled>>
    BY <1>2 DEF migVars, agentVars
  <2>2. TxsFit(kind, tx')
    BY <1>2, IdleFits DEF PlaneInv, RowsInv, TxsFit
  <2>3. RowsInv'
    <3>1. AllFit(kind, db') /\ ops' \in Nat
      BY <2>1 DEF PlaneInv, RowsInv
    <3> QED BY <2>1, <2>2, <3>1, RowsKeep DEF PlaneInv
  <2>4. ErasingInv'
    BY <1>1, <2>1, ErasingStays DEF PlaneInv
  <2>5. ServingInv'
    BY <2>1, ServingStays DEF PlaneInv
  <2>6. AgentsInv' /\ FiniteInv'
    BY <1>1, <2>1, AgentsStay DEF PlaneInv
  <2> QED BY <1>1, <2>1, <2>3, <2>4, <2>5, <2>6 DEF PlaneInv, StepInv
<1>3. ASSUME NEW t \in Threads, Ends(t), UNCHANGED migVars
      PROVE  PlaneInv' /\ AgentsInv'
  <2>1. UNCHANGED <<store, db, tx, pend, fenced, ops, mig, runs, doubled>>
    BY <1>3 DEF Ends, tableVars, migVars
  <2>2. RowsInv'
    <3>1. AllFit(kind, db') /\ ops' \in Nat /\ TxsFit(kind, tx')
      BY <2>1 DEF PlaneInv, RowsInv
    <3> QED BY <2>1, <3>1, RowsKeep DEF PlaneInv
  <2>3. ErasingInv'
    BY <1>1, <2>1, ErasingStays DEF PlaneInv
  <2>4. ServingInv'
    BY <1>3, <2>1, ServingStep DEF PlaneInv
  <2>5. FiniteInv'
    BY <2>1 DEF PlaneInv, FiniteInv, Agents, kind
  <2>6. AgentsInv'
    <3> DEFINE failed == faults > 0
               worse == faults' > 0
    <3>1. Agents' = Agents /\ NewId' = NewId /\ Runs' = Runs /\ Calls' = Calls
      BY <2>1 DEF Agents, kind, NewId, Runs, Calls
    <3>2. failed \in BOOLEAN /\ worse \in BOOLEAN /\ worse = TRUE /\ worse = (faults > 0)'
      BY <1>1
    <3>3. agent' = [agent EXCEPT ![t] = NoRequest]
      BY <1>3 DEF Ends
    <3>4. agent'[t].at = "idle" /\ Others(agent, agent', t)
      BY <3>3, OneRequest DEF PlaneInv, Others, NoRequest
    <3>5. ASSUME Agents
          PROVE  NewId \in Nat /\ AgentsOk(Runs, Calls, agent', doubled, NewId, fenced, worse)
      <4>1. NewId \in Nat /\ AgentsOk(Runs, Calls, agent, doubled, NewId, fenced, failed)
        BY <3>5 DEF AgentsInv
      <4> HIDE DEF failed, worse
      <4>2. AgentsOk(Runs, Calls, agent, doubled, NewId, fenced, worse)
        BY <1>1, <3>2, <4>1, LaterOk
      <4> QED BY <1>1, <3>2, <3>4, <4>1, <4>2, EndOk
    <3> HIDE DEF worse
    <3> QED BY <2>1, <3>1, <3>2, <3>5 DEF AgentsInv
  <2> QED BY <1>1, <2>1, <2>2, <2>3, <2>4, <2>5, <2>6 DEF PlaneInv, StepInv
<1>4. ASSUME Rollback, UNCHANGED agentVars PROVE PlaneInv' /\ AgentsInv'
  <2>1. UNCHANGED <<store, db, tx, fenced, ops, agent, doubled>> /\ mig' = NoRun
    BY <1>4 DEF Rollback, agentVars
  <2>2. RowsInv'
    BY <1>4, RollbackFits DEF PlaneInv
  <2>3. ErasingInv'
    BY <1>1, <2>1, ErasingStays DEF PlaneInv
  <2>4. ServingInv'
    BY <2>1, ServingStays DEF PlaneInv
  <2>5. AgentsInv' /\ FiniteInv'
    BY <1>1, <2>1, AgentsStay DEF PlaneInv
  <2>6. StepInv'
    BY <2>1 DEF StepInv, NoRun
  <2> QED BY <1>1, <2>1, <2>2, <2>3, <2>4, <2>5, <2>6 DEF PlaneInv
<1> QED BY <1>2, <1>3, <1>4 DEF Crash

(* Every step of the plane keeps its invariant.                            *)
LEMMA PlaneStep == PlaneInv /\ AgentsInv /\ [Next]_vars => PlaneInv' /\ AgentsInv'
<1> SUFFICES ASSUME PlaneInv, AgentsInv, [Next]_vars PROVE PlaneInv' /\ AgentsInv'
  OBVIOUS
<1>1. FenceInv'
  BY FenceStep DEF PlaneInv
<1>2. ASSUME NEW t \in Threads, LiveStep(t), UNCHANGED <<migVars, erasureVars, agentVars>>
      PROVE  PlaneInv' /\ AgentsInv'
  BY <1>1, <1>2, PlaneLive
<1>3. ASSUME NEW t \in Threads, AgentStep(t), UNCHANGED <<migVars, erasureVars>>
      PROVE  PlaneInv' /\ AgentsInv'
  BY <1>1, <1>3, PlaneAgent
<1>4. CASE MigrationStep /\ UNCHANGED <<erasureVars, agentVars>>
  BY <1>1, <1>4, PlaneMigration
<1>5. CASE ErasureStep /\ UNCHANGED <<migVars, agentVars>>
  BY <1>1, <1>5, PlaneErasure
<1>6. CASE Crash
  BY <1>1, <1>6, PlaneCrash
<1>7. CASE UNCHANGED vars
  <2>1. UNCHANGED <<store, db, tx, pend, fenced, ops, mig, runs, er, faults, agent, doubled>>
    BY <1>7 DEF vars, tableVars, migVars, erasureVars, agentVars
  <2>2. faults \in Nat /\ fenced \in BOOLEAN
    BY DEF PlaneInv, ErasingInv
  <2>3. RowsInv'
    <3>1. AllFit(kind, db') /\ ops' \in Nat /\ TxsFit(kind, tx')
      BY <2>1 DEF PlaneInv, RowsInv
    <3> QED BY <2>1, <3>1, RowsKeep DEF PlaneInv
  <2>4. ErasingInv'
    BY <2>1, ErasingStays DEF PlaneInv
  <2>5. ServingInv'
    BY <2>1, ServingStays DEF PlaneInv
  <2>6. AgentsInv' /\ FiniteInv'
    BY <2>1, <2>2, AgentsStay DEF PlaneInv
  <2> QED BY <1>1, <2>1, <2>2, <2>3, <2>4, <2>5, <2>6 DEF PlaneInv, StepInv
<1> QED BY <1>2, <1>3, <1>4, <1>5, <1>6, <1>7 DEF Next

-----------------------------------------------------------------------------
(* The plane at its start.                                                 *)
LEMMA TargetsAreOld ==
    ASSUME NEW k, NEW rows \in Targets(k) PROVE rows \subseteq OldRows(k)
BY DEF Targets

OldRun(o, status) ==
    [tab |-> "agent_runs", owner |-> o, id |-> o, key |-> 1, body |-> status, ref |-> {}]
OldCall(o) ==
    [tab |-> "agent_tool_calls", owner |-> o, id |-> o, key |-> 1, body |-> "old", ref |-> {o}]

(* The runs and the calls of the start;                                    *)
LEMMA OldAgentRows ==
    ASSUME NEW k \in {"agents", "local_agents"}
    PROVE  \A r \in OldRows(k) : \E o \in Owners : r = OldRun(o, "old") \/ r = OldCall(o)
<1> DEFINE tables == Kind[k].tables
           OldId(tab, o, key) == IdOf(tables[tab], key, IF key = 1 THEN o ELSE o + Leaver)
           Row(tab, o, key) ==
             [tab |-> tab, owner |-> o, id |-> OldId(tab, o, key), key |-> key, body |-> "old",
              ref |-> {OldId(tables[tab].parent, o, p) : p \in tables[tab].refs}]
           plain == UNION {{Row(tab, o, key) : o \in Owners, key \in tables[tab].keys}
                           : tab \in DOMAIN tables \ {"youtube_sqlite_migration_ledger"}}
<1>1. OldRows(k) = Linked(plain)
  BY DEF OldRows
<1>2. Kind["agents"] = Store(AgentTables, {}, <<>>) /\
          Kind["local_agents"] = Store(LocalAgentTables, {}, <<>>)
  BY KindsAre DEF Shared, Local
<1>3. tables = AgentTables \/ tables = LocalAgentTables
  BY <1>2 DEF Store
<1>4. \A fk : /\ Child({"id"}, "agent_runs", {1}, fk).unique = {"id"}
              /\ Child({"id"}, "agent_runs", {1}, fk).parent = "agent_runs"
              /\ Child({"id"}, "agent_runs", {1}, fk).refs = {1}
              /\ Child({"id"}, "agent_runs", {1}, fk).keys = {1}
  BY DEF Child
<1>5. Plain.refs = {}
  BY DEF Plain, Told
<1>6. /\ DOMAIN tables = {"agent_runs", "agent_tool_calls"}
      /\ tables["agent_runs"] = Plain
      /\ \E fk : tables["agent_tool_calls"] = Child({"id"}, "agent_runs", {1}, fk)
  <2> DEFINE c(fk) == Child({"id"}, "agent_runs", {1}, fk)
  <2> HIDE DEF c
  <2>1. ASSUME NEW fk, tables = [agent_runs |-> Plain, agent_tool_calls |-> c(fk)]
        PROVE  /\ DOMAIN tables = {"agent_runs", "agent_tool_calls"}
               /\ tables["agent_runs"] = Plain /\ tables["agent_tool_calls"] = c(fk)
    <3> HIDE DEF tables
    <3> QED BY <2>1
  <2>2. AgentTables = [agent_runs |-> Plain, agent_tool_calls |-> c(TRUE)]
    BY DEF AgentTables, c
  <2>3. LocalAgentTables = [agent_runs |-> Plain, agent_tool_calls |-> c(FALSE)]
    BY DEF LocalAgentTables, c
  <2> HIDE DEF tables
  <2>4. PICK fk : tables = [agent_runs |-> Plain, agent_tool_calls |-> c(fk)]
    BY <1>3, <2>2, <2>3
  <2> QED BY <2>1, <2>4 DEF c
<1> HIDE DEF tables
<1>7. \A o \in Owners : o \in Nat
  BY LeaverAssumption DEF Owners
<1>8. \A o \in Owners : /\ OldId("agent_runs", o, 1) = o /\ OldId("agent_tool_calls", o, 1) = o
  BY <1>4, <1>6, <1>7, ToldAre DEF IdOf
<1> HIDE DEF OldId
<1>9. ASSUME NEW o \in Owners PROVE Row("agent_runs", o, 1) = OldRun(o, "old")
  BY <1>5, <1>6, <1>8 DEF OldRun
<1>10. ASSUME NEW o \in Owners PROVE Row("agent_tool_calls", o, 1) = OldCall(o)
  <2>1. {OldId(tables["agent_tool_calls"].parent, o, p) : p \in tables["agent_tool_calls"].refs} = {o}
    BY <1>4, <1>6, <1>8
  <2> QED BY <1>8, <2>1 DEF OldCall
<1>11. /\ tables["agent_runs"].keys = {1} /\ tables["agent_tool_calls"].keys = {1}
  BY <1>4, <1>6, ToldAre
<1> HIDE DEF Row
<1>12. \A r \in plain : \E o \in Owners : r = OldRun(o, "old") \/ r = OldCall(o)
  BY <1>6, <1>9, <1>10, <1>11
<1>13. \A r \in plain : r.tab # "kg_memory_entities"
  BY <1>12 DEF OldRun, OldCall
<1> HIDE DEF plain
<1>14. Linked(plain) = plain
  BY <1>13 DEF Linked
<1> QED BY <1>1, <1>12, <1>14

(* one of the leaver's runs may wait for its approval then.                *)
LEMMA AwaitingAre ==
    ASSUME NEW k \in {"agents", "local_agents"}, NEW rows \in SUBSET OldRows(k)
    PROVE  Awaiting(rows) \subseteq {OldRun(1, "old"), OldCall(1), OldRun(Leaver, "awaiting_approval")}
<1>1. \A r \in rows : r.owner # Leaver => r = OldRun(1, "old") \/ r = OldCall(1)
  BY OldAgentRows DEF OldRun, OldCall, Owners
<1>2. \A r \in rows : r.owner = Leaver /\ r.tab = "agent_runs" => r = OldRun(Leaver, "old")
  BY OldAgentRows DEF OldRun, OldCall, Owners
<1>3. [OldRun(Leaver, "old") EXCEPT !.body = "awaiting_approval"] = OldRun(Leaver, "awaiting_approval")
  BY DEF OldRun
<1>4. WithStatus({r \in rows : r.owner = Leaver /\ r.tab = "agent_runs"}, "awaiting_approval")
         \subseteq {OldRun(Leaver, "awaiting_approval")}
  BY <1>2, <1>3 DEF WithStatus
<1> QED BY <1>1, <1>4 DEF Awaiting

(* The invariant of the agents at the start,                               *)
LEMMA FirstAgents ==
    ASSUME Agents, ops = 0, db \subseteq {OldRun(1, "old"), OldCall(1), OldRun(Leaver,
               "awaiting_approval")},
           agent = [t \in Threads |-> NoRequest]
    PROVE  NewId \in Nat /\ AgentsOk(Runs, Calls, agent, {}, NewId, FALSE, FALSE) /\ IsFiniteSet(db)
<1>1. Leaver \in Nat /\ Leaver > 1
  BY LeaverAssumption
<1>2. NewId \in Nat /\ NewId = 100 + Leaver + 0
  BY <1>1 DEF NewId
<1>3. Runs \subseteq {OldRun(1, "old"), OldRun(Leaver, "awaiting_approval")} /\ Calls
          \subseteq {OldCall(1)}
  BY DEF Runs, Calls, OldRun, OldCall
<1>4. IsFiniteSet(db) /\ IsFiniteSet(Calls)
  <2>1. IsFiniteSet({OldRun(1, "old"), OldCall(1), OldRun(Leaver, "awaiting_approval")})
    <3> DEFINE a == OldRun(1, "old")
               b == OldCall(1)
               c == OldRun(Leaver, "awaiting_approval")
    <3> HIDE DEF a, b, c
    <3>1. IsFiniteSet({a})
      BY FS_Singleton
    <3>2. IsFiniteSet({a} \cup {b})
      BY <3>1, FS_AddElement
    <3>3. IsFiniteSet(({a} \cup {b}) \cup {c})
      BY <3>2, FS_AddElement
    <3>4. {a, b, c} = ({a} \cup {b}) \cup {c}
      OBVIOUS
    <3> QED BY <3>3, <3>4 DEF a, b, c
  <2> QED BY <2>1, FS_Subset DEF Calls
<1>5. Cardinality(Calls) \in Nat
  BY <1>4, FS_CardinalityType
<1>6. \A o, status : /\ IsRow(OldRun(o, status)) /\ OldRun(o, status).id = o
                     /\ OldRun(o, status).owner = o /\ OldRun(o, status).body = status
  BY DEF OldRun, IsRow
<1>7. IsRow(OldCall(1)) /\ OldCall(1).id = 1 /\ OldCall(1).ref = {1}
  BY DEF OldCall, IsRow
<1>8. RunsOk(Runs, Calls, NewId)
  <2>1. \A r \in Runs : IsRow(r) /\ r.id \in Nat /\ r.id < NewId
    BY <1>1, <1>2, <1>3, <1>6
  <2>2. \A r, s \in Runs : r.id = s.id => r = s
    BY <1>1, <1>3, <1>6
  <2>3. ASSUME NEW r \in Runs, r.body = "awaiting_approval", NEW c \in Calls PROVE r.id \notin c.ref
    <3>1. r.id = Leaver /\ c.ref = {1}
      BY <1>3, <1>6, <1>7, <2>3
    <3> QED BY <1>1, <3>1
  <2> QED BY <2>1, <2>2, <2>3 DEF RunsOk
<1>9. CallsOk(Calls, NewId, {}, FALSE)
  <2>1. \A c \in Calls : IsRow(c) /\ c.id = 1 /\ c.ref = {1} /\ c = OldCall(1)
    BY <1>3, <1>7
  <2>2. 1 < 200 + Cardinality(Calls)
    BY <1>5
  <2> QED BY <1>1, <1>2, <1>4, <2>1, <2>2 DEF CallsOk
<1>10. \A t \in Threads : agent[t].at = "idle"
  BY DEF NoRequest
<1>11. RequestsOk(Runs, Calls, agent, {}, NewId, FALSE)
  BY <1>10 DEF RequestsOk, Serving
<1>12. TruthOk(Runs, Calls, agent, {}, FALSE, FALSE)
  <2>1. \A r \in Runs : r.owner = Leaver => r.body = "awaiting_approval"
    BY <1>1, <1>3, <1>6
  <2> QED BY <2>1 DEF TruthOk
<1> QED BY <1>2, <1>4, <1>8, <1>9, <1>11, <1>12 DEF AgentsOk

(* and that of the plane.                                                  *)
LEMMA PlaneInit == Init => PlaneInv /\ AgentsInv
<1> SUFFICES ASSUME Init PROVE PlaneInv /\ AgentsInv
  OBVIOUS
<1>0. PICK k \in DOMAIN Kind : \E rows \in Targets(k) :
         TablesInit(k, IF k \in {"agents", "local_agents"} THEN Awaiting(rows) ELSE rows)
  BY DEF Init
<1>1. PICK rows \in Targets(k) :
         TablesInit(k, IF k \in {"agents", "local_agents"} THEN Awaiting(rows) ELSE rows)
  BY <1>0
<1>2. kind = k /\ store.tables = Kind[k].tables
  BY <1>1 DEF TablesInit, kind
<1>3. /\ db = (IF k \in {"agents", "local_agents"} THEN Awaiting(rows) ELSE rows)
      /\ tx = [t \in Threads |-> Idle] /\ pend = {} /\ fenced = FALSE /\ ops = 0
  BY <1>1 DEF TablesInit
<1>4. mig = NoRun /\ runs = 0 /\ faults = 0 /\ er = [at |-> 0, errors |-> FALSE, done |-> FALSE]
  BY DEF Init, MigrationInit, ErasureInit
<1>5. agent = [t \in Threads |-> NoRequest] /\ doubled = {}
  BY DEF Init, AgentInit
<1>6. rows \subseteq OldRows(k) /\ AllFit(k, rows)
  BY <1>1, TargetsAreOld, OldRowsFit DEF AllFit
<1>7. AllFit(k, db)
  <2>1. ASSUME NEW r \in Awaiting(rows) PROVE Fits(k, r)
    <3>1. CASE r \in rows
      BY <1>6, <3>1 DEF AllFit
    <3>2. CASE \E q \in rows : r = [q EXCEPT !.body = "awaiting_approval"]
      BY <1>6, <3>2, BodyFits DEF AllFit
    <3> QED BY <2>1, <3>1, <3>2 DEF Awaiting, WithStatus
  <2> QED BY <1>3, <1>6, <2>1 DEF AllFit
<1>8. FenceInv
  BY <1>3, <1>4 DEF FenceInv, NoRun, IsMigration
<1>9. RowsInv
  <2>1. \A t \in Threads : TxFits(kind, tx[t])
    BY <1>3, IdleFits
  <2>2. DOMAIN tx = Threads
    BY <1>3
  <2>3. mig.at = "none" /\ mig.left = {}
    BY <1>4 DEF NoRun
  <2> QED BY <1>1, <1>2, <1>3, <1>4, <1>7, <2>1, <2>2, <2>3 DEF RowsInv, TxsFit, AllFit
<1>10. StepInv /\ fenced \in BOOLEAN
  BY <1>3, <1>4 DEF StepInv, NoRun
<1>11. ErasingInv
  BY <1>4, LastIs DEF ErasingInv
<1>12. ServingInv
  BY <1>5 DEF ServingInv, IsRequest, NoRequest
<1>13. ASSUME Agents
       PROVE  NewId \in Nat /\ AgentsOk(Runs, Calls, agent, {}, NewId, FALSE, FALSE) /\ IsFiniteSet(db)
  <2>1. k \in {"agents", "local_agents"}
    BY <1>2, <1>13 DEF Agents
  <2>2. db = Awaiting(rows)
    BY <1>3, <2>1
  <2> QED BY <1>3, <1>5, <1>6, <1>13, <2>1, <2>2, AwaitingAre, FirstAgents
<1>14. FiniteInv
  BY <1>13 DEF FiniteInv
<1>15. AgentsInv
  <2>1. (faults > 0) = FALSE
    BY <1>4
  <2> QED BY <1>3, <1>5, <1>13, <2>1 DEF AgentsInv
<1> QED BY <1>8, <1>9, <1>10, <1>11, <1>12, <1>14, <1>15 DEF PlaneInv

(* The plane has its invariant throughout.                                 *)
LEMMA PlaneHolds == Spec => [](PlaneInv /\ AgentsInv)
BY PlaneInit, PlaneStep, PTL DEF Spec

-----------------------------------------------------------------------------
(* Whatever is asked of it and whenever it fails, the erasure of an        *)
(* account takes no row of a neighbour.                                    *)
LEMMA StepIsExact ==
    ASSUME PlaneInv, [Next]_vars
    PROVE  [/\ LeaverOnlyGoes
            /\ er' # er => {r \in db : r.owner # Leaver} \subseteq db']_vars
<1>1. [LeaverOnlyGoes]_vars
  BY FenceStep DEF PlaneInv
<1>2. ASSUME er' # er PROVE {r \in db : r.owner # Leaver} \subseteq db'
  <2>1. ErasureStep
    BY <1>2 DEF Next, Crash, erasureVars, vars
  <2> QED BY <2>1, NeighboursStay DEF PlaneInv
<1> QED BY <1>1, <1>2

(* From the fence on a leaver's rows are only removed, and no step of the  *)
(* erasure removes a row of a neighbour.                                   *)
THEOREM ErasureExact == Spec => ErasureIsExact
<1>1. PlaneInv /\ [Next]_vars =>
         [/\ LeaverOnlyGoes
          /\ er' # er => {r \in db : r.owner # Leaver} \subseteq db']_vars
  BY StepIsExact
<1> QED BY <1>1, PlaneHolds, PTL DEF Spec, ErasureIsExact

(* The tool of a run is called once, however many threads are asked for    *)
(* it, but for approvals that overlap.                                     *)
THEOREM CalledOnce == Spec => []OneCallPerRun
<1>1. ASSUME PlaneInv, AgentsInv PROVE OneCallPerRun
  <2> SUFFICES ASSUME NEW r \in Runs, r.id \notin doubled
               PROVE  Cardinality({c \in Calls : r.id \in c.ref}) <= 1
    BY DEF OneCallPerRun
  <2> DEFINE S == {c \in Calls : r.id \in c.ref}
  <2>1. Agents
    BY <1>1, AgentTablesAre DEF PlaneInv
  <2>2. CallsOk(Calls, NewId, doubled, fenced)
    BY <1>1, <2>1 DEF AgentsInv, AgentsOk
  <2>3. \A c, d \in S : c = d
    BY <2>2 DEF CallsOk
  <2> HIDE DEF S
  <2>4. Cardinality(S) = 0 \/ Cardinality(S) = 1
    <3>1. CASE S = {}
      BY <3>1, FS_EmptySet
    <3>2. CASE S # {}
      <4>1. PICK c : S = {c}
        BY <2>3, <3>2
      <4> QED BY <4>1, FS_Singleton
    <3> QED BY <3>1, <3>2
  <2> QED BY <2>4 DEF S
<1> QED BY <1>1, PlaneHolds, PTL

(* What a run says of its end its call says, too, and what says it runs is *)
(* served, unless something failed or the account is fenced.               *)
THEOREM RunsTruthful == Spec => []RunsTellTheTruth
<1>1. ASSUME PlaneInv, AgentsInv PROVE RunsTellTheTruth
  <2>1. ASSUME NEW r \in Runs PROVE TruthOk(Runs, Calls, agent, doubled, fenced, faults > 0)
    <3>1. Agents
      BY <1>1, <2>1, AgentTablesAre DEF PlaneInv
    <3> QED BY <1>1, <3>1 DEF AgentsInv, AgentsOk
  <2>2. ASSUME NEW status \in {"completed", "failed"}, NEW r \in RunsWith(status)
        PROVE  r.id \in doubled \/ \E c \in Calls : c.ref = {r.id} /\ c.body = status
    BY <2>1, <2>2 DEF TruthOk, RunsWith
  <2>3. ASSUME NEW r \in RunsWith("running")
        PROVE  faults > 0 \/ fenced \/ \E t \in Threads : Serves(t, r.id)
    BY <2>1, <2>3 DEF TruthOk, RunsWith, Serves, Serving
  <2> QED BY <2>2, <2>3 DEF RunsTellTheTruth
<1> QED BY <1>1, PlaneHolds, PTL

-----------------------------------------------------------------------------
(* The erasure passes over no table of the stores it serves.               *)
Erasable == UNION {Steps[n] : n \in 1..Last}
Listed(k) ==
    DOMAIN Kind[k].tables
        \subseteq Erasable \cup Unlisted \cup (IF k = "memories" THEN MemoryChildren ELSE {})

(* The steps of the erasure one by one,                                    *)
LEMMA StepsAre ==
    /\ Steps[1] = SessionsErased
    /\ Steps[2] = AgentsErased
    /\ Steps[3] = TokensErased
    /\ Steps[4] = ImportsErased
    /\ Steps[5] = CapturesErased
    /\ Steps[6] = {"memory_records"}
    /\ Steps[7] = FeedbackErased
    /\ Steps[8] = UsageErased
    /\ Steps[9] = BusErased
    /\ Steps[10] = GraphErased
    /\ Steps[11] = IntelligenceErased
    /\ Steps[12] = HomeErased
    /\ Steps[13] = VectorsErased
    /\ Steps[14] = Residuals
<1>1. Steps[1] = SessionsErased
  BY DEF Steps
<1>2. Steps[2] = AgentsErased
  BY DEF Steps
<1>3. Steps[3] = TokensErased
  BY DEF Steps
<1>4. Steps[4] = ImportsErased
  BY DEF Steps
<1>5. Steps[5] = CapturesErased
  BY DEF Steps
<1>6. Steps[6] = {"memory_records"}
  BY DEF Steps
<1>7. Steps[7] = FeedbackErased
  BY DEF Steps
<1>8. Steps[8] = UsageErased
  BY DEF Steps
<1>9. Steps[9] = BusErased
  BY DEF Steps
<1>10. Steps[10] = GraphErased
  BY DEF Steps
<1>11. Steps[11] = IntelligenceErased
  BY DEF Steps
<1>12. Steps[12] = HomeErased
  BY DEF Steps
<1>13. Steps[13] = VectorsErased
  BY DEF Steps
<1>14. Steps[14] = Residuals
  BY DEF Steps
<1> QED BY <1>1, <1>2, <1>3, <1>4, <1>5, <1>6, <1>7, <1>8, <1>9, <1>10, <1>11, <1>12, <1>13, <1>14

(* each of which erases its tables.                                        *)
LEMMA StepsErase ==
    /\ SessionsErased \subseteq Erasable
    /\ AgentsErased \subseteq Erasable
    /\ TokensErased \subseteq Erasable
    /\ ImportsErased \subseteq Erasable
    /\ CapturesErased \subseteq Erasable
    /\ {"memory_records"} \subseteq Erasable
    /\ FeedbackErased \subseteq Erasable
    /\ UsageErased \subseteq Erasable
    /\ BusErased \subseteq Erasable
    /\ GraphErased \subseteq Erasable
    /\ IntelligenceErased \subseteq Erasable
    /\ HomeErased \subseteq Erasable
    /\ VectorsErased \subseteq Erasable
    /\ Residuals \subseteq Erasable
    /\ Steps[Memories] = {"memory_records"}
<1>1. \A n \in 1..14 : Steps[n] \subseteq Erasable
  BY LastIs DEF Erasable
<1>2. \A n \in {1, 2, 3, 4, 5, 6, 7, 8, 9, 10, 11, 12, 13, 14} : Steps[n] \subseteq Erasable
  BY <1>1
<1> QED BY StepsAre, <1>2 DEF Memories

(* No table of a store of the Postgres driver is passed over.              *)
LEMMA SharedListed == \A k \in DOMAIN Shared : Listed(k)
<1> SUFFICES ASSUME NEW k \in DOMAIN Shared PROVE Listed(k)
  OBVIOUS
<1>1. CASE k = "bookmarks"
  <2>1. Kind[k] = Shared[k] /\ Shared[k].tables = BookmarkTables
    BY <1>1, KindsAre DEF Shared, Local, Store
  <2>2. DOMAIN BookmarkTables = {"browser_bookmarks"}
    BY DEF BookmarkTables
  <2> QED BY <1>1, <2>1, <2>2, StepsErase DEF Listed, Residuals
<1>2. CASE k = "captures"
  <2>1. Kind[k] = Shared[k] /\ Shared[k].tables = CaptureTables
    BY <1>2, KindsAre DEF Shared, Local, Store
  <2>2. DOMAIN CaptureTables = {"captures"}
    BY DEF CaptureTables
  <2> QED BY <1>2, <2>1, <2>2, StepsErase DEF Listed, CapturesErased
<1>3. CASE k = "capsules"
  <2>1. Kind[k] = Shared[k] /\ Shared[k].tables = CapsuleTables
    BY <1>3, KindsAre DEF Shared, Local, Store
  <2>2. DOMAIN CapsuleTables = {"concept_capsules"}
    BY DEF CapsuleTables
  <2> QED BY <1>3, <2>1, <2>2, StepsErase DEF Listed, IntelligenceErased
<1>4. CASE k = "creators"
  <2>1. Kind[k] = Shared[k] /\ Shared[k].tables = CreatorTables
    BY <1>4, KindsAre DEF Shared, Local, Store
  <2>2. DOMAIN CreatorTables = {"creator_profiles"}
    BY DEF CreatorTables
  <2> QED BY <1>4, <2>1, <2>2, StepsErase DEF Listed, IntelligenceErased
<1>5. CASE k = "edges"
  <2>1. Kind[k] = Shared[k] /\ Shared[k].tables = EdgeTables
    BY <1>5, KindsAre DEF Shared, Local, Store
  <2>2. DOMAIN EdgeTables = {"learning_edges"}
    BY DEF EdgeTables
  <2> QED BY <1>5, <2>1, <2>2, StepsErase DEF Listed, IntelligenceErased
<1>6. CASE k = "urls"
  <2>1. Kind[k] = Shared[k] /\ Shared[k].tables = UrlTables
    BY <1>6, KindsAre DEF Shared, Local, Store
  <2>2. DOMAIN UrlTables = {"content_url_index"}
    BY DEF UrlTables
  <2> QED BY <1>6, <2>1, <2>2, StepsErase DEF Listed, Residuals
<1>7. CASE k = "fts"
  <2>1. Kind[k] = Shared[k] /\ Shared[k].tables = FtsTables
    BY <1>7, KindsAre DEF Shared, Local, Store
  <2>2. DOMAIN FtsTables = {"memory_fts_documents"}
    BY DEF FtsTables
  <2> QED BY <1>7, <2>1, <2>2, StepsErase DEF Listed, Residuals
<1>8. CASE k = "imports"
  <2>1. Kind[k] = Shared[k] /\ Shared[k].tables = ImportTables
    BY <1>8, KindsAre DEF Shared, Local, Store
  <2>2. DOMAIN ImportTables = {"import_runs", "import_run_items"}
    BY DEF ImportTables
  <2> QED BY <1>8, <2>1, <2>2, StepsErase DEF Listed, ImportsErased
<1>9. CASE k = "artifacts"
  <2>1. Kind[k] = Shared[k] /\ Shared[k].tables = ArtifactTables
    BY <1>9, KindsAre DEF Shared, Local, Store
  <2>2. DOMAIN ArtifactTables = {"transcript_hash", "capsule_json"}
    BY DEF ArtifactTables
  <2> QED BY <1>9, <2>1, <2>2, StepsErase DEF Listed, Residuals
<1>10. CASE k = "reviews"
  <2>1. Kind[k] = Shared[k] /\ Shared[k].tables = ReviewTables
    BY <1>10, KindsAre DEF Shared, Local, Store
  <2>2. DOMAIN ReviewTables = {"video_registry", "memory_review_schedule"}
    BY DEF ReviewTables
  <2> QED BY <1>10, <2>1, <2>2, StepsErase DEF Listed, Residuals
<1>11. CASE k = "events"
  <2>1. Kind[k] = Shared[k] /\ Shared[k].tables = EventTables
    BY <1>11, KindsAre DEF Shared, Local, Store
  <2>2. DOMAIN EventTables = {"intelligence_events"}
    BY DEF EventTables
  <2> QED BY <1>11, <2>1, <2>2, StepsErase DEF Listed, IntelligenceErased
<1>12. CASE k = "graph"
  <2>1. Kind[k] = Shared[k] /\ Shared[k].tables = GraphTables
    BY <1>12, KindsAre DEF Shared, Local, Store
  <2>2. DOMAIN GraphTables = {"kg_entities", "kg_relations", "kg_memory_entities"}
    BY DEF GraphTables
  <2> QED BY <1>12, <2>1, <2>2, StepsErase DEF Listed, GraphErased
<1>13. CASE k = "topics"
  <2>1. Kind[k] = Shared[k] /\ Shared[k].tables = TopicTables
    BY <1>13, KindsAre DEF Shared, Local, Store
  <2>2. DOMAIN TopicTables = {"topic_profiles", "topic_memory_links"}
    BY DEF TopicTables
  <2> QED BY <1>13, <2>1, <2>2, StepsErase DEF Listed, Residuals
<1>14. CASE k = "videos"
  <2>1. Kind[k] = Shared[k] /\ Shared[k].tables = VideoTables
    BY <1>14, KindsAre DEF Shared, Local, Store
  <2>2. DOMAIN VideoTables = {"video_registry", "video_reflection"}
    BY DEF VideoTables
  <2> QED BY <1>14, <2>1, <2>2, StepsErase DEF Listed, Residuals
<1>15. CASE k = "youtube"
  <2>1. Kind[k] = Shared[k] /\ Shared[k].tables = YouTubeTables
    BY <1>15, KindsAre DEF Shared, Local, Store
  <2>2. DOMAIN YouTubeTables = {"youtube_memories", "youtube_pipeline_runs",
            "youtube_sqlite_migration_ledger", "youtube_retry_queue"}
    BY DEF YouTubeTables
  <2> QED BY <1>15, <2>1, <2>2, StepsErase DEF Listed, Residuals, Unlisted
<1>16. CASE k = "metrics"
  <2>1. Kind[k] = Shared[k] /\ Shared[k].tables = MetricTables
    BY <1>16, KindsAre DEF Shared, Local, Store
  <2>2. DOMAIN MetricTables = {"youtube_connector_metrics"}
    BY DEF MetricTables
  <2> QED BY <1>16, <2>1, <2>2, StepsErase DEF Listed, Residuals
<1>17. CASE k = "memories"
  <2>1. Kind[k] = Shared[k] /\ Shared[k].tables = MemoryTables
    BY <1>17, KindsAre DEF Shared, Local, Store
  <2>2. DOMAIN MemoryTables = {"memory_records", "memory_lifecycle_events", "memory_versions",
            "memory_trust_history"}
    BY DEF MemoryTables
  <2> QED BY <1>17, <2>1, <2>2, StepsErase DEF Listed, MemoryChildren
<1>18. CASE k = "accounts"
  <2>1. Kind[k] = Shared[k] /\ Shared[k].tables = AccountTables
    BY <1>18, KindsAre DEF Shared, Local, Store
  <2>2. DOMAIN AccountTables = {"users", "sessions"}
    BY DEF AccountTables
  <2> QED BY <1>18, <2>1, <2>2, StepsErase DEF Listed, Residuals, SessionsErased
<1>19. CASE k = "tokens"
  <2>1. Kind[k] = Shared[k] /\ Shared[k].tables = TokenTables
    BY <1>19, KindsAre DEF Shared, Local, Store
  <2>2. DOMAIN TokenTables = {"connector_oauth_tokens"}
    BY DEF TokenTables
  <2> QED BY <1>19, <2>1, <2>2, StepsErase DEF Listed, TokensErased
<1>20. CASE k = "bus"
  <2>1. Kind[k] = Shared[k] /\ Shared[k].tables = BusTables
    BY <1>20, KindsAre DEF Shared, Local, Store
  <2>2. DOMAIN BusTables = {"webhook_subscriptions", "memory_events"}
    BY DEF BusTables
  <2> QED BY <1>20, <2>1, <2>2, StepsErase DEF Listed, BusErased
<1>21. CASE k = "feedback"
  <2>1. Kind[k] = Shared[k] /\ Shared[k].tables = FeedbackTables
    BY <1>21, KindsAre DEF Shared, Local, Store
  <2>2. DOMAIN FeedbackTables = {"answer_interactions", "answer_feedback",
            "feedback_credit_ledger", "output_preferences"}
    BY DEF FeedbackTables
  <2> QED BY <1>21, <2>1, <2>2, StepsErase DEF Listed, FeedbackErased
<1>22. CASE k = "usage"
  <2>1. Kind[k] = Shared[k] /\ Shared[k].tables = UsageTables
    BY <1>22, KindsAre DEF Shared, Local, Store
  <2>2. DOMAIN UsageTables = {"model_route_usage"}
    BY DEF UsageTables
  <2> QED BY <1>22, <2>1, <2>2, StepsErase DEF Listed, UsageErased
<1>23. CASE k = "home"
  <2>1. Kind[k] = Shared[k] /\ Shared[k].tables = HomeTables
    BY <1>23, KindsAre DEF Shared, Local, Store
  <2>2. DOMAIN HomeTables = {"home_object_sightings", "home_presence_events"}
    BY DEF HomeTables
  <2> QED BY <1>23, <2>1, <2>2, StepsErase DEF Listed, HomeErased, Unlisted
<1>24. CASE k = "images"
  <2>1. Kind[k] = Shared[k] /\ Shared[k].tables = ImageTables
    BY <1>24, KindsAre DEF Shared, Local, Store
  <2>2. DOMAIN ImageTables = {"home_image_evidence", "home_physical_objects",
            "home_object_sightings", "home_image_observations"}
    BY DEF ImageTables
  <2> QED BY <1>24, <2>1, <2>2, StepsErase DEF Listed, HomeErased
<1>25. CASE k = "rules"
  <2>1. Kind[k] = Shared[k] /\ Shared[k].tables = RuleTables
    BY <1>25, KindsAre DEF Shared, Local, Store
  <2>2. DOMAIN RuleTables = {"ingest_agent_rules", "ingest_agent_claims"}
    BY DEF RuleTables
  <2> QED BY <1>25, <2>1, <2>2, StepsErase DEF Listed, Residuals
<1>26. CASE k = "answers"
  <2>1. Kind[k] = Shared[k] /\ Shared[k].tables = AnswerTables
    BY <1>26, KindsAre DEF Shared, Local, Store
  <2>2. DOMAIN AnswerTables = {"semantic_cache"}
    BY DEF AnswerTables
  <2> QED BY <1>26, <2>1, <2>2, StepsErase DEF Listed, Residuals
<1>27. CASE k = "vectors"
  <2>1. Kind[k] = Shared[k] /\ Shared[k].tables = VectorTables
    BY <1>27, KindsAre DEF Shared, Local, Store
  <2>2. DOMAIN VectorTables = {"vectors"}
    BY DEF VectorTables
  <2> QED BY <1>27, <2>1, <2>2, StepsErase DEF Listed, VectorsErased
<1>28. CASE k = "agents"
  <2>1. Kind[k] = Shared[k] /\ Shared[k].tables = AgentTables
    BY <1>28, KindsAre DEF Shared, Local, Store
  <2>2. DOMAIN AgentTables = {"agent_runs", "agent_tool_calls"}
    BY DEF AgentTables
  <2> QED BY <1>28, <2>1, <2>2, StepsErase DEF Listed, AgentsErased
<1> QED BY <1>1, <1>2, <1>3, <1>4, <1>5, <1>6, <1>7, <1>8, <1>9, <1>10, <1>11, <1>12, <1>13, <1>14,
           <1>15, <1>16, <1>17, <1>18, <1>19, <1>20, <1>21, <1>22, <1>23, <1>24, <1>25, <1>26,
                    <1>27, <1>28 DEF Shared

-----------------------------------------------------------------------------
(* The leaver's rows about a memory have their memory, which their foreign *)
(* key asks for: what belongs to a memory goes with it.  A transaction     *)
(* that is to write such a row has seen the memory, or writes it as well.  *)
Parented(rows) ==
    \A c \in rows : c.owner = Leaver /\ c.tab \in MemoryChildren =>
        \E p \in rows : p.owner = Leaver /\ p.tab = "memory_records" /\ p.id \in c.ref
Rooting(x) ==
    x # Idle => \A tab \in DOMAIN x.write \cap MemoryChildren :
        "memory_records" \in DOMAIN x.write \/ \E p \in x.seen : p.tab = "memory_records"
ParentInv == kind = "memories" => Parented(db) /\ \A t \in Threads : Rooting(tx[t])

(* The writes of a memory's store.                                         *)
LEMMA MemoryWritesAre ==
    \A w \in MemoryWrites : /\ ~Merges(w) /\ DOMAIN w \subseteq {"memory_records"} \cup MemoryChildren
                            /\ \A tab \in DOMAIN w : w[tab] # "replace"
                            /\ Drops(w) => DOMAIN w = {"memory_records"}
<1>1. \A w \in MemoryWrites : DOMAIN w \subseteq {"memory_records"} \cup MemoryChildren
  BY
     DEF MemoryWrites, UpsertMemory, UpdateLifecycle, AddVersion, AppendTrust, DeleteMemory,
         MemoryChildren
<1>2. \A w \in MemoryWrites : \A tab \in DOMAIN w : w[tab] # "replace"
  BY DEF MemoryWrites, UpsertMemory, UpdateLifecycle, AddVersion, AppendTrust, DeleteMemory
<1>3. \A w \in MemoryWrites : Drops(w) => DOMAIN w = {"memory_records"}
  BY DEF MemoryWrites, UpsertMemory, UpdateLifecycle, AddVersion, AppendTrust, DeleteMemory, Drops
<1>4. \A w \in MemoryWrites : ~Merges(w)
  BY <1>1 DEF Merges, MemoryChildren
<1> QED BY <1>1, <1>2, <1>3, <1>4

(* It serves no agents and is not migrated.                                *)
LEMMA MemoriesPlain ==
    ASSUME RowsInv, kind = "memories"
    PROVE  /\ ~Agents /\ ~MigrationStep /\ mig.at = "none"
           /\ \A t \in Threads : ~MergeReads(t) /\ ~MergeWrites(t) /\ ~LocalMergeWrites(t)
<1>1. Kind[kind].writes = MemoryWrites /\ Script = <<>>
  BY MemoriesAre DEF Script
<1>2. mig.at = "none"
  BY <1>1 DEF RowsInv
<1>3. ~StartMigration
  BY <1>1 DEF StartMigration
<1>4. ~MigrationStep
  BY <1>2, <1>3
     DEF MigrationStep, LockOwner, NextStatement, SetSequence, FinishMigration, Finishing,
     Check, Insert, InsertItem, InsertOnce, InsertReview, Parity, Turn
<1>5. ASSUME NEW t \in Threads PROVE ~MergeReads(t) /\ ~MergeWrites(t) /\ ~LocalMergeWrites(t)
  <2>1. ~MergeReads(t)
    BY <1>1, MemoryWritesAre DEF MergeReads
  <2>2. Open(t) => ~Merges(tx[t].write)
    BY <1>1, OpenFits, MemoryWritesAre
  <2> QED BY <2>1, <2>2, MergesAre DEF MergeWrites, LocalMergeWrites
<1> QED BY <1>2, <1>4, <1>5 DEF Agents

(* A deletion takes along the children of what it deletes.                 *)
LEMMA CascadesKeep ==
    ASSUME RowsInv, ParentInv, kind = "memories", NEW rows \in SUBSET db, rows \subseteq db,
           NEW left, left = db \ (rows \cup ChildrenOf(rows, db))
    PROVE  Parented(left)
<1>1. SUFFICES ASSUME NEW c \in left, c.owner = Leaver, c.tab \in MemoryChildren
               PROVE  \E p \in left : p.owner = Leaver /\ p.tab = "memory_records" /\ p.id \in c.ref
  BY DEF Parented
<1>2. PICK p \in db : p.owner = Leaver /\ p.tab = "memory_records" /\ p.id \in c.ref
  BY <1>1 DEF ParentInv, Parented
<1>3. /\ Table(c.tab).fk /\ Table(c.tab).parent = "memory_records"
      /\ Table("memory_records").fk = FALSE
  BY <1>1, MemoriesAre, TableIs
<1>4. p \notin rows
  BY <1>1, <1>2, <1>3 DEF ChildrenOf
<1>5. p \notin ChildrenOf(rows, db)
  BY <1>2, <1>3 DEF ChildrenOf
<1> QED BY <1>2, <1>4, <1>5

(* A write that crosses a table still has its memory.                      *)
LEMMA CrossedRoots ==
    ASSUME NEW x, Rooting(x), x # Idle, NEW c,
           x = [write |-> x.write, key |-> x.key, id |-> x.id, seen |-> x.seen, crossed |-> x.crossed]
    PROVE  Rooting([x EXCEPT !.crossed = c])
<1> DEFINE y == [x EXCEPT !.crossed = c]
<1>1. y.write = x.write /\ y.seen = x.seen
  OBVIOUS
<1> HIDE DEF y
<1> QED BY <1>1 DEF Rooting

(* Rows with their memories may be committed.                              *)
LEMMA CommittedRoots ==
    ASSUME RowsInv, ParentInv, kind = "memories", NEW t \in Threads, NEW rows, Committed(t, rows),
               Parented(rows)
    PROVE  ParentInv'
<1>1. /\ db' = rows /\ store' = store
      /\ tx' = [u \in Threads |-> IF u = t \/ ~Open(u) THEN Idle
                                  ELSE [tx[u] EXCEPT !.crossed = tx[u].crossed \/ rows # db]]
  BY DEF Committed
<1>2. ASSUME NEW u \in Threads PROVE Rooting(tx'[u])
  <2>1. TxFits(kind, tx[u]) /\ Rooting(tx[u])
    BY DEF RowsInv, TxsFit, ParentInv
  <2>2. CASE u = t \/ ~Open(u)
    BY <1>1, <2>2 DEF Rooting
  <2>3. CASE u # t /\ Open(u)
    <3>1. tx'[u] = [tx[u] EXCEPT !.crossed = tx[u].crossed \/ rows # db]
      BY <1>1, <2>3
    <3> QED BY <2>1, <2>3, <3>1, CrossedRoots DEF TxFits, Open
  <2> QED BY <2>2, <2>3
<1> QED BY <1>1, <1>2 DEF ParentInv

(* A write that begins has seen the memory it is about,                    *)
LEMMA BeginRoots ==
    ASSUME RowsInv, ParentInv, kind = "memories", NEW t \in Threads, Begin(t)
    PROVE  ParentInv'
<1>0. Kind[kind].writes = MemoryWrites
  BY MemoriesAre
<1>1. PICK w \in Kind[kind].writes : \E key \in UNION {Table(tab).keys : tab \in DOMAIN w} :
         /\ Owned(w)
         /\ tx' = [tx EXCEPT ![t] = [write |-> w, key |-> key,
                                     id |-> IF kind = "events" THEN seq ELSE NewId,
                                     seen |-> Sees(DOMAIN w, key), crossed |-> FALSE]]
  BY DEF Begin
<1>2. PICK key : /\ Owned(w)
                 /\ tx' = [tx EXCEPT ![t] = [write |-> w, key |-> key,
                                             id |-> IF kind = "events" THEN seq ELSE NewId,
                                             seen |-> Sees(DOMAIN w, key), crossed |-> FALSE]]
  BY <1>1
<1> DEFINE x == [write |-> w, key |-> key, id |-> IF kind = "events" THEN seq ELSE NewId,
                 seen |-> Sees(DOMAIN w, key), crossed |-> FALSE]
<1>3. Rooting(x)
  <2>1. SUFFICES ASSUME NEW tab \in DOMAIN w \cap MemoryChildren, "memory_records" \notin DOMAIN w
                 PROVE  \E p \in Sees(DOMAIN w, key) : p.tab = "memory_records"
    BY DEF Rooting
  <2>2. Table(tab).parent = "memory_records" /\ Table(tab).refs = {1}
    BY MemoriesAre, TableIs
  <2>3. {p.key : p \in Parents(tab)} = {1}
    BY <1>2, <2>1, <2>2 DEF Owned
  <2>4. PICK p \in Parents(tab) : p.key = 1
    BY <2>3
  <2>5. p.tab = "memory_records"
    BY <2>2 DEF Parents, Rows
  <2>6. p \in Sees(DOMAIN w, key)
    BY DEF Sees
  <2> QED BY <2>5, <2>6
<1>4. tx' = [tx EXCEPT ![t] = x]
  BY <1>2
<1> HIDE DEF x
<1>5. \A u \in Threads : Rooting(tx'[u])
  <2>1. DOMAIN tx = Threads /\ \A u \in Threads : Rooting(tx[u])
    BY DEF RowsInv, TxsFit, ParentInv
  <2>2. tx'[t] = x /\ \A u \in Threads \ {t} : tx'[u] = tx[u]
    BY <1>4, <2>1
  <2> QED BY <1>3, <2>1, <2>2
<1>6. UNCHANGED <<store, db>>
  BY DEF Begin
<1> QED BY <1>5, <1>6 DEF ParentInv, kind

(* and its row points to one,                                              *)
LEMMA WrittenRoots ==
    ASSUME RowsInv, ParentInv, kind = "memories", NEW t \in Threads, Open(t),
           NEW tab \in Tabs(t), tab \in MemoryChildren
    PROVE  \E i \in Written(t, tab).ref : i \in Nat /\ i > 1
<1>1. Table(tab).parent = "memory_records" /\ "id" \in Table("memory_records").unique
  BY MemoriesAre, TableIs
<1>2. ASSUME NEW r, Fits(kind, r), r.owner = Leaver, r.tab = "memory_records" PROVE r.id \in Nat /\
                 r.id > 1
  <2>1. /\ Kind[kind].tables = MemoryTables /\ DOMAIN MemoryTables = {"memory_records"}
               \cup MemoryChildren
        /\ "id" \in MemoryTables["memory_records"].unique
    BY MemoriesAre
  <2>2. "intelligence_events" \notin DOMAIN MemoryTables
    BY <2>1 DEF MemoryChildren
  <2> QED BY <1>2, <2>1, <2>2 DEF Fits
<1>3. \A r \in db \cup tx[t].seen : Fits(kind, r)
  BY OpenFits DEF RowsInv, AllFit
<1>4. CASE "memory_records" \in Tabs(t)
  <2> DEFINE m == "memory_records"
             found == Named(t, m, IF Verb(t, m) \in {"find", "revive", "update"} THEN tx[t].seen ELSE db)
  <2>1. \A r \in found : r.id \in Nat /\ r.id > 1
    BY <1>2, <1>3 DEF Named
  <2>2. tx[t].id \in Nat /\ tx[t].id > 1
    <3>1. TxFits(kind, tx[t]) /\ tx[t] # Idle /\ tx[t].write \in MemoryWrites
      BY OpenFits, MemoriesAre
    <3>2. ~Merges(tx[t].write)
      BY <3>1, MemoryWritesAre
    <3>3. "intelligence_events" \notin DOMAIN Kind[kind].tables
      BY MemoriesAre DEF MemoryChildren
    <3> QED BY <3>1, <3>2, <3>3 DEF TxFits
  <2>3. IdOf(Table(m), tx[t].key, tx[t].id) = tx[t].id
    BY <1>1 DEF IdOf
  <2>4. Written(t, tab).ref = Standing(t, m)
    BY <1>1, <1>4 DEF Written
  <2>5. (Standing(t, m) = {r.id : r \in found} /\ found # {}) \/ Standing(t, m) = {tx[t].id}
    BY <2>3 DEF Standing
  <2> HIDE DEF found
  <2> QED BY <2>1, <2>2, <2>4, <2>5
<1>5. CASE "memory_records" \notin Tabs(t)
  <2>1. PICK p \in tx[t].seen : p.tab = "memory_records"
    BY <1>5 DEF ParentInv, Rooting, Open, Tabs
  <2>2. p.id \in Nat /\ p.id > 1
    BY <1>2, <2>1, OpenFits
  <2>3. p.id \in Written(t, tab).ref
    BY <1>1, <1>5, <2>1 DEF Written
  <2> QED BY <2>2, <2>3
<1> QED BY <1>4, <1>5

(* so a write keeps the rows of a memory together;                         *)
LEMMA WriteRoots ==
    ASSUME RowsInv, ParentInv, kind = "memories", NEW t \in Threads, Write(t), UNCHANGED <<mig, runs>>
    PROVE  ParentInv'
<1> DEFINE found == UNION {Finds(t, tab) : tab \in Tabs(t)}
           gone  == {r \in found : Verb(t, r.tab) = "replace"}
           fresh == {n \in Anew(t) : Verb(t, n.tab) = "ignore" => InTheWay(n, db) = {}}
           kept == {[r EXCEPT !.body = "live"] : r \in found \ gone}
           result == (db \ found) \cup kept \cup fresh
<1>1. /\ Open(t)
      /\ \/ Committed(t, db)
         \/ Committed(t, result) /\ \A n \in fresh : ~Dangling(n, result)
  BY DEF Write
<1>2. CASE Committed(t, db)
  BY <1>2, CommittedRoots DEF ParentInv
<1>3. CASE Committed(t, result) /\ \A n \in fresh : ~Dangling(n, result)
  <2>1. \A r \in found : r.tab \in Tabs(t) /\ r \in db
    BY DEF Finds, Rows
  <2>2. tx[t].write \in MemoryWrites
    BY <1>1, OpenFits, MemoriesAre
  <2>3. gone = {}
    BY <2>1, <2>2, MemoryWritesAre DEF Verb, Tabs
  <2>4. AllFit(kind, result)
    <3>1. RowsInv' /\ db' = result /\ kind' = kind
      BY <1>3, WriteKeeps DEF Committed, kind
    <3> HIDE DEF result
    <3> QED BY <3>1 DEF RowsInv
  <2>5. \A n \in fresh : n.tab \in Tabs(t) /\ n = Written(t, n.tab)
    <3>1. \A tab : Written(t, tab).tab = tab
      BY DEF Written
    <3> QED BY <3>1 DEF Anew
  <2> DEFINE live(r) == [r EXCEPT !.body = "live"]
  <2>6. \A r \in found : /\ live(r).tab = r.tab /\ live(r).owner = r.owner
                         /\ live(r).id = r.id /\ live(r).ref = r.ref
    <3> HIDE DEF found
    <3>1. \A r \in found : Fits(kind, r)
      BY <2>1 DEF RowsInv, AllFit
    <3> QED BY <3>1, BodyFits
  <2>7. kept = {live(r) : r \in found}
    BY <2>3
  <2> HIDE DEF live
  <2> HIDE DEF found, fresh, kept
  <2>8. ASSUME NEW c \in result, c.owner = Leaver, c.tab \in MemoryChildren
        PROVE  \E p \in result : p.owner = Leaver /\ p.tab = "memory_records" /\ p.id \in c.ref
    <3>1. CASE c \in fresh
      <4>1. c.tab \in Tabs(t) /\ c = Written(t, c.tab)
        BY <2>5, <3>1
      <4>2. PICK i \in c.ref : i \in Nat /\ i > 1
        BY <1>1, <2>8, <4>1, WrittenRoots
      <4>3. Table(c.tab).fk /\ Table(c.tab).parent = "memory_records"
        BY <2>8, MemoriesAre, TableIs
      <4>4. PICK p \in result : p.tab = "memory_records" /\ p.id = i
        BY <1>3, <3>1, <4>2, <4>3 DEF Dangling
      <4>5. p.owner = Leaver
        <5> HIDE DEF result
        <5> QED BY <2>4, <4>2, <4>4 DEF AllFit, Fits
      <4> QED BY <4>2, <4>4, <4>5
    <3>2. CASE c \notin fresh
      <4>1. PICK r \in db : r.owner = Leaver /\ r.tab \in MemoryChildren /\ r.ref = c.ref
        <5>1. CASE c \in db
          BY <2>8, <5>1
        <5>2. CASE c \in kept
          BY <2>1, <2>6, <2>7, <2>8, <5>2
        <5> QED BY <2>8, <3>2, <5>1, <5>2
      <4>2. PICK p \in db : p.owner = Leaver /\ p.tab = "memory_records" /\ p.id \in r.ref
        BY <4>1 DEF ParentInv, Parented
      <4>3. CASE p \in found
        <5>1. live(p) \in result /\ live(p).tab = p.tab /\ live(p).owner = p.owner /\ live(p).id = p.id
          BY <2>6, <2>7, <4>3
        <5> HIDE DEF result
        <5> QED BY <4>1, <4>2, <5>1
      <4>4. CASE p \notin found
        BY <4>1, <4>2, <4>4
      <4> QED BY <4>3, <4>4
    <3> QED BY <3>1, <3>2
  <2>9. Parented(result)
    <3> HIDE DEF result
    <3> QED BY <2>8 DEF Parented
  <2> HIDE DEF result
  <2> QED BY <1>3, <2>9, CommittedRoots
<1> QED BY <1>1, <1>2, <1>3

(* so does a deletion, which cascades,                                     *)
LEMMA DeleteRoots ==
    ASSUME RowsInv, ParentInv, kind = "memories", NEW t \in Threads, Delete(t)
    PROVE  ParentInv'
<1>1. PICK w \in Kind[kind].writes :
         Committed(t, db \ (Rows(Leaver, DOMAIN w) \cup ChildrenOf(Rows(Leaver, DOMAIN w), db)))
  BY DEF Delete
<1> DEFINE rows == Rows(Leaver, DOMAIN w)
           left == db \ (rows \cup ChildrenOf(rows, db))
<1>2. rows \in SUBSET db
  BY DEF Rows
<1>3. Committed(t, left)
  BY <1>1
<1>4. Parented(left)
  <2> HIDE DEF rows
  <2> QED BY <1>2, CascadesKeep
<1> HIDE DEF left
<1> QED BY <1>3, <1>4, CommittedRoots

(* and the erasure, which does as well.                                    *)
LEMMA ErasedRoots ==
    ASSUME RowsInv, ParentInv, kind = "memories", ErasureStep
    PROVE  ParentInv'
<1>1. ASSUME NEW rows \in SUBSET db, Erased(rows \cup ChildrenOf(rows, db)) PROVE ParentInv'
  <2> DEFINE left == db \ (rows \cup ChildrenOf(rows, db))
  <2>1. Parented(left)
    BY CascadesKeep
  <2>2. db' = left /\ UNCHANGED <<store, tx>>
    BY <1>1 DEF Erased
  <2> HIDE DEF left
  <2> QED BY <2>1, <2>2 DEF ParentInv
<1>2. CASE EraseStore
  <2>1. Mine(er.at) \in SUBSET db
    BY DEF Mine, Rows
  <2> QED BY <1>1, <1>2, <2>1 DEF EraseStore
<1>3. CASE EraseMemories
  <2>1. PICK rows \in SUBSET Rows(Leaver, OfMemories \cup {"memory_records"}) :
           Erased(rows \cup ChildrenOf(rows, db))
    BY <1>3 DEF EraseMemories
  <2>2. rows \in SUBSET db
    BY DEF Rows
  <2> QED BY <1>1, <2>1, <2>2
<1>4. CASE Fence \/ Finish \/ Raises
  <2>1. UNCHANGED <<db, store, tx>>
    BY <1>4 DEF Fence, Finish, Raises, tableVars
  <2> QED BY <2>1 DEF ParentInv, kind
<1> QED BY <1>2, <1>3, <1>4 DEF ErasureStep

(* No step changes the store.                                              *)
LEMMA StoreStays == ASSUME RowsInv, [Next]_vars PROVE store' = store
<1>1. ErasureStep => store' = store
  BY NeighboursStay
<1>2. Crash => store' = store
  BY DEF Crash, Ends, Rollback, tableVars
<1>3. UNCHANGED vars => store' = store
  BY DEF vars, tableVars
<1> QED BY <1>1, <1>2, <1>3, LiveLeaves, MigrationLeaves, AgentLeaves DEF Next

(* Every step of the plane keeps them together,                            *)
LEMMA ParentStep == ASSUME PlaneInv, ParentInv, [Next]_vars PROVE ParentInv'
<1>1. store' = store
  BY StoreStays DEF PlaneInv
<1>2. CASE kind # "memories"
  BY <1>1, <1>2 DEF ParentInv, kind
<1>3. CASE kind = "memories"
  <2>1. ASSUME NEW t \in Threads, LiveStep(t), UNCHANGED migVars PROVE ParentInv'
    <3>1. UNCHANGED <<mig, runs>>
      BY <2>1 DEF migVars
    <3>2. Begin(t) \/ Write(t) \/ Delete(t)
      BY <1>3, <2>1, MemoriesPlain DEF LiveStep, PlaneInv
    <3> QED BY <1>3, <3>1, <3>2, BeginRoots, WriteRoots, DeleteRoots DEF PlaneInv
  <2>2. \A t \in Threads : ~AgentStep(t) /\ ~Ends(t)
    <3>1. \A t \in Threads : agent[t] = NoRequest
      BY <1>3, MemoriesPlain DEF PlaneInv, ServingInv
    <3>2. NoRequest.at = "idle"
      BY DEF NoRequest
    <3>3. ~Agents
      BY <1>3, MemoriesPlain DEF PlaneInv
    <3> QED BY <3>1, <3>2, <3>3
       DEF AgentStep, Run, Approve, SetRunning, CreateToolCall, InvokeTool, Mark,
         Refused, Ends
  <2>3. ~MigrationStep /\ mig.at = "none"
    BY <1>3, MemoriesPlain DEF PlaneInv
  <2>4. CASE Crash
    <3>1. PICK t \in Threads : tx' = [tx EXCEPT ![t] = Idle] /\ db' = db
      BY <2>2, <2>3, <2>4 DEF Crash
    <3>2. DOMAIN tx = Threads
      BY DEF PlaneInv, RowsInv, TxsFit
    <3>3. \A u \in Threads : tx'[u] = Idle \/ tx'[u] = tx[u]
      BY <3>1, <3>2
    <3>4. Rooting(Idle)
      BY DEF Rooting
    <3>5. \A u \in Threads : Rooting(tx[u])
      BY <1>3 DEF ParentInv
    <3>6. \A u \in Threads : Rooting(tx'[u])
      BY <3>3, <3>4, <3>5
    <3> QED BY <1>1, <1>3, <3>1, <3>6 DEF ParentInv, kind
  <2>5. CASE UNCHANGED vars
    BY <1>1, <1>3, <2>5 DEF vars, tableVars, ParentInv, kind
  <2>6. CASE ErasureStep
    BY <1>3, <2>6, ErasedRoots DEF PlaneInv
  <2> QED BY <2>1, <2>2, <2>3, <2>4, <2>5, <2>6 DEF Next
<1> QED BY <1>2, <1>3

(* as they are at the start.                                               *)
LEMMA ParentInit == Init => ParentInv
<1> SUFFICES ASSUME Init, kind = "memories" PROVE Parented(db) /\ \A t \in Threads : Rooting(tx[t])
  BY DEF ParentInv
<1>1. PICK k \in DOMAIN Kind : \E rows \in Targets(k) :
         TablesInit(k, IF k \in {"agents", "local_agents"} THEN Awaiting(rows) ELSE rows)
  BY DEF Init
<1>2. k = "memories"
  BY <1>1 DEF TablesInit, kind
<1>3. PICK rows \in Targets("memories") : db = rows /\ tx = [t \in Threads |-> Idle]
  BY <1>1, <1>2 DEF TablesInit
<1>4. db = OldRows("memories")
  <2>1. Kind["memories"].script = <<>>
    BY MemoriesAre
  <2>2. 1..Len(Kind["memories"].script) = {}
    BY <2>1
  <2>3. {Kind["memories"].script[n][2] : n \in 1..Len(Kind["memories"].script)} = {}
    BY <2>2
  <2>4. Targets("memories") = {{r \in OldRows("memories") : r.tab \notin {}}}
    BY <2>3 DEF Targets
  <2> QED BY <1>3, <2>4
<1> DEFINE tables == Kind["memories"].tables
           OldId(tab, o, key) == IdOf(tables[tab], key, IF key = 1 THEN o ELSE o + Leaver)
           Row(tab, o, key) ==
             [tab |-> tab, owner |-> o, id |-> OldId(tab, o, key), key |-> key, body |-> "old",
              ref |-> {OldId(tables[tab].parent, o, p) : p \in tables[tab].refs}]
           plain == UNION {{Row(tab, o, key) : o \in Owners, key \in tables[tab].keys}
                           : tab \in DOMAIN tables \ {"youtube_sqlite_migration_ledger"}}
<1>5. OldRows("memories") = Linked(plain)
  BY DEF OldRows
<1>6. /\ tables = MemoryTables /\ DOMAIN tables = {"memory_records"} \cup MemoryChildren
      /\ \A tab \in DOMAIN tables : tables[tab].keys = {1} /\ "id" \in tables[tab].unique
      /\ \A tab \in MemoryChildren : tables[tab].parent = "memory_records" /\ tables[tab].refs = {1}
  BY MemoriesAre
<1> HIDE DEF tables
<1>7. OldId("memory_records", Leaver, 1) = Leaver
  BY <1>6, LeaverAssumption DEF IdOf
<1>8. Row("memory_records", Leaver, 1) \in plain
  <2>1. Leaver \in Owners /\ 1 \in tables["memory_records"].keys
    BY <1>6 DEF Owners
  <2>2. "memory_records" \in DOMAIN tables \ {"youtube_sqlite_migration_ledger"}
    BY <1>6
  <2> HIDE DEF Row
  <2> QED BY <2>1, <2>2
<1>9. ASSUME NEW c \in plain, c.owner = Leaver, c.tab \in MemoryChildren PROVE Leaver \in c.ref
  <2>1. PICK tab \in DOMAIN tables : \E o \in Owners : \E key \in tables[tab].keys : c = Row(tab, o, key)
    OBVIOUS
  <2>a. /\ \A o, key : Row(tab, o, key).owner = o /\ Row(tab, o, key).tab = tab
        /\ Row(tab, Leaver, 1).ref = {OldId(tables[tab].parent, Leaver, p) : p \in tables[tab].refs}
    OBVIOUS
  <2> HIDE DEF Row
  <2>2. c = Row(tab, Leaver, 1) /\ tab \in MemoryChildren
    BY <1>6, <1>9, <2>1, <2>a
  <2> HIDE DEF OldId
  <2>3. c.ref = {OldId("memory_records", Leaver, 1)}
    BY <1>6, <2>2, <2>a
  <2> QED BY <1>7, <2>3
<1>10. \A q \in plain : q.tab # "kg_memory_entities"
  <2>1. "kg_memory_entities" \notin DOMAIN tables
    BY <1>6 DEF MemoryChildren
  <2> QED BY <2>1
<1>11. /\ Row("memory_records", Leaver, 1).owner = Leaver
       /\ Row("memory_records", Leaver, 1).tab = "memory_records"
       /\ Row("memory_records", Leaver, 1).id = Leaver
  BY <1>7
<1> HIDE DEF plain, Row
<1>12. Linked(plain) = plain
  BY <1>10 DEF Linked
<1>13. Parented(db)
  BY <1>4, <1>5, <1>8, <1>9, <1>11, <1>12 DEF Parented
<1>14. \A t \in Threads : Rooting(tx[t])
  BY <1>3 DEF Rooting
<1> QED BY <1>13, <1>14

-----------------------------------------------------------------------------
(* What an erasure that has come to a step, with no memory kept, may still *)
(* find of the leaver: what this step and the later ones delete, and what  *)
(* none of them lists.                                                     *)
Due(n) ==
    (UNION {Steps[k] : k \in n..Last}) \cup Unlisted
        \cup {tab \in MemoryChildren : kind = "memories" /\ n <= Memories}
LeaversIn(rows, tabs) == \A r \in rows : r.owner = Leaver => r.tab \in tabs
ErasedInv ==
    /\ er.at # 0 /\ er.at <= Memories => ~er.errors
    /\ er.at # 0 /\ ~er.errors => LeaversIn(db, Due(er.at))
    /\ er.done /\ ~er.errors => LeaversIn(db, Unlisted)

(* What is due, spelt out.                                                 *)
LEMMA DueIs ==
    \A n, tab : tab \in Due(n) <=>
        \/ \E k \in n..Last : tab \in Steps[k]
        \/ tab \in Unlisted
        \/ kind = "memories" /\ n <= Memories /\ tab \in MemoryChildren
BY DEF Due

(* No step that has something to do is passed over.                        *)
LEMMA NextIsDue ==
    ASSUME RowsInv, kind \notin DOMAIN Local, NEW n \in 0..Last,
           NEW r \in db, NEW k \in (n + 1)..Last, r.tab \in Steps[k]
    PROVE  r.tab \in Due(After(n, FALSE))
<1>1. r.tab \in DOMAIN store.tables
  BY DEF RowsInv, AllFit, Fits
<1>2. Concerns(k)
  BY <1>1 DEF Concerns
<1> DEFINE a == After(n, FALSE)
<1>3. a <= k /\ a \in (n + 1)..(Last + 1)
  BY <1>2, AfterIs
<1> HIDE DEF a
<1>a. n \in Int /\ k \in Int /\ Last \in Int /\ k <= Last
  BY LastIs
<1>4. k \in a..Last
  BY <1>3, <1>a
<1>5. r.tab \in Due(a)
  BY <1>4, DueIs
<1> QED BY <1>5 DEF a

(* The erasure comes to the memories before it has passed them.            *)
LEMMA NextIsBefore ==
    ASSUME NEW n \in 0..Last, n < Memories PROVE After(n, FALSE) <= Memories /\ After(n, FALSE) \in Nat
<1>1. Concerns(Memories)
  BY DEF Concerns
<1>2. Memories \in (n + 1)..Last
  BY LastIs
<1> DEFINE a == After(n, FALSE)
<1>3. a \in (n + 1)..(Last + 1) /\ a <= Memories
  BY <1>1, <1>2, AfterIs
<1> HIDE DEF a
<1>4. n \in Nat /\ Last \in Nat
  BY LastIs
<1>5. a \in Nat
  BY <1>3, <1>4
<1> QED BY <1>3, <1>5 DEF a

(* At the first step everything of the leaver is due.                      *)
LEMMA DueAtFirst ==
    ASSUME RowsInv, kind \notin DOMAIN Local PROVE LeaversIn(db, Due(After(0, FALSE)))
<1> SUFFICES ASSUME NEW r \in db, r.owner = Leaver PROVE r.tab \in Due(After(0, FALSE))
  BY DEF LeaversIn
<1>1. r.tab \in DOMAIN Kind[kind].tables
  BY DEF RowsInv, AllFit, Fits
<1>2. kind \in DOMAIN Shared
  BY KindsAre DEF RowsInv
<1>3. r.tab \in Erasable \cup Unlisted \cup (IF kind = "memories" THEN MemoryChildren ELSE {})
  BY <1>1, <1>2, SharedListed DEF Listed
<1>4. 0 \in 0..Last /\ 0 < Memories
  BY LastIs
<1>5. CASE r.tab \in Erasable
  <2>1. PICK k \in 1..Last : r.tab \in Steps[k]
    BY <1>5 DEF Erasable
  <2>2. k \in (0 + 1)..Last
    OBVIOUS
  <2> QED BY <1>4, <2>1, <2>2, NextIsDue
<1>6. CASE r.tab \notin Erasable
  <2>1. r.tab \in Unlisted \/ (kind = "memories" /\ r.tab \in MemoryChildren)
    BY <1>3, <1>6
  <2>2. After(0, FALSE) <= Memories
    BY <1>4, NextIsBefore
  <2> DEFINE a == After(0, FALSE)
  <2>3. a <= Memories
    BY <2>2
  <2> HIDE DEF a
  <2>4. r.tab \in Due(a)
    BY <2>1, <2>3, DueIs
  <2> QED BY <2>4 DEF a
<1> QED BY <1>5, <1>6

(* A step deletes the rows of its tables.                                  *)
LEMMA DueAtNext ==
    ASSUME RowsInv, kind \notin DOMAIN Local, NEW n \in 1..Last, n # Memories,
           LeaversIn(db, Due(n)), NEW rows \in SUBSET db, LeaversIn(rows, Due(n)),
           \A r \in rows : r.owner = Leaver => r.tab \notin Steps[n]
    PROVE  LeaversIn(rows, Due(After(n, FALSE)))
<1> SUFFICES ASSUME NEW r \in rows, r.owner = Leaver PROVE r.tab \in Due(After(n, FALSE))
  BY DEF LeaversIn
<1>1. r.tab \in Due(n) /\ r.tab \notin Steps[n] /\ r \in db
  BY DEF LeaversIn
<1>2. n \in 0..Last
  BY LastIs
<1>3. CASE \E k \in n..Last : r.tab \in Steps[k]
  <2>1. PICK k \in n..Last : r.tab \in Steps[k]
    BY <1>3
  <2>2. k \in (n + 1)..Last
    BY <1>1, <2>1, LastIs
  <2> QED BY <1>1, <1>2, <2>1, <2>2, NextIsDue
<1>4. CASE r.tab \in Unlisted
  BY <1>4, DueIs
<1>5. CASE kind = "memories" /\ n <= Memories /\ r.tab \in MemoryChildren
  <2>1. n < Memories
    BY <1>5, LastIs
  <2>2. After(n, FALSE) <= Memories
    BY <1>2, <2>1, NextIsBefore
  <2> DEFINE a == After(n, FALSE)
  <2>3. a <= Memories
    BY <2>2
  <2> HIDE DEF a
  <2>4. r.tab \in Due(a)
    BY <1>5, <2>3, DueIs
  <2> QED BY <2>4 DEF a
<1> QED BY <1>1, <1>3, <1>4, <1>5, DueIs

(* Once the memories are gone, what was about them is, too.                *)
LEMMA MemoriesGone ==
    ASSUME RowsInv, ParentInv, kind \notin DOMAIN Local, LeaversIn(db, Due(Memories)),
           NEW rows \in SUBSET db, Rows(Leaver, {"memory_records"}) \subseteq rows,
           NEW left, left = db \ (rows \cup ChildrenOf(rows, db))
    PROVE  LeaversIn(left, Due(After(Memories, FALSE)))
<1> SUFFICES ASSUME NEW r \in left, r.owner = Leaver PROVE r.tab \in Due(After(Memories, FALSE))
  BY DEF LeaversIn
<1>1. r \in db /\ r.tab \in Due(Memories) /\ r.tab # "memory_records"
  BY DEF LeaversIn, Rows
<1>2. Memories \in 0..Last /\ Memories \in Int
  BY LastIs
<1>3. CASE \E k \in Memories..Last : r.tab \in Steps[k]
  <2>1. PICK k \in Memories..Last : r.tab \in Steps[k]
    BY <1>3
  <2>2. k # Memories
    BY <1>1, <2>1, StepsErase
  <2>3. k \in (Memories + 1)..Last
    BY <1>2, <2>1, <2>2, LastIs
  <2> QED BY <1>1, <1>2, <2>1, <2>3, NextIsDue
<1>4. CASE r.tab \in Unlisted
  BY <1>4, DueIs
<1>5. CASE kind = "memories" /\ r.tab \in MemoryChildren
  <2>1. PICK p \in left : p.owner = Leaver /\ p.tab = "memory_records"
    <3>1. Parented(left)
      BY <1>5, CascadesKeep
    <3> QED BY <1>5, <3>1 DEF Parented
  <2>2. p \in Rows(Leaver, {"memory_records"})
    BY <2>1 DEF Rows
  <2> QED BY <2>1, <2>2
<1> QED BY <1>1, <1>3, <1>4, <1>5, DueIs

(* A step of the erasure leaves what is due to the later ones.             *)
LEMMA ErasureGoesOn ==
    ASSUME PlaneInv, ParentInv, ErasedInv, ErasureStep
    PROVE  ErasedInv'
<1>1. /\ er = [at |-> er.at, errors |-> er.errors, done |-> er.done]
      /\ er.at \in 0..(Last + 1) /\ er.errors \in BOOLEAN /\ er.done \in BOOLEAN
      /\ er.at # 0 => ~er.done
  BY DEF PlaneInv, ErasingInv
<1>2. kind' = kind
  BY NeighboursStay DEF PlaneInv, kind
<1>3. \A n : Due(n)' = Due(n)
  BY <1>2 DEF Due
<1>4. CASE Fence
  <2> DEFINE a == After(0, FALSE)
  <2>1. er' = [at |-> a, errors |-> FALSE, done |-> FALSE] /\ db' = db /\ kind \notin DOMAIN Local
    BY <1>4 DEF Fence
  <2>2. LeaversIn(db, Due(a))
    BY <2>1, DueAtFirst DEF PlaneInv
  <2> HIDE DEF a
  <2> QED BY <1>3, <2>1, <2>2 DEF ErasedInv, LeaversIn
<1>5. CASE EraseStore
  <2> DEFINE n == er.at
             a == After(n, er.errors)
             left == db \ (Mine(n) \cup ChildrenOf(Mine(n), db))
  <2>1. er' = [er EXCEPT !.at = a] /\ n \in 1..Last /\ n # Memories /\ db' = left
    BY <1>5 DEF EraseStore, Erased
  <2>2. er'.at = a /\ er'.errors = er.errors /\ er'.done = er.done /\ ~er.done
    BY <1>1, <2>1
  <2>3. kind \notin DOMAIN Local
    BY <2>1 DEF PlaneInv, ErasingInv
  <2>4. a <= Memories => ~er.errors
    <3>1. n \in 0..Last /\ a \in (n + 1)..(Last + 1)
      BY <1>1, <2>1, AfterIs, LastIs
    <3>2. a <= Memories => n <= Memories
      BY <2>1, <3>1, LastIs
    <3> QED BY <2>1, <3>2 DEF ErasedInv
  <2>5. ASSUME ~er.errors PROVE LeaversIn(left, Due(a))
    <3>1. LeaversIn(db, Due(n)) /\ left \in SUBSET db
      BY <2>1, <2>5 DEF ErasedInv
    <3>2. LeaversIn(left, Due(n))
      BY <3>1 DEF LeaversIn
    <3>3. \A r \in left : r.owner = Leaver => r.tab \notin Steps[n]
      BY DEF Mine, Rows
    <3>4. er.errors = FALSE
      BY <1>1, <2>5
    <3> HIDE DEF left, n
    <3> QED BY <2>1, <2>3, <3>1, <3>2, <3>3, <3>4, DueAtNext DEF PlaneInv
  <2> HIDE DEF a, left
  <2>6. er'.at # 0 /\ er'.at <= Memories => ~er'.errors
    BY <2>2, <2>4
  <2>7. er'.at # 0 /\ ~er'.errors => LeaversIn(db', Due(er'.at))
    BY <2>1, <2>2, <2>5
  <2> QED BY <1>3, <2>2, <2>6, <2>7 DEF ErasedInv, LeaversIn
<1>6. CASE EraseMemories
  <2>1. PICK fails \in BOOLEAN : \E gone \in SUBSET Rows(Leaver, OfMemories \cup {"memory_records"}) :
           /\ ~fails => Rows(Leaver, {"memory_records"}) \subseteq gone
           /\ db' = db \ (gone \cup ChildrenOf(gone, db))
           /\ er' = [er EXCEPT !.errors = fails, !.at = After(Memories, fails)]
    BY <1>6 DEF EraseMemories, Erased
  <2>2. PICK gone \in SUBSET Rows(Leaver, OfMemories \cup {"memory_records"}) :
           /\ ~fails => Rows(Leaver, {"memory_records"}) \subseteq gone
           /\ db' = db \ (gone \cup ChildrenOf(gone, db))
           /\ er' = [er EXCEPT !.errors = fails, !.at = After(Memories, fails)]
    BY <2>1
  <2> DEFINE a == After(Memories, fails)
             left == db \ (gone \cup ChildrenOf(gone, db))
  <2>3. er.at = Memories /\ er.at # 0
    BY <1>6, LastIs DEF EraseMemories
  <2>4. a \in 7..15
    BY AfterIs, LastIs
  <2>5. er' = [er EXCEPT !.errors = fails, !.at = a] /\ db' = left
    BY <2>2
  <2>6. ASSUME ~fails PROVE LeaversIn(left, Due(a))
    <3>1. ~er.errors /\ LeaversIn(db, Due(Memories)) /\ kind \notin DOMAIN Local
      BY <2>3, LastIs DEF ErasedInv, PlaneInv, ErasingInv
    <3>2. gone \in SUBSET db /\ Rows(Leaver, {"memory_records"}) \subseteq gone
      BY <2>2, <2>6 DEF Rows
    <3>3. fails = FALSE
      BY <2>6
    <3> QED BY <3>1, <3>2, <3>3, MemoriesGone DEF PlaneInv
  <2> HIDE DEF a, left
  <2>7. er'.at = a /\ er'.errors = fails /\ er'.done = er.done /\ ~er.done
    BY <1>1, <2>3, <2>5
  <2>8. ~(a <= Memories)
    BY <2>4, LastIs
  <2>9. er'.at # 0 /\ ~er'.errors => LeaversIn(db', Due(er'.at))
    BY <2>5, <2>6, <2>7
  <2> QED BY <1>3, <2>7, <2>8, <2>9 DEF ErasedInv, LeaversIn
<1>7. CASE Finish
  <2>1. /\ er'.at = 0 /\ er'.errors = er.errors /\ db' = db /\ er.at = Last + 1
    BY <1>1, <1>7 DEF Finish, tableVars
  <2>2. ~er.errors => LeaversIn(db, Unlisted)
    <3>1. ~er.errors => LeaversIn(db, Due(Last + 1))
      BY <2>1, LastIs DEF ErasedInv
    <3>2. Due(Last + 1) = Unlisted
      <4>1. ~(Last + 1 <= Memories) /\ (Last + 1)..Last = {}
        BY LastIs
      <4>2. \A tab : tab \in Due(Last + 1) <=> tab \in Unlisted
        BY <4>1, DueIs
      <4> QED BY <4>2
    <3> QED BY <3>1, <3>2
  <2> QED BY <2>1, <2>2 DEF ErasedInv, LeaversIn
<1>8. CASE Raises
  <2>1. er'.at = 0 /\ er'.errors = er.errors /\ er'.done = er.done /\ er.at # 0
    BY <1>1, <1>8, LastIs DEF Raises
  <2> QED BY <1>1, <2>1 DEF ErasedInv
<1> QED BY <1>4, <1>5, <1>6, <1>7, <1>8 DEF ErasureStep

(* Every step of the plane keeps ErasedInv.                                *)
LEMMA ErasedStep == ASSUME PlaneInv, ParentInv, ErasedInv, [Next]_vars PROVE ErasedInv'
<1>1. CASE ErasureStep
  BY <1>1, ErasureGoesOn
<1>2. CASE ~ErasureStep
  <2>1. er' = er
    BY <1>2 DEF Next, Crash, erasureVars, vars
  <2>2. kind' = kind
    BY StoreStays DEF PlaneInv, kind
  <2>3. fenced => \A r \in db' : r.owner = Leaver => r \in db
    <3>1. LeaverOnlyGoes \/ UNCHANGED vars
      BY FenceStep DEF PlaneInv
    <3> QED BY <3>1 DEF LeaverOnlyGoes, vars, tableVars
  <2>4. er.at # 0 \/ er.done => fenced
    BY DEF PlaneInv, ErasingInv
  <2>5. \A tabs : fenced /\ LeaversIn(db, tabs) => LeaversIn(db', tabs)
    BY <2>3 DEF LeaversIn
  <2>6. \A n : Due(n)' = Due(n)
    BY <2>2 DEF Due
  <2>7. er.at # 0 /\ ~er.errors => LeaversIn(db', Due(er.at))
    BY <2>4, <2>5 DEF ErasedInv
  <2>8. er.done /\ ~er.errors => LeaversIn(db', Unlisted)
    BY <2>4, <2>5 DEF ErasedInv
  <2> QED BY <2>1, <2>6, <2>7, <2>8 DEF ErasedInv, LeaversIn
<1> QED BY <1>1, <1>2

(* An erasure that ended with no memory kept has left nothing of the       *)
(* leaver but what it does not list, and nothing comes back.               *)
THEOREM ErasedStay == Spec => []ErasedTenantsStayErased
<1>1. Init => ErasedInv
  BY DEF Init, ErasureInit, ErasedInv
<1>2. PlaneInv /\ ParentInv /\ ErasedInv /\ [Next]_vars => ParentInv' /\ ErasedInv'
  BY ParentStep, ErasedStep
<1>3. ASSUME PlaneInv, ErasedInv PROVE ErasedTenantsStayErased
  <2>1. SUFFICES ASSUME er.done, ~er.errors, NEW r \in db \cup pend,
                     r.owner = Leaver PROVE r.tab \in Unlisted
    BY DEF ErasedTenantsStayErased
  <2>2. fenced
    BY <1>3, <2>1 DEF PlaneInv, ErasingInv
  <2>3. r \notin pend
    BY <1>3, <2>1, <2>2 DEF PlaneInv, FenceInv
  <2> QED BY <1>3, <2>1, <2>3 DEF ErasedInv, LeaversIn
<1> QED BY <1>1, <1>2, <1>3, ParentInit, PlaneHolds, PTL DEF Spec

-----------------------------------------------------------------------------
(* A stage of the old file is copied only with a claim in the ledger,      *)
(* where no step deletes it: whoever finds the claim leaves the stage out. *)
IsStage(r) == r.tab = "youtube_pipeline_runs" /\ r.body = "old"
ClaimOf(o) == [tab |-> Ledger, owner |-> o, id |-> 1, key |-> 1, ref |-> {}, body |-> "claimed"]
StagesInv ==
    kind = "youtube" =>
        /\ \A r, s \in db \cup pend : IsStage(r) /\ IsStage(s) /\ r.owner = s.owner => r = s
        /\ \A r \in db : IsStage(r) => ClaimOf(r.owner) \in db
        /\ \A r \in pend : IsStage(r) =>
              /\ ClaimOf(r.owner) \in pend /\ ClaimOf(r.owner) \notin db /\ mig.step >= 2
              /\ \A q \in mig.left : q.tab = "youtube_pipeline_runs" => q.owner # r.owner
        /\ mig.at = "replay" =>
              \A q \in mig.left : mig.step <= Len(Script) /\ q.tab = Script[mig.step][2]

(* The store of the retry queue and its migration,                         *)
LEMMA YouTubeHas ==
    /\ Kind["youtube"].tables = YouTubeTables /\ Kind["youtube"].writes = YouTubeWrites
    /\ Kind["youtube"].script = YouTubeScript
    /\ Len(YouTubeScript) = 3
    /\ YouTubeScript[1][1] = "skip" /\ YouTubeScript[1][2] = "youtube_memories"
    /\ YouTubeScript[2][1] = "once" /\ YouTubeScript[2][2] = "youtube_pipeline_runs"
    /\ YouTubeScript[3][1] = "skip" /\ YouTubeScript[3][2] = "youtube_retry_queue"
<1>1. Kind["youtube"] = Store(YouTubeTables, YouTubeWrites, YouTubeScript)
  BY KindsAre DEF Shared, Local
<1>2. /\ Kind["youtube"].tables = YouTubeTables /\ Kind["youtube"].writes = YouTubeWrites
      /\ Kind["youtube"].script = YouTubeScript
  BY <1>1 DEF Store
<1>3. /\ Len(YouTubeScript) = 3
      /\ YouTubeScript[1][1] = "skip" /\ YouTubeScript[1][2] = "youtube_memories"
      /\ YouTubeScript[2][1] = "once" /\ YouTubeScript[2][2] = "youtube_pipeline_runs"
      /\ YouTubeScript[3][1] = "skip" /\ YouTubeScript[3][2] = "youtube_retry_queue"
  BY DEF YouTubeScript, Skip
<1> QED BY <1>2, <1>3

(* its tables,                                                             *)
LEMMA YouTubeNames ==
    /\ DOMAIN YouTubeTables = {"youtube_memories", "youtube_pipeline_runs", Ledger,
           "youtube_retry_queue"}
    /\ \A tab \in DOMAIN YouTubeTables : YouTubeTables[tab].fk = FALSE
    /\ YouTubeTables["youtube_pipeline_runs"].unique = {"id"}
    /\ YouTubeTables["youtube_pipeline_runs"].keys = {1}
    /\ YouTubeTables["youtube_pipeline_runs"].refs = {}
<1>1. YouTubeTables["youtube_memories"] = Keyed
  BY DEF YouTubeTables
<1>2. YouTubeTables["youtube_pipeline_runs"] = Plain
  BY DEF YouTubeTables
<1>3. YouTubeTables[Ledger] = Natural /\ YouTubeTables["youtube_retry_queue"] = Natural
  BY DEF YouTubeTables, Ledger
<1>4. DOMAIN YouTubeTables = {"youtube_memories", "youtube_pipeline_runs", Ledger, "youtube_retry_queue"}
  BY DEF YouTubeTables, Ledger
<1>5. Plain.refs = {}
  BY DEF Plain, Told
<1> QED BY <1>1, <1>2, <1>3, <1>4, <1>5, ToldAre

(* and its writes, none of which claims a stage.                           *)
LEMMA YouTubeWritesAre ==
    \A w \in YouTubeWrites : ~Merges(w) /\ ~Drops(w) /\ Ledger \notin DOMAIN w
<1>1. \A w \in YouTubeWrites : Ledger \notin DOMAIN w /\ "kg_entities" \notin DOMAIN w
  BY DEF YouTubeWrites, Ledger
<1>2. \A w \in YouTubeWrites : ~Drops(w)
  BY DEF YouTubeWrites, Drops
<1> QED BY <1>1, <1>2 DEF Merges

(* The old file has one stage of each owner.                               *)
LEMMA OldStages ==
    ASSUME NEW r \in OldRows("youtube"), r.tab = "youtube_pipeline_runs"
    PROVE  /\ r = [tab |-> "youtube_pipeline_runs", owner |-> r.owner, id |-> r.owner, key |-> 1,
                   body |-> "old", ref |-> {}]
           /\ Claim(r) = ClaimOf(r.owner)
<1> DEFINE tables == Kind["youtube"].tables
           OldId(tab, o, key) == IdOf(tables[tab], key, IF key = 1 THEN o ELSE o + Leaver)
           Row(tab, o, key) ==
             [tab |-> tab, owner |-> o, id |-> OldId(tab, o, key), key |-> key, body |-> "old",
              ref |-> {OldId(tables[tab].parent, o, p) : p \in tables[tab].refs}]
           plain == UNION {{Row(tab, o, key) : o \in Owners, key \in tables[tab].keys}
                           : tab \in DOMAIN tables \ {"youtube_sqlite_migration_ledger"}}
<1>1. OldRows("youtube") = Linked(plain)
  BY DEF OldRows
<1>2. /\ tables = YouTubeTables
      /\ tables["youtube_pipeline_runs"].unique = {"id"} /\ tables["youtube_pipeline_runs"].keys = {1}
      /\ tables["youtube_pipeline_runs"].refs = {} /\ "kg_memory_entities" \notin DOMAIN tables
  BY YouTubeHas, YouTubeNames DEF Ledger
<1> HIDE DEF tables
<1>3. \A o \in Owners : OldId("youtube_pipeline_runs", o, 1) = o
  BY <1>2, LeaverAssumption DEF IdOf, Owners
<1> HIDE DEF OldId
<1>4. \A tab, o, key : Row(tab, o, key).tab = tab
  OBVIOUS
<1>5. ASSUME NEW o \in Owners
      PROVE  Row("youtube_pipeline_runs", o, 1) =
             [tab |-> "youtube_pipeline_runs", owner |-> o, id |-> o, key |-> 1, body |-> "old",
                 ref |-> {}]
  BY <1>2, <1>3
<1> HIDE DEF Row
<1>6. \A q \in plain : q.tab # "kg_memory_entities"
  BY <1>2, <1>4
<1>7. ASSUME r \in plain PROVE \E o \in Owners : r = Row("youtube_pipeline_runs", o, 1)
  BY <1>2, <1>4, <1>7
<1> HIDE DEF plain
<1>8. Linked(plain) = plain
  BY <1>6 DEF Linked
<1>9. PICK o \in Owners :
         r = [tab |-> "youtube_pipeline_runs", owner |-> o, id |-> o, key |-> 1, body |-> "old",
             ref |-> {}]
  BY <1>1, <1>5, <1>7, <1>8
<1> QED BY <1>9 DEF Claim, ClaimOf, Ledger

(* What takes stages away and leaves the ledger alone keeps this.          *)
LEMMA StagesKeep ==
    ASSUME StagesInv, UNCHANGED <<store, pend, mig>>,
           \A r \in db' : IsStage(r) => r \in db,
           \A o : ClaimOf(o) \in db' <=> ClaimOf(o) \in db
    PROVE  StagesInv'
<1>1. kind' = kind /\ Script' = Script
  BY DEF kind, Script
<1> QED BY <1>1 DEF StagesInv

(* A write keeps the stages with their claims;                             *)
LEMMA WriteKeepsStages ==
    ASSUME RowsInv, StagesInv, kind = "youtube", NEW t \in Threads, Write(t), UNCHANGED mig
    PROVE  StagesInv'
<1> DEFINE found == UNION {Finds(t, tab) : tab \in Tabs(t)}
           gone  == {r \in found : Verb(t, r.tab) = "replace"}
           fresh == {n \in Anew(t) : Verb(t, n.tab) = "ignore" => InTheWay(n, db) = {}}
           live(r) == [r EXCEPT !.body = "live"]
           kept == {live(r) : r \in found \ gone}
           result == (db \ found) \cup kept \cup fresh
<1>1. Open(t) /\ (Committed(t, db) \/ Committed(t, result))
  BY DEF Write
<1>2. UNCHANGED <<store, pend>> /\ (db' = db \/ db' = result)
  BY <1>1 DEF Committed
<1>3. Ledger \notin Tabs(t)
  BY <1>1, OpenFits, YouTubeHas, YouTubeWritesAre DEF Tabs
<1>4. \A r \in found : r.tab \in Tabs(t) /\ r \in db
  BY DEF Finds, Rows
<1>5. \A n \in fresh : n.tab \in Tabs(t) /\ n.body = "live"
  BY DEF Anew, Written
<1>6. \A r \in found : live(r).tab = r.tab /\ live(r).body = "live"
  <2> HIDE DEF found
  <2>1. \A r \in found : Fits(kind, r)
    BY <1>4 DEF RowsInv, AllFit
  <2> QED BY <2>1, BodyFits
<1> HIDE DEF found, fresh, live
<1>7. \A r \in result : IsStage(r) => r \in db
  BY <1>5, <1>6 DEF IsStage
<1>8. ASSUME NEW o PROVE ClaimOf(o) \in result <=> ClaimOf(o) \in db
  <2>1. ClaimOf(o).tab = Ledger
    BY DEF ClaimOf
  <2> DEFINE c == ClaimOf(o)
  <2> HIDE DEF c
  <2>2. c.tab = Ledger
    BY <2>1 DEF c
  <2>3. c \notin found /\ c \notin kept /\ c \notin fresh
    BY <1>3, <1>4, <1>5, <1>6, <2>2
  <2> QED BY <2>3 DEF c
<1> HIDE DEF result
<1> QED BY <1>2, <1>7, <1>8, StagesKeep

(* the erasure lists no claim,                                             *)
LEMMA LedgerUnlisted == \A n \in 1..Last : Ledger \notin Steps[n]
<1>1. \A n \in {1, 2, 3, 4, 5, 6, 7} : Ledger \notin Steps[n]
  BY StepsAre
     DEF Ledger, SessionsErased, AgentsErased, TokensErased, ImportsErased, CapturesErased,
         FeedbackErased
<1>2. \A n \in {8, 9, 10, 11, 12, 13} : Ledger \notin Steps[n]
  BY StepsAre
     DEF Ledger, UsageErased, BusErased, GraphErased, IntelligenceErased, HomeErased, VectorsErased
<1>3. Ledger \notin Steps[14]
  BY StepsAre DEF Ledger, Residuals
<1> QED BY <1>1, <1>2, <1>3, LastIs

(* so it keeps them as well.                                               *)
LEMMA ErasureKeepsStages ==
    ASSUME RowsInv, StagesInv, kind = "youtube", ErasureStep, UNCHANGED mig
    PROVE  StagesInv'
<1>1. UNCHANGED <<store, pend>> /\ db' \subseteq db
  BY NeighboursStay
<1>2. ASSUME NEW rows \in SUBSET db PROVE ChildrenOf(rows, db) = {}
  <2>1. \A c \in db : Table(c.tab).fk = FALSE
    BY TableIs, YouTubeHas, YouTubeNames DEF RowsInv, AllFit, Fits
  <2> QED BY <2>1 DEF ChildrenOf
<1>3. ASSUME NEW rows \in SUBSET db, Erased(rows \cup ChildrenOf(rows, db)),
                 \A r \in rows : r.tab # Ledger
      PROVE  \A o : ClaimOf(o) \in db' <=> ClaimOf(o) \in db
  <2>1. db' = db \ rows
    BY <1>2, <1>3 DEF Erased
  <2>2. \A o : ClaimOf(o).tab = Ledger
    BY DEF ClaimOf
  <2> QED BY <1>3, <2>1, <2>2
<1>4. \A o : ClaimOf(o) \in db' <=> ClaimOf(o) \in db
  <2>1. CASE EraseStore
    <3>1. Mine(er.at) \in SUBSET db /\ \A r \in Mine(er.at) : r.tab # Ledger
      BY <2>1, LedgerUnlisted DEF EraseStore, Mine, Rows
    <3> QED BY <1>3, <2>1, <3>1 DEF EraseStore
  <2>2. CASE EraseMemories
    <3>1. PICK rows \in SUBSET Rows(Leaver, OfMemories \cup {"memory_records"}) :
             Erased(rows \cup ChildrenOf(rows, db))
      BY <2>2 DEF EraseMemories
    <3>2. rows \in SUBSET db /\ \A r \in rows : r.tab # Ledger
      BY DEF Rows, OfMemories, Ledger
    <3> QED BY <1>3, <3>1, <3>2
  <2>3. CASE Fence \/ Finish \/ Raises
    BY <2>3 DEF Fence, Finish, Raises, tableVars
  <2> QED BY <2>1, <2>2, <2>3 DEF ErasureStep
<1> QED BY <1>1, <1>4, StagesKeep

(* A statement of the migration finds no stage it has replayed;            *)
LEMMA NoLeftovers ==
    ASSUME FenceInv, StagesInv, kind = "youtube", NEW n \in Nat \ {0}, mig' = At(n),
           UNCHANGED <<store, db, pend>>,
           pend = {} \/ n >= 3
    PROVE  StagesInv'
<1>1. mig'.step = n /\ mig'.left = IF n <= Len(Script) THEN Source(mig.sel, {Script[n][2]}) ELSE {}
  BY DEF At, FenceInv, IsMigration
<1>2. \A q \in mig'.left : n <= Len(Script) /\ q.tab = Script[n][2]
  BY <1>1 DEF Source
<1>3. Script = YouTubeScript /\ Script' = Script /\ kind' = kind
  BY YouTubeHas DEF Script, kind
<1>4. n >= 3 => \A q \in mig'.left : q.tab # "youtube_pipeline_runs"
  <2>1. Len(Script) = 3 /\ Script[3][2] = "youtube_retry_queue"
    BY <1>3, YouTubeHas
  <2> QED BY <1>2, <2>1
<1>5. ASSUME NEW r \in pend', IsStage(r)
      PROVE  /\ ClaimOf(r.owner) \in pend' /\ ClaimOf(r.owner) \notin db' /\ mig'.step >= 2
             /\ \A q \in mig'.left : q.tab = "youtube_pipeline_runs" => q.owner # r.owner
  <2>1. n >= 3 /\ r \in pend /\ pend' = pend /\ db' = db
    BY <1>5
  <2>2. ClaimOf(r.owner) \in pend /\ ClaimOf(r.owner) \notin db
    BY <1>5, <2>1 DEF StagesInv
  <2>3. mig'.step >= 2
    BY <1>1, <2>1
  <2> QED BY <1>4, <2>1, <2>2, <2>3
<1>6. \A r, s \in db' \cup pend' : IsStage(r) /\ IsStage(s) /\ r.owner = s.owner => r = s
  BY DEF StagesInv
<1>7. \A r \in db' : IsStage(r) => ClaimOf(r.owner) \in db'
  BY DEF StagesInv
<1>8. \A q \in mig'.left : mig'.step <= Len(Script') /\ q.tab = Script'[mig'.step][2]
  BY <1>1, <1>2, <1>3
<1> QED BY <1>5, <1>6, <1>7, <1>8 DEF StagesInv

(* a migration that ends leaves none behind.                               *)
LEMMA NoRunStages ==
    ASSUME StagesInv, kind = "youtube", UNCHANGED <<store, db>>, pend' = {}, mig'.at # "replay"
    PROVE  StagesInv'
<1>1. kind' = kind
  BY DEF kind
<1> QED BY <1>1 DEF StagesInv

(* A row of another table is none.                                         *)
LEMMA OtherRows ==
    ASSUME FenceInv, StagesInv, kind = "youtube", NEW r \in mig.left, NEW rows, NEW known,
           Replayed(r, rows, known), mig.at = "replay", \A s \in rows : ~IsStage(s)
    PROVE  StagesInv'
<1>1. mig' = [mig EXCEPT !.left = mig.left \ {r}, !.known = mig.known \cup known]
  BY DEF Replayed
<1>2. /\ IsMigration(mig') /\ mig'.left \subseteq mig.left /\ mig'.step = mig.step /\ mig'.at = mig.at
  BY <1>1 DEF FenceInv, IsMigration
<1>3. UNCHANGED <<store, db>> /\ pend' = pend \cup rows
  BY DEF Replayed
<1>4. kind' = kind /\ Script' = Script
  BY <1>3 DEF kind, Script
<1>5. \A s \in pend' : IsStage(s) => s \in pend
  BY <1>3
<1>6. \A s, u \in db' \cup pend' : IsStage(s) /\ IsStage(u) /\ s.owner = u.owner => s = u
  BY <1>3, <1>5 DEF StagesInv
<1>7. \A s \in pend' : IsStage(s) =>
         /\ ClaimOf(s.owner) \in pend' /\ ClaimOf(s.owner) \notin db' /\ mig'.step >= 2
         /\ \A q \in mig'.left : q.tab = "youtube_pipeline_runs" => q.owner # s.owner
  BY <1>2, <1>3, <1>5 DEF StagesInv
<1>8. \A s \in db' : IsStage(s) => ClaimOf(s.owner) \in db'
  BY <1>3 DEF StagesInv
<1>9. mig'.at = "replay" =>
         \A q \in mig'.left : mig'.step <= Len(Script') /\ q.tab = Script'[mig'.step][2]
  BY <1>2, <1>4 DEF StagesInv
<1> QED BY <1>6, <1>7, <1>8, <1>9 DEF StagesInv

(* A stage is copied along with its claim.                                 *)
LEMMA ClaimedStage ==
    ASSUME FenceInv, RowsInv, StepInv, StagesInv, kind = "youtube", NEW r \in mig.left, InsertOnce(r)
    PROVE  StagesInv'
<1>1. mig.at = "replay" /\ Script[mig.step][1] = "once" /\ mig.step \in Nat \ {0} /\
          r \in OldRows("youtube")
  BY DEF InsertOnce, Turn, StepInv, RowsInv
<1>2. Script = YouTubeScript /\ Script[1][1] # "once" /\ Script[3][1] # "once" /\ Len(Script) = 3
  BY YouTubeHas DEF Script
<1>3. mig.step <= Len(Script) /\ r.tab = Script[mig.step][2]
  BY <1>1 DEF StagesInv
<1>4. mig.step = 2 /\ r.tab = "youtube_pipeline_runs"
  <2>1. mig.step \in {1, 2, 3}
    BY <1>1, <1>2, <1>3
  <2>2. mig.step = 2
    BY <1>1, <1>2, <2>1
  <2> QED BY <1>2, <1>3, <2>2, YouTubeHas
<1>5. \A q \in mig.left : q.tab = "youtube_pipeline_runs" /\ q.owner = r.owner => q = r
  <2>1. mig.left \subseteq OldRows("youtube")
    BY DEF RowsInv
  <2> QED BY <1>1, <1>4, <2>1, OldStages
<1>6. Claim(r) = ClaimOf(r.owner)
  BY <1>1, <1>4, OldStages
<1>7. CASE Claim(r) \in db
  <2>1. Replayed(r, {}, {})
    BY <1>7 DEF InsertOnce
  <2> QED BY <1>1, <2>1, OtherRows
<1>8. CASE Claim(r) \notin db
  <2> DEFINE n == [r EXCEPT !.id = StageId(r.owner)]
             c == Claim(r)
  <2>1. Replayed(r, {c, n}, {})
    BY <1>8 DEF InsertOnce
  <2>2. n.tab = r.tab /\ n.owner = r.owner /\ c.tab = Ledger /\ c.tab # "youtube_pipeline_runs"
    BY DEF FenceInv, IsRow, Claim, Ledger
  <2> HIDE DEF n, c
  <2>3. mig' = [mig EXCEPT !.left = mig.left \ {r}, !.known = mig.known \cup {}]
    BY <2>1 DEF Replayed
  <2>4. IsMigration(mig') /\ mig'.left = mig.left \ {r} /\ mig'.step = mig.step /\ mig'.at = mig.at
    BY <2>3 DEF FenceInv, IsMigration
  <2>5. UNCHANGED <<store, db>> /\ pend' = pend \cup {c, n}
    BY <2>1 DEF Replayed
  <2>6. kind' = kind /\ Script' = Script
    BY <2>5 DEF kind, Script
  <2>7. \A s \in db \cup pend : IsStage(s) => s.owner # r.owner
    <3>1. \A s \in db : IsStage(s) => s.owner # r.owner
      BY <1>6, <1>8 DEF StagesInv
    <3>2. \A s \in pend : IsStage(s) => s.owner # r.owner
      BY <1>4 DEF StagesInv
    <3> QED BY <3>1, <3>2
  <2>8. \A s \in pend' : IsStage(s) => s \in pend \/ s = n
    BY <2>2, <2>5 DEF IsStage
  <2>9. \A s, u \in db' \cup pend' : IsStage(s) /\ IsStage(u) /\ s.owner = u.owner => s = u
    <3>1. SUFFICES ASSUME NEW s \in db' \cup pend', NEW u \in db' \cup pend',
                          IsStage(s), IsStage(u), s.owner = u.owner
                   PROVE  s = u
      OBVIOUS
    <3>2. s \in db \cup pend \/ s = n
      BY <2>5, <2>8, <3>1
    <3>3. u \in db \cup pend \/ u = n
      BY <2>5, <2>8, <3>1
    <3>4. CASE s = n
      BY <2>2, <2>7, <3>1, <3>3, <3>4
    <3>5. CASE u = n
      BY <2>2, <2>7, <3>1, <3>2, <3>5
    <3>6. CASE s # n /\ u # n
      BY <3>1, <3>2, <3>3, <3>6 DEF StagesInv
    <3> QED BY <3>4, <3>5, <3>6
  <2>10. ASSUME NEW s \in pend', IsStage(s)
         PROVE  /\ ClaimOf(s.owner) \in pend' /\ ClaimOf(s.owner) \notin db' /\ mig'.step >= 2
                /\ \A q \in mig'.left : q.tab = "youtube_pipeline_runs" => q.owner # s.owner
    <3>1. CASE s = n
      <4>1. ClaimOf(s.owner) = c
        BY <1>6, <2>2, <3>1 DEF c
      <4>2. c \in pend' /\ c \notin db' /\ mig'.step >= 2
        BY <1>4, <1>8, <2>4, <2>5 DEF c
      <4>3. \A q \in mig'.left : q.tab = "youtube_pipeline_runs" => q.owner # s.owner
        BY <1>5, <2>2, <2>4, <3>1
      <4> QED BY <4>1, <4>2, <4>3
    <3>2. CASE s # n
      <4>1. s \in pend
        BY <2>8, <2>10, <3>2
      <4> QED BY <2>4, <2>5, <2>10, <4>1 DEF StagesInv
    <3> QED BY <3>1, <3>2
  <2>11. \A s \in db' : IsStage(s) => ClaimOf(s.owner) \in db'
    BY <2>5 DEF StagesInv
  <2>12. mig'.at = "replay" =>
            \A q \in mig'.left : mig'.step <= Len(Script') /\ q.tab = Script'[mig'.step][2]
    BY <2>4, <2>6 DEF StagesInv
  <2> QED BY <2>9, <2>10, <2>11, <2>12 DEF StagesInv
<1> QED BY <1>7, <1>8

(* A replayed row keeps the stages with their claims,                      *)
LEMMA RowKeepsStages ==
    ASSUME FenceInv, RowsInv, StepInv, StagesInv, kind = "youtube", NEW r \in mig.left,
           Check(r) \/ Insert(r) \/ InsertItem(r) \/ InsertReview(r) \/ Parity(r)
    PROVE  StagesInv'
<1>1. mig.at = "replay" /\ mig.step \in Nat \ {0} /\ mig.step <= Len(Script)
  BY DEF Check, Insert, InsertItem, InsertReview, Parity, Turn, StepInv
<1>2. Script = YouTubeScript
  BY YouTubeHas DEF Script
<1>3. mig.step \in {1, 2, 3}
  BY <1>1, <1>2, YouTubeHas
<1>4. Script[mig.step][1] \in {"skip", "once"}
  BY <1>2, <1>3, YouTubeHas
<1>5. Insert(r)
  BY <1>4 DEF Check, InsertItem, InsertReview, Parity, Turn
<1>6. r.tab # "youtube_pipeline_runs"
  <2>1. Script[mig.step][1] = "skip" /\ r.tab = Script[mig.step][2]
    BY <1>1, <1>5 DEF Insert, Turn, StagesInv
  <2> QED BY <1>2, <1>3, <2>1, YouTubeHas
<1>7. Rollback \/ Replayed(r, {}, {}) \/ Replayed(r, {r}, {})
  BY <1>5 DEF Insert
<1>8. Rollback => StagesInv'
  <2>1. Rollback => UNCHANGED <<store, db>> /\ pend' = {} /\ mig'.at # "replay"
    BY DEF Rollback, NoRun
  <2> QED BY <2>1, NoRunStages
<1>9. ~IsStage(r)
  BY <1>6 DEF IsStage
<1> QED BY <1>1, <1>7, <1>8, <1>9, OtherRows

(* and so does every step of the migration,                                *)
LEMMA MigrationKeepsStages ==
    ASSUME FenceInv, RowsInv, StepInv, StagesInv, kind = "youtube", MigrationStep
    PROVE  StagesInv'
<1>1. Rollback => StagesInv'
  <2>1. Rollback => UNCHANGED <<store, db>> /\ pend' = {} /\ mig'.at # "replay"
    BY DEF Rollback, NoRun
  <2> QED BY <2>1, NoRunStages
<1>2. CASE StartMigration
  <2>1. PICK sel : mig' = [NoRun EXCEPT !.at = "lock", !.sel = sel]
    BY <1>2 DEF StartMigration
  <2>2. mig'.at # "replay" /\ pend' = {} /\ UNCHANGED <<store, db>>
    BY <1>2, <2>1 DEF StartMigration, NoRun, FenceInv
  <2> QED BY <2>2, NoRunStages
<1>3. CASE LockOwner
  <2>1. \/ Rollback
        \/ UNCHANGED <<store, db, pend>> /\ pend = {} /\ (mig' = At(1) \/ mig' = mig)
    BY <1>3 DEF LockOwner, FenceInv
  <2>2. mig' = mig => mig'.at # "replay"
    BY <1>3 DEF LockOwner
  <2>3. ASSUME UNCHANGED <<store, db, pend>>, pend = {}, mig' = At(1) PROVE StagesInv'
    <3>1. 1 \in Nat \ {0}
      OBVIOUS
    <3> QED BY <2>3, <3>1, NoLeftovers
  <2> QED BY <1>1, <2>1, <2>2, <2>3, NoRunStages
<1>4. CASE NextStatement \/ SetSequence
  <2>1. mig' = At(mig.step + 1) /\ mig.at = "replay" /\ UNCHANGED <<store, db, pend>> /\
            mig.step <= Len(Script)
    BY <1>4 DEF NextStatement, SetSequence, tableVars
  <2>2. mig.step + 1 \in Nat \ {0}
    BY <2>1 DEF StepInv
  <2>3. CASE mig.step >= 2
    <3>1. mig.step + 1 >= 3
      BY <2>1, <2>3 DEF StepInv
    <3> QED BY <2>1, <2>2, <3>1, NoLeftovers
  <2>4. CASE ~(mig.step >= 2)
    <3>1. \A r \in pend : ~IsStage(r)
      BY <2>4 DEF StagesInv
    <3> DEFINE n == mig.step + 1
    <3>2. /\ mig'.step = n
          /\ mig'.left = IF n <= Len(Script) THEN Source(mig.sel, {Script[n][2]}) ELSE {}
      BY <2>1 DEF At, FenceInv, IsMigration
    <3>3. \A q \in mig'.left : n <= Len(Script) /\ q.tab = Script[n][2]
      BY <3>2 DEF Source
    <3>4. kind' = kind /\ Script' = Script
      BY <2>1 DEF kind, Script
    <3> HIDE DEF n
    <3> QED BY <2>1, <3>1, <3>2, <3>3, <3>4 DEF StagesInv
  <2> QED BY <2>3, <2>4
<1>5. CASE FinishMigration
  <2>1. db' = db \cup pend /\ pend' = {} /\ store' = store /\ mig' = NoRun
    BY <1>5 DEF FinishMigration, Visible
  <2>2. mig'.at # "replay" /\ kind' = kind
    BY <2>1 DEF NoRun, kind
  <2> QED BY <2>1, <2>2 DEF StagesInv
<1>6. ASSUME NEW r \in Upcoming,
             Check(r) \/ Insert(r) \/ InsertItem(r) \/ InsertOnce(r) \/ InsertReview(r) \/ Parity(r)
      PROVE  StagesInv'
  <2>1. r \in mig.left
    BY DEF Upcoming
  <2> QED BY <1>6, <2>1, ClaimedStage, RowKeepsStages
<1> QED BY <1>2, <1>3, <1>4, <1>5, <1>6 DEF MigrationStep

(* and every step of the plane,                                            *)
LEMMA StagesStep == ASSUME PlaneInv, StagesInv, [Next]_vars PROVE StagesInv'
<1>1. kind' = kind
  BY StoreStays DEF PlaneInv, kind
<1>2. CASE kind # "youtube"
  BY <1>1, <1>2 DEF StagesInv
<1>3. CASE kind = "youtube"
  <2>1. ASSUME NEW t \in Threads, LiveStep(t), UNCHANGED migVars PROVE StagesInv'
    <3>1. \A w \in Kind[kind].writes : ~Merges(w) /\ ~Drops(w)
      BY <1>3, YouTubeHas, YouTubeWritesAre
    <3>2. ~Delete(t) /\ ~MergeReads(t)
      BY <3>1 DEF Delete, MergeReads
    <3>3. ~MergeWrites(t) /\ ~LocalMergeWrites(t)
      <4>1. Open(t) => ~Merges(tx[t].write)
        BY <3>1, OpenFits DEF PlaneInv
      <4> QED BY <4>1, MergesAre DEF MergeWrites, LocalMergeWrites
    <3>4. CASE Begin(t)
      BY <2>1, <3>4, StagesKeep DEF Begin, migVars
    <3>5. CASE Write(t)
      BY <1>3, <2>1, <3>5, WriteKeepsStages DEF PlaneInv, migVars
    <3> QED BY <2>1, <3>2, <3>3, <3>4, <3>5 DEF LiveStep
  <2>2. \A t \in Threads : ~AgentStep(t) /\ ~Ends(t)
    <3>1. ~Agents
      BY <1>3 DEF Agents
    <3>2. \A t \in Threads : agent[t] = NoRequest
      BY <3>1 DEF PlaneInv, ServingInv
    <3>3. NoRequest.at = "idle"
      BY DEF NoRequest
    <3> QED BY <3>1, <3>2, <3>3
       DEF AgentStep, Run, Approve, SetRunning, CreateToolCall, InvokeTool, Mark,
         Refused, Ends
  <2>3. CASE MigrationStep
    BY <1>3, <2>3, MigrationKeepsStages DEF PlaneInv
  <2>4. CASE Crash
    <3>1. \/ UNCHANGED <<store, db, pend, mig>>
          \/ Rollback
      BY <2>2, <2>4 DEF Crash, migVars
    <3>2. UNCHANGED <<store, db, pend, mig>> => StagesInv'
      BY StagesKeep
    <3>3. Rollback => UNCHANGED <<store, db>> /\ pend' = {} /\ mig'.at # "replay"
      BY DEF Rollback, NoRun
    <3> QED BY <1>3, <3>1, <3>2, <3>3, NoRunStages
  <2>5. CASE UNCHANGED vars
    BY <2>5, StagesKeep DEF vars, tableVars, migVars
  <2>6. CASE ErasureStep /\ UNCHANGED migVars
    BY <1>3, <2>6, ErasureKeepsStages DEF PlaneInv, migVars
  <2> QED BY <2>1, <2>2, <2>3, <2>4, <2>5, <2>6 DEF Next
<1> QED BY <1>2, <1>3

(* as they are at the start.                                               *)
LEMMA StagesInit == Init => StagesInv
<1> SUFFICES ASSUME Init, kind = "youtube" PROVE StagesInv
  BY DEF StagesInv
<1>1. PICK k \in DOMAIN Kind : \E rows \in Targets(k) :
         TablesInit(k, IF k \in {"agents", "local_agents"} THEN Awaiting(rows) ELSE rows)
  BY DEF Init
<1>2. k = "youtube"
  BY <1>1 DEF TablesInit, kind
<1>3. PICK rows \in Targets("youtube") : db = rows /\ pend = {}
  BY <1>1, <1>2 DEF TablesInit
<1> DEFINE scripted == {Kind["youtube"].script[n][2] : n \in 1..Len(Kind["youtube"].script)}
<1>4. "youtube_pipeline_runs" \in scripted
  <2>1. 2 \in 1..Len(Kind["youtube"].script) /\ Kind["youtube"].script[2][2] = "youtube_pipeline_runs"
    BY YouTubeHas
  <2> QED BY <2>1
<1>5. rows \subseteq {r \in OldRows("youtube") : r.tab \notin scripted}
  BY <1>3 DEF Targets
<1> HIDE DEF scripted
<1>6. \A r \in db : ~IsStage(r)
  BY <1>3, <1>4, <1>5 DEF IsStage
<1>7. mig.at # "replay"
  BY DEF Init, MigrationInit, NoRun
<1> QED BY <1>3, <1>6, <1>7 DEF StagesInv

(* However often the old file is migrated, beside live writes and the      *)
(* erasure, each of its stages is copied once.                             *)
THEOREM StagesOnce == Spec => []StagesMigrateOnce
<1>1. PlaneInv /\ StagesInv /\ [Next]_vars => StagesInv'
  BY StagesStep
<1>2. ASSUME StagesInv PROVE StagesMigrateOnce
  <2> SUFFICES ASSUME kind = "youtube", NEW r \in OldRows("youtube"), r.tab = "youtube_pipeline_runs"
               PROVE  Cardinality({s \in db \cup pend :
                         s.tab = r.tab /\ s.owner = r.owner /\ s.body = "old"}) <= 1
    BY DEF StagesMigrateOnce
  <2> DEFINE S == {s \in db \cup pend : s.tab = r.tab /\ s.owner = r.owner /\ s.body = "old"}
  <2>1. \A s, u \in S : s = u
    BY <1>2 DEF StagesInv, IsStage
  <2> HIDE DEF S
  <2>2. Cardinality(S) = 0 \/ Cardinality(S) = 1
    <3>1. CASE S = {}
      BY <3>1, FS_EmptySet
    <3>2. CASE S # {}
      <4>1. PICK s : S = {s}
        BY <2>1, <3>2
      <4> QED BY <4>1, FS_Singleton
    <3> QED BY <3>1, <3>2
  <2> QED BY <2>2 DEF S
<1> QED BY <1>1, <1>2, StagesInit, PlaneHolds, PTL DEF Spec

-----------------------------------------------------------------------------
(* A set of numbers with a bound has a largest one.                        *)
LEMMA LargestOf ==
    ASSUME NEW S \in SUBSET Nat, S # {}, NEW b \in Nat, \A i \in S : i <= b
    PROVE  \E n \in S : \A i \in S : i <= n
<1> DEFINE T == {m \in Nat : \A i \in S : i <= m}
           less == OpToRel(<, Nat)
<1>1. b \in T
  OBVIOUS
<1>2. PICK n \in T : \A m \in T : <<m, n>> \notin less
  <2>1. T \subseteq Nat /\ T # {}
    BY <1>1
  <2> HIDE DEF T
  <2> QED BY <2>1, NatLessThanWellFounded, WFMin
<1>3. ASSUME n \notin S PROVE FALSE
  <2>1. PICK i \in S : TRUE
    OBVIOUS
  <2>2. \A j \in S : j <= n - 1
    BY <1>3
  <2>3. n - 1 \in T
    BY <2>1, <2>2
  <2>4. <<n - 1, n>> \in less
    BY <2>3 DEF OpToRel
  <2> QED BY <1>2, <2>3, <2>4
<1> QED BY <1>3

(* No event is there, or open, with an id that the sequence has still to   *)
(* give, and no two have the same; what a migration brings over is below   *)
(* the sequence before it is committed.                                    *)
EventsInv ==
    kind = "events" /\ ~muddled =>
        /\ seq \in Nat
        /\ \A r \in db : r.id \in Nat /\ r.id < seq
        /\ \A t \in Threads : Open(t) =>
              /\ tx[t].id \in Nat /\ tx[t].id < seq
              /\ \A r \in db : r.id # tx[t].id
              /\ \A u \in Threads \ {t} : Open(u) => tx[u].id # tx[t].id
        /\ \A r \in pend : r.id \in Owners
        /\ mig.at = "replay" /\ mig.step > Len(Script) => \A r \in pend : r.id < seq

(* The store of the events: one table, one write, three statements.        *)
LEMMA EventsAre ==
    /\ DOMAIN Kind["events"].tables = {"intelligence_events"}
    /\ Kind["events"].tables["intelligence_events"].unique = {"id"}
    /\ Kind["events"].tables["intelligence_events"].fk = FALSE
    /\ Kind["events"].tables["intelligence_events"].keys = {1}
    /\ Kind["events"].writes = {[intelligence_events |-> "insert"]}
    /\ Kind["events"].script = EventScript
<1>1. Kind["events"] = Store(EventTables, EventWrites, EventScript)
  BY KindsAre DEF Shared, Local
<1>2. EventTables["intelligence_events"] = Plain /\ DOMAIN EventTables = {"intelligence_events"}
  BY DEF EventTables
<1> QED BY <1>1, <1>2, ToldAre DEF Store, EventWrites

(* Its migration checks the ids, copies the rows and moves the sequence.   *)
LEMMA EventScriptIs ==
    /\ Len(EventScript) = 3
    /\ EventScript[1][1] = "check" /\ EventScript[2][1] = "skip" /\ EventScript[3][1] = "setval"
    /\ EventScript[2][2] = "intelligence_events"
BY DEF EventScript, Skip

(* The one write is neither a merge nor a deletion.                        *)
LEMMA EventWriteIs ==
    \A w \in Kind["events"].writes :
        /\ ~Merges(w) /\ ~Drops(w) /\ w # <<>>
        /\ DOMAIN w = {"intelligence_events"} /\ w["intelligence_events"] = "insert"
<1> DEFINE e == [intelligence_events |-> "insert"]
<1>1. DOMAIN e = {"intelligence_events"} /\ e["intelligence_events"] = "insert"
  OBVIOUS
<1>2. e # <<>>
  <2>1. DOMAIN <<>> = {}
    OBVIOUS
  <2> QED BY <1>1, <2>1
<1> HIDE DEF e
<1>3. ~Merges(e) /\ ~Drops(e)
  BY <1>1 DEF Merges, Drops
<1> QED BY <1>1, <1>2, <1>3, EventsAre DEF e

(* An old event has its owner's number for an id.                          *)
LEMMA OldEvents ==
    ASSUME NEW r \in OldRows("events")
    PROVE  r.tab = "intelligence_events" /\ r.id \in Owners /\ r.owner = r.id
<1> DEFINE tables == Kind["events"].tables
           OldId(tab, o, key) == IdOf(tables[tab], key, IF key = 1 THEN o ELSE o + Leaver)
           Row(tab, o, key) ==
             [tab |-> tab, owner |-> o, id |-> OldId(tab, o, key), key |-> key, body |-> "old",
              ref |-> {OldId(tables[tab].parent, o, p) : p \in tables[tab].refs}]
           plain == UNION {{Row(tab, o, key) : o \in Owners, key \in tables[tab].keys}
                           : tab \in DOMAIN tables \ {"youtube_sqlite_migration_ledger"}}
<1>1. OldRows("events") = Linked(plain)
  BY DEF OldRows
<1>2. /\ DOMAIN tables = {"intelligence_events"} /\ tables["intelligence_events"].unique = {"id"}
      /\ tables["intelligence_events"].keys = {1}
  BY EventsAre
<1> HIDE DEF tables
<1>3. \A o \in Owners : OldId("intelligence_events", o, 1) = o
  BY <1>2, LeaverAssumption DEF IdOf, Owners
<1> HIDE DEF OldId
<1>4. \A tab, o, key : /\ Row(tab, o, key).tab = tab /\ Row(tab, o, key).owner = o
                        /\ Row(tab, o, key).id = OldId(tab, o, key)
  OBVIOUS
<1> HIDE DEF Row
<1>5. \A q \in plain : q.tab = "intelligence_events" /\ q.id \in Owners /\ q.owner = q.id
  BY <1>2, <1>3, <1>4
<1> HIDE DEF plain
<1>6. Linked(plain) = plain
  BY <1>5 DEF Linked
<1> QED BY <1>1, <1>5, <1>6

(* An open transaction stays open when another one commits.                *)
LEMMA CrossedEvent ==
    ASSUME RowsInv, kind = "events", NEW t \in Threads, Open(t), NEW c
    PROVE  [tx[t] EXCEPT !.crossed = c] # Idle /\ [tx[t] EXCEPT !.crossed = c].id = tx[t].id
<1> DEFINE y == [tx[t] EXCEPT !.crossed = c]
<1>1. TxFits(kind, tx[t]) /\ tx[t].write # <<>>
  BY OpenFits, EventWriteIs
<1>2. y.write = tx[t].write /\ y.id = tx[t].id
  BY <1>1 DEF TxFits
<1> HIDE DEF y
<1>3. y # Idle
  BY <1>1, <1>2 DEF Idle
<1> QED BY <1>2, <1>3 DEF y

(* What only takes events away keeps this,                                 *)
LEMMA EventsKeep ==
    ASSUME EventsInv, UNCHANGED <<store, seq, tx, pend, mig, muddled>>, db' \subseteq db
    PROVE  EventsInv'
<1>1. kind' = kind /\ Script' = Script /\ \A t \in Threads : Open(t)' = Open(t)
  BY DEF kind, Script, Open
<1> QED BY <1>1 DEF EventsInv

(* and so does a migration that ends without its rows.                     *)
LEMMA EventsRolledBack ==
    ASSUME EventsInv, UNCHANGED <<store, seq, db, tx, muddled>>, pend' = {}
    PROVE  EventsInv'
<1>1. kind' = kind /\ \A t \in Threads : Open(t)' = Open(t)
  BY DEF kind, Open
<1> QED BY <1>1 DEF EventsInv

(* What a write of an event has found is nothing; what it writes is one    *)
(* row, under the id it took.                                              *)
LEMMA EventWritten ==
    ASSUME RowsInv, kind = "events", NEW t \in Threads, Open(t)
    PROVE  /\ \A tab \in Tabs(t) : Finds(t, tab) = {}
           /\ \E n : Anew(t) = {n} /\ n.tab = "intelligence_events" /\ n.id = tx[t].id
           /\ \A tab \in Tabs(t) : Verb(t, tab) = "insert"
<1>1. Tabs(t) = {"intelligence_events"} /\ Verb(t, "intelligence_events") = "insert"
  BY OpenFits, EventWriteIs DEF Tabs, Verb
<1>2. Decides(t, "intelligence_events") = {}
  BY <1>1 DEF Decides
<1>3. Finds(t, "intelligence_events") = {}
  BY <1>2 DEF Finds
<1>4. Inserts(t, "intelligence_events")
  BY <1>1, <1>2 DEF Inserts
<1>5. Anew(t) = {Written(t, "intelligence_events")}
  BY <1>1, <1>4 DEF Anew
<1>6. "id" \in Table("intelligence_events").unique
  BY TableIs, EventsAre
<1>7. /\ Written(t, "intelligence_events").tab = "intelligence_events"
      /\ Written(t, "intelligence_events").id = tx[t].id
  BY <1>1, <1>6 DEF Written, IdOf
<1> QED BY <1>1, <1>3, <1>5, <1>7

(* An event is written, if no other has its id.                            *)
LEMMA EventStored ==
    ASSUME RowsInv, kind = "events", NEW t \in Threads, Write(t)
    PROVE  /\ Open(t)
           /\ \E n : /\ n.id = tx[t].id
                     /\ \/ Committed(t, db \cup {n})
                        \/ Committed(t, db) /\ \E r \in db : r.id = tx[t].id
<1> DEFINE found == UNION {Finds(t, tab) : tab \in Tabs(t)}
           gone  == {r \in found : Verb(t, r.tab) = "replace"}
           fresh == {n \in Anew(t) : Verb(t, n.tab) = "ignore" => InTheWay(n, db) = {}}
           kept == {[r EXCEPT !.body = "live"] : r \in found \ gone}
           result == (db \ found) \cup kept \cup fresh
           raises == \/ \E n \in fresh : InTheWay(n, db \ gone) # {}
                     \/ \E n \in fresh : Dangling(n, result)
<1>1. Open(t) /\ Committed(t, IF raises THEN db ELSE result)
  BY DEF Write
<1>2. found = {}
  BY <1>1, EventWritten
<1>3. PICK n : Anew(t) = {n} /\ n.tab = "intelligence_events" /\ n.id = tx[t].id
  BY <1>1, EventWritten
<1>4. Verb(t, n.tab) = "insert"
  <2>1. n.tab \in Tabs(t)
    BY <1>1, <1>3, OpenFits, EventWriteIs DEF Tabs
  <2> QED BY <1>1, <2>1, EventWritten
<1>5. fresh = {n}
  BY <1>3, <1>4
<1>6. gone = {} /\ kept = {}
  BY <1>2
<1> HIDE DEF found, fresh, kept, gone
<1>7. result = db \cup {n}
  BY <1>2, <1>5, <1>6
<1>8. Table(n.tab).unique = {"id"} /\ Table(n.tab).fk = FALSE
  BY <1>3, TableIs, EventsAre
<1>9. ~Dangling(n, result)
  BY <1>8 DEF Dangling
<1>10. InTheWay(n, db) # {} => \E r \in db : r.id = n.id
  BY <1>8 DEF InTheWay, Meets
<1>11. db \ gone = db
  BY <1>6
<1>12. raises => \E r \in db : r.id = n.id
  BY <1>5, <1>9, <1>10, <1>11
<1> HIDE DEF result, raises
<1> QED BY <1>1, <1>3, <1>7, <1>12

(* The commit of one leaves the others open.                               *)
LEMMA EventsOpen ==
    ASSUME RowsInv, kind = "events", NEW t \in Threads, NEW rows, Committed(t, rows)
    PROVE  /\ tx'[t] = Idle
           /\ \A u \in Threads : Open(u)' <=> Open(u) /\ u # t
           /\ \A u \in Threads : Open(u)' => tx'[u].id = tx[u].id
<1>1. tx' = [u \in Threads |-> IF u = t \/ ~Open(u) THEN Idle
                               ELSE [tx[u] EXCEPT !.crossed = tx[u].crossed \/ rows # db]]
  BY DEF Committed
<1>2. ASSUME NEW u \in Threads, u # t, Open(u) PROVE tx'[u] # Idle /\ tx'[u].id = tx[u].id
  BY <1>1, <1>2, CrossedEvent
<1>3. \A u \in Threads : u = t \/ ~Open(u) => tx'[u] = Idle
  BY <1>1
<1> QED BY <1>2, <1>3 DEF Open

(* A write keeps the ids apart,                                            *)
LEMMA WriteKeepsEvents ==
    ASSUME RowsInv, EventsInv, kind = "events", NEW t \in Threads, Write(t), UNCHANGED mig
    PROVE  EventsInv'
<1>1. PICK n : n.id = tx[t].id /\ Open(t) /\ (Committed(t, db \cup {n}) \/ Committed(t, db))
  BY EventStored
<1>2. UNCHANGED <<store, seq, pend, muddled>> /\ db' \subseteq db \cup {n}
  BY <1>1 DEF Committed
<1>3. /\ \A u \in Threads : Open(u)' <=> Open(u) /\ u # t
      /\ \A u \in Threads : Open(u)' => tx'[u].id = tx[u].id
  BY <1>1, EventsOpen
<1>4. kind' = kind /\ Script' = Script
  BY <1>2 DEF kind, Script
<1> SUFFICES ASSUME ~muddled PROVE EventsInv'
  BY <1>2 DEF EventsInv
<1>5. seq \in Nat /\ \A r \in db' : r.id \in Nat /\ r.id < seq
  BY <1>1, <1>2 DEF EventsInv
<1>6. ASSUME NEW u \in Threads, Open(u)'
      PROVE  /\ tx'[u].id \in Nat /\ tx'[u].id < seq
             /\ \A r \in db' : r.id # tx'[u].id
             /\ \A v \in Threads \ {u} : Open(v)' => tx'[v].id # tx'[u].id
  <2>1. Open(u) /\ u # t /\ tx'[u].id = tx[u].id
    BY <1>3, <1>6
  <2>2. \A r \in db : r.id # tx[u].id
    BY <2>1 DEF EventsInv
  <2>3. n.id # tx[u].id
    BY <1>1, <2>1 DEF EventsInv
  <2>4. \A v \in Threads \ {u} : Open(v)' => Open(v) /\ tx'[v].id = tx[v].id
    BY <1>3
  <2> QED BY <1>2, <2>1, <2>2, <2>3, <2>4 DEF EventsInv
<1>7. /\ \A r \in pend : r.id \in Owners
      /\ mig.at = "replay" /\ mig.step > Len(Script) => \A r \in pend : r.id < seq
  BY DEF EventsInv
<1> QED BY <1>2, <1>4, <1>5, <1>6, <1>7 DEF EventsInv

(* and so does one that begins and takes the next.                         *)
LEMMA BeginKeepsEvents ==
    ASSUME RowsInv, EventsInv, kind = "events", NEW t \in Threads, Begin(t), UNCHANGED mig
    PROVE  EventsInv'
<1>1. PICK w, key : tx' = [tx EXCEPT ![t] = [write |-> w, key |-> key, id |-> seq,
                                     seen |-> Sees(DOMAIN w, key), crossed |-> FALSE]]
  BY DEF Begin
<1>2. UNCHANGED <<store, db, pend, muddled>> /\ seq' = seq + 1 /\ ~Open(t)
  BY DEF Begin
<1>3. DOMAIN tx = Threads
  BY DEF RowsInv, TxsFit
<1>4. tx'[t].id = seq /\ \A u \in Threads \ {t} : tx'[u] = tx[u]
  BY <1>1, <1>3
<1>5. kind' = kind /\ Script' = Script /\ \A u \in Threads \ {t} : Open(u)' <=> Open(u)
  BY <1>2, <1>4 DEF kind, Script, Open
<1> SUFFICES ASSUME ~muddled PROVE EventsInv'
  BY <1>2 DEF EventsInv
<1>6. seq \in Nat /\ \A r \in db : r.id \in Nat /\ r.id < seq
  BY DEF EventsInv
<1>7. \A u \in Threads \ {t} : Open(u)' => tx'[u].id = tx[u].id /\ tx[u].id \in Nat /\ tx[u].id < seq
  BY <1>4, <1>5 DEF EventsInv
<1>8. ASSUME NEW u \in Threads, Open(u)'
      PROVE  /\ tx'[u].id \in Nat /\ tx'[u].id < seq'
             /\ \A r \in db : r.id # tx'[u].id
             /\ \A v \in Threads \ {u} : Open(v)' => tx'[v].id # tx'[u].id
  <2>1. CASE u = t
    BY <1>2, <1>4, <1>6, <1>7, <2>1
  <2>2. CASE u # t
    <3>1. Open(u) /\ tx'[u].id = tx[u].id
      BY <1>5, <1>7, <1>8, <2>2
    <3>2. \A v \in Threads \ {u} : Open(v)' => tx'[v].id # tx'[u].id
      <4>1. \A v \in Threads \ {u, t} : Open(v)' => tx'[v].id # tx'[u].id
        BY <1>5, <1>7, <3>1 DEF EventsInv
      <4>2. tx'[t].id # tx'[u].id
        BY <1>4, <1>6, <1>7, <1>8, <2>2
      <4> QED BY <4>1, <4>2
    <3>3. \A r \in db : r.id # tx'[u].id
      BY <3>1 DEF EventsInv
    <3>4. tx[u].id \in Nat /\ tx[u].id < seq'
      BY <1>2, <1>6, <1>7, <1>8, <2>2
    <3> QED BY <3>1, <3>2, <3>3, <3>4
  <2> QED BY <2>1, <2>2
<1>9. \A r \in db' : r.id \in Nat /\ r.id < seq'
  BY <1>2, <1>6
<1>10. /\ \A r \in pend : r.id \in Owners
       /\ mig.at = "replay" /\ mig.step > Len(Script) => \A r \in pend : r.id < seq'
  <2>1. \A r \in pend : r.id \in Nat
    BY LeaverAssumption DEF EventsInv, Owners
  <2> QED BY <1>2, <1>6, <2>1 DEF EventsInv
<1> QED BY <1>2, <1>5, <1>6, <1>8, <1>9, <1>10 DEF EventsInv

(* setval puts the sequence above all that is there to be seen.            *)
LEMMA SetvalIsAbove ==
    ASSUME SetSequence, \A r \in Visible : r.id \in Nat,
           NEW b \in Nat, \A r \in Visible : r.id <= b
    PROVE  seq' \in Nat /\ \A r \in Visible : r.id < seq'
<1> DEFINE ids == {r.id : r \in Visible}
           largest == CHOOSE n \in ids : \A i \in ids : i <= n
<1>1. seq' = IF ids = {} THEN 1 ELSE 1 + largest
  BY DEF SetSequence
<1>2. ids \in SUBSET Nat /\ \A i \in ids : i <= b
  OBVIOUS
<1>3. ids = {} => \A r \in Visible : FALSE
  OBVIOUS
<1>4. \A r \in Visible : r.id \in ids
  OBVIOUS
<1> HIDE DEF ids
<1>5. CASE ids = {}
  BY <1>1, <1>3, <1>5
<1>6. CASE ids # {}
  <2>1. \E n \in ids : \A i \in ids : i <= n
    BY <1>2, <1>6, LargestOf
  <2>2. largest \in ids /\ \A i \in ids : i <= largest
    BY <2>1
  <2> HIDE DEF largest
  <2> QED BY <1>1, <1>2, <1>4, <1>6, <2>2
<1> QED BY <1>5, <1>6

(* A step of the migration moves the sequence up, and commits only what    *)
(* is below it.                                                            *)
LEMMA MigrationKeepsEvents ==
    ASSUME FenceInv, RowsInv, StepInv, EventsInv, kind = "events", MigrationStep
    PROVE  EventsInv'
<1>1. Script = EventScript /\ Len(Script) = 3
  BY EventsAre, EventScriptIs DEF Script
<1>2. UNCHANGED store /\ kind' = kind /\ Script' = Script /\ (muddled => muddled')
  BY MigrationLeaves DEF kind, Script, MigrationStep, StartMigration, LockOwner, NextStatement,
       SetSequence, FinishMigration, Check, Insert, InsertItem, InsertOnce, InsertReview,
       Parity, Replayed, Rollback, tableVars
<1> SUFFICES ASSUME ~muddled' PROVE EventsInv'
  BY <1>2 DEF EventsInv
<1>3. ASSUME UNCHANGED <<seq, db, tx, muddled>>, \A r \in pend' : r.id \in Owners,
             ~(mig'.at = "replay" /\ mig'.step > 3) \/ pend' = {}
      PROVE  EventsInv'
  <2>1. \A t \in Threads : Open(t)' = Open(t)
    BY <1>3 DEF Open
  <2> QED BY <1>1, <1>2, <1>3, <2>1 DEF EventsInv
<1>4. Rollback => EventsInv'
  BY EventsRolledBack DEF Rollback
<1>5. \A r \in pend : r.id \in Owners
  BY <1>2 DEF EventsInv
<1>6. CASE StartMigration
  <2>1. UNCHANGED <<seq, db, tx, muddled, pend>> /\ mig.at = "none"
    BY <1>6 DEF StartMigration
  <2>2. pend = {}
    BY <2>1 DEF FenceInv
  <2> QED BY <1>3, <2>1, <2>2
<1>7. CASE LockOwner
  <2>1. \/ Rollback
        \/ UNCHANGED <<seq, db, tx, muddled, pend>> /\ mig.at = "lock"
    BY <1>7 DEF LockOwner
  <2>2. mig.at = "lock" => pend = {}
    BY DEF FenceInv
  <2> QED BY <1>3, <1>4, <2>1, <2>2
<1>8. CASE NextStatement
  <2>1. /\ UNCHANGED <<seq, db, tx, muddled, pend>> /\ mig' = At(mig.step + 1)
        /\ mig.step <= 3 /\ mig.step # 3 /\ mig.at = "replay"
    BY <1>1, <1>8, EventScriptIs DEF NextStatement, tableVars
  <2>2. mig'.step = mig.step + 1
    BY <2>1 DEF At, FenceInv, IsMigration
  <2>3. ~(mig'.step > 3)
    BY <2>1, <2>2 DEF StepInv
  <2> QED BY <1>3, <1>5, <2>1, <2>3
<1>9. CASE SetSequence
  <2>1. UNCHANGED <<db, tx, pend>> /\ ~muddled /\ \A t \in Threads : ~Open(t)
    BY <1>2, <1>9 DEF SetSequence
  <2>2. \A t \in Threads : ~Open(t)'
    BY <2>1 DEF Open
  <2>3. seq \in Nat /\ \A r \in db : r.id \in Nat /\ r.id < seq
    BY <2>1 DEF EventsInv
  <2>4. \A r \in Visible : r.id \in Nat /\ r.id <= seq + Leaver
    BY <1>5, <2>3, LeaverAssumption DEF Visible, Owners
  <2>5. seq + Leaver \in Nat
    BY <2>3, LeaverAssumption
  <2>6. seq' \in Nat /\ \A r \in Visible : r.id < seq'
    BY <1>9, <2>4, <2>5, SetvalIsAbove
  <2> QED BY <1>2, <1>5, <2>1, <2>2, <2>3, <2>6 DEF EventsInv, Visible
<1>10. CASE FinishMigration
  <2>1. ~muddled /\ \A t \in Threads : ~Open(t)
    BY <1>2, <1>10 DEF FinishMigration
  <2>2. UNCHANGED seq /\ db' = db \cup pend /\ pend' = {} /\ Finishing
    BY <1>10 DEF FinishMigration, Visible
  <2>3. tx' = [t \in Threads |-> IF Open(t) THEN [tx[t] EXCEPT !.crossed = tx[t].crossed \/ pend # {}]
                                 ELSE Idle]
    BY <1>10 DEF FinishMigration
  <2>4. \A t \in Threads : ~Open(t)'
    BY <2>1, <2>3 DEF Open
  <2>5. mig.step > 3
    BY <1>1, <2>2 DEF Finishing
  <2>6. \A r \in db' : r.id \in Nat /\ r.id < seq
    <3>1. \A r \in pend : r.id < seq
      BY <1>1, <2>1, <2>2, <2>5 DEF EventsInv, Finishing
    <3>2. \A r \in pend : r.id \in Nat
      BY <1>5, LeaverAssumption DEF Owners
    <3> QED BY <2>1, <2>2, <3>1, <3>2 DEF EventsInv
  <2>7. seq \in Nat
    BY <2>1 DEF EventsInv
  <2> QED BY <2>2, <2>4, <2>6, <2>7 DEF EventsInv
<1>11. ASSUME NEW r \in Upcoming,
              Check(r) \/ Insert(r) \/ InsertItem(r) \/ InsertOnce(r) \/ InsertReview(r) \/ Parity(r)
       PROVE  EventsInv'
  <2>1. r \in mig.left /\ r.id \in Owners
    BY OldEvents DEF Upcoming, RowsInv
  <2>2. mig.at = "replay" /\ mig.step \in {1, 2, 3}
    <3>1. mig.at = "replay" /\ mig.step <= 3
      BY <1>1, <1>11 DEF Turn, Check, Insert, InsertItem, InsertOnce, InsertReview, Parity
    <3> QED BY <3>1 DEF StepInv
  <2>3. Script[mig.step][1] \in {"check", "skip", "setval"}
    BY <1>1, <2>2, EventScriptIs
  <2>4. Check(r) \/ Insert(r)
    BY <1>11, <2>3 DEF Turn, InsertItem, InsertOnce, InsertReview, Parity
  <2>5. \/ Rollback
        \/ \E known : Replayed(r, {}, known) \/ Replayed(r, {r}, known)
    BY <2>4 DEF Check, Insert
  <2>6. ASSUME NEW rows \in {{}, {r}}, NEW known, Replayed(r, rows, known) PROVE EventsInv'
    <3>1. /\ UNCHANGED <<seq, db, tx, muddled>> /\ pend' = pend \cup rows
          /\ mig' = [mig EXCEPT !.left = mig.left \ {r}, !.known = mig.known \cup known]
      BY <2>6 DEF Replayed
    <3>2. mig'.step = mig.step
      BY <3>1 DEF FenceInv, IsMigration
    <3>3. ~(mig'.step > 3)
      BY <2>2, <3>2
    <3> QED BY <1>3, <1>5, <2>1, <3>1, <3>3
  <2> QED BY <1>4, <2>5, <2>6
<1> QED BY <1>6, <1>7, <1>8, <1>9, <1>10, <1>11 DEF MigrationStep

(* None of the requests of the agent runtime concerns events.              *)
LEMMA NoRequestsForEvents ==
    ASSUME ServingInv, ~Agents, NEW t \in Threads PROVE ~AgentStep(t) /\ ~Ends(t)
<1>1. agent[t] = NoRequest
  BY DEF ServingInv
<1>2. NoRequest.at = "idle"
  BY DEF NoRequest
<1> QED BY <1>1, <1>2
   DEF AgentStep, Run, Approve, SetRunning, CreateToolCall, InvokeTool, Mark, Refused, Ends

(* What a live step of the events is.                                      *)
LEMMA EventSteps ==
    ASSUME RowsInv, kind = "events", NEW t \in Threads, LiveStep(t)
    PROVE  Begin(t) \/ Write(t)
<1>1. \A w \in Kind[kind].writes : ~Merges(w) /\ ~Drops(w)
  BY EventWriteIs
<1>2. ~Delete(t) /\ ~MergeReads(t)
  BY <1>1 DEF Delete, MergeReads
<1>3. ~MergeWrites(t) /\ ~LocalMergeWrites(t)
  <2>1. Open(t) => ~Merges(tx[t].write)
    BY <1>1, OpenFits
  <2> QED BY <2>1, MergesAre DEF MergeWrites, LocalMergeWrites
<1> QED BY <1>2, <1>3 DEF LiveStep

(* The erasure takes events away, and nothing else.                        *)
LEMMA ErasureKeepsEvents ==
    ASSUME EventsInv, ErasureStep, UNCHANGED mig PROVE EventsInv'
<1>1. UNCHANGED <<store, seq, tx, pend, muddled>> /\ db' \subseteq db
  BY DEF ErasureStep, Fence, EraseStore, EraseMemories, Finish, Raises, Erased, tableVars
<1> QED BY <1>1, EventsKeep

(* The ids stay apart, whatever the plane does,                            *)
LEMMA EventsStep == ASSUME PlaneInv, EventsInv, [Next]_vars PROVE EventsInv'
<1>1. kind' = kind
  BY StoreStays DEF PlaneInv, kind
<1>2. CASE kind # "events"
  BY <1>1, <1>2 DEF EventsInv
<1>3. CASE kind = "events"
  <2>1. \A t \in Threads : ~AgentStep(t) /\ ~Ends(t)
    <3>1. ~Agents
      BY <1>3 DEF Agents
    <3> QED BY <3>1, NoRequestsForEvents DEF PlaneInv
  <2>2. ASSUME NEW t \in Threads, LiveStep(t), UNCHANGED migVars PROVE EventsInv'
    <3>1. Begin(t) \/ Write(t)
      BY <1>3, <2>2, EventSteps DEF PlaneInv
    <3> QED BY <1>3, <2>2, <3>1, BeginKeepsEvents, WriteKeepsEvents DEF PlaneInv, migVars
  <2>3. CASE MigrationStep
    BY <1>3, <2>3, MigrationKeepsEvents DEF PlaneInv
  <2>4. CASE ErasureStep /\ UNCHANGED migVars
    BY <2>4, ErasureKeepsEvents DEF migVars
  <2>5. CASE Crash
    <3>1. \/ Rollback
          \/ \E t \in Threads :
                tx' = [tx EXCEPT ![t] = Idle] /\ UNCHANGED <<store, db, seq, pend, muddled, mig>>
      BY <2>1, <2>5 DEF Crash, migVars
    <3>2. Rollback => EventsInv'
      BY EventsRolledBack DEF Rollback
    <3>3. ASSUME NEW t \in Threads, tx' = [tx EXCEPT ![t] = Idle],
                 UNCHANGED <<store, db, seq, pend, muddled, mig>>
          PROVE  EventsInv'
      <4>1. kind' = kind /\ Script' = Script
        BY <3>3 DEF kind, Script
      <4>2. DOMAIN tx = Threads
        BY DEF PlaneInv, RowsInv, TxsFit
      <4>3. \A u \in Threads : Open(u)' => Open(u) /\ tx'[u] = tx[u]
        BY <3>3, <4>2 DEF Open
      <4> QED BY <3>3, <4>1, <4>3 DEF EventsInv
    <3> QED BY <3>1, <3>2, <3>3
  <2>6. CASE UNCHANGED vars
    BY <2>6, EventsKeep DEF vars, tableVars, migVars
  <2> QED BY <2>1, <2>2, <2>3, <2>4, <2>5, <2>6 DEF Next
<1> QED BY <1>2, <1>3

(* as they are at the start, when there are none.                          *)
LEMMA EventsInit == Init => EventsInv
<1> SUFFICES ASSUME Init, kind = "events" PROVE EventsInv
  BY DEF EventsInv
<1>1. PICK k \in DOMAIN Kind : \E rows \in Targets(k) :
         TablesInit(k, IF k \in {"agents", "local_agents"} THEN Awaiting(rows) ELSE rows)
  BY DEF Init
<1>2. k = "events"
  BY <1>1 DEF TablesInit, kind
<1>3. PICK rows \in Targets("events") : TablesInit("events", rows)
  BY <1>1, <1>2
<1> DEFINE scripted == {Kind["events"].script[n][2] : n \in 1..Len(Kind["events"].script)}
<1>4. "intelligence_events" \in scripted
  <2>1. 2 \in 1..Len(Kind["events"].script) /\ Kind["events"].script[2][2] = "intelligence_events"
    BY EventsAre, EventScriptIs
  <2> QED BY <2>1
<1>5. rows \subseteq {r \in OldRows("events") : r.tab \notin scripted}
  BY <1>3 DEF Targets
<1> HIDE DEF scripted
<1>6. \A r \in OldRows("events") : r.tab = "intelligence_events"
  BY OldEvents
<1>7. db = {}
  BY <1>3, <1>4, <1>5, <1>6 DEF TablesInit
<1>8. seq = 1 /\ pend = {} /\ \A t \in Threads : ~Open(t)
  BY <1>3 DEF TablesInit, Open
<1> QED BY <1>7, <1>8 DEF EventsInv

(* A transaction that ends without a failure has written its event.        *)
LEMMA RecordedStep ==
    ASSUME PlaneInv, EventsInv, [Next]_vars, NEW t \in Threads, kind = "events", Open(t),
           tx'[t] = Idle, faults' = faults, ~muddled
    PROVE  db' # db
<1>1. tx'[t] # tx[t]
  BY DEF Open
<1>2. \A u \in Threads : ~AgentStep(u)
  <2>1. ~Agents
    BY DEF Agents
  <2> QED BY <2>1, NoRequestsForEvents DEF PlaneInv
<1>3. ASSUME NEW u \in Threads, LiveStep(u) PROVE db' # db
  <2>1. CASE Begin(u)
    <3>1. ~Open(u) /\ \E x : tx' = [tx EXCEPT ![u] = x]
      BY <2>1 DEF Begin
    <3> QED BY <1>1, <3>1
  <2>2. CASE Write(u)
    <3>1. Open(u) /\ \E n : /\ n.id = tx[u].id
                            /\ \/ Committed(u, db \cup {n})
                               \/ Committed(u, db) /\ \E r \in db : r.id = tx[u].id
      BY <2>2, EventStored DEF PlaneInv
    <3>2. \A r \in db : r.id # tx[u].id
      BY <3>1 DEF EventsInv
    <3>3. PICK n : n.id = tx[u].id /\ Committed(u, db \cup {n})
      BY <3>1, <3>2
    <3>4. n \notin db
      BY <3>2, <3>3
    <3> QED BY <3>3, <3>4 DEF Committed
  <2> QED BY <1>3, <2>1, <2>2, EventSteps DEF PlaneInv
<1>4. ~MigrationStep
  <2>1. ASSUME FinishMigration PROVE FALSE
    <3>1. tx'[t] = [tx[t] EXCEPT !.crossed = tx[t].crossed \/ pend # {}]
      BY <2>1 DEF FinishMigration
    <3> QED BY <3>1, CrossedEvent DEF PlaneInv
  <2>2. MigrationStep => UNCHANGED tx \/ FinishMigration
    BY DEF MigrationStep, StartMigration, LockOwner, NextStatement, SetSequence, Check, Insert,
         InsertItem, InsertOnce, InsertReview, Parity, Replayed, Rollback, tableVars
  <2> QED BY <1>1, <2>1, <2>2
<1>5. ~ErasureStep
  <2>1. ErasureStep => UNCHANGED tx
    BY DEF ErasureStep, Fence, EraseStore, EraseMemories, Finish, Raises, Erased, tableVars
  <2> QED BY <1>1, <2>1
<1>6. ~Crash
  <2>1. faults \in Nat
    BY DEF PlaneInv, ErasingInv
  <2> QED BY <2>1 DEF Crash
<1>7. ~UNCHANGED vars
  BY <1>1 DEF vars, tableVars
<1> QED BY <1>2, <1>3, <1>4, <1>5, <1>6, <1>7 DEF Next

(* No event is lost to an id that is taken, unless the sequence was moved  *)
(* while an event was being recorded.                                      *)
THEOREM EventsRecorded == Spec => EventsAreRecorded
<1>1. PlaneInv /\ EventsInv /\ [Next]_vars => EventsInv'
  BY EventsStep
<1> DEFINE recorded == \A t \in Threads :
          kind = "events" /\ Open(t) /\ tx'[t] = Idle /\ faults' = faults /\ ~muddled
             => db' # db
<1>2. PlaneInv /\ EventsInv /\ [Next]_vars => [recorded]_vars
  BY RecordedStep
<1>3. EventsAreRecorded <=> [][recorded]_vars
  BY DEF EventsAreRecorded
<1> HIDE DEF recorded
<1> QED BY <1>1, <1>2, <1>3, EventsInit, PlaneHolds, PTL DEF Spec

-----------------------------------------------------------------------------
(* What migrations bring over.  A statement of a script: it inserts what   *)
(* is told apart by what its clause covers, or counts on a key; and        *)
(* whatever a script checks or compares it also brings over.               *)
Brings == {"skip", "with", "once", "needs"}
Statement(k, x) ==
    /\ x[2] \in DOMAIN Kind[k].tables
    /\ x[1] = "skip" =>
          /\ x[3] \in {{"id"}, {"key"}, {"id", "key"}}
          /\ x[3] \subseteq Kind[k].tables[x[2]].unique
          /\ k = "youtube" => x[3] = {"key"}
    /\ x[1] = "needs" => Kind[k].tables[x[2]].unique = {"key"}
    /\ x[1] = "with" => k = "imports"
    /\ x[1] = "once" <=> x[2] = "youtube_pipeline_runs"
Scripting(k) ==
    \A n \in 1..Len(Kind[k].script) :
       /\ Statement(k, Kind[k].script[n])
       /\ \E m \in 1..Len(Kind[k].script) :
             Kind[k].script[m][2] = Kind[k].script[n][2] /\ Kind[k].script[m][1] \in Brings

(* An INSERT with ON CONFLICT,                                             *)
LEMMA SkipStatement ==
    ASSUME NEW k, k # "youtube", NEW tab \in DOMAIN Kind[k].tables, tab # "youtube_pipeline_runs",
           NEW c \in {{"id"}, {"key"}, {"id", "key"}}, c \subseteq Kind[k].tables[tab].unique
    PROVE  Statement(k, Skip(tab, c)) /\ Skip(tab, c)[1] \in Brings /\ Skip(tab, c)[2] = tab
<1>1. Skip(tab, c)[1] = "skip" /\ Skip(tab, c)[2] = tab /\ Skip(tab, c)[3] = c
  BY DEF Skip
<1> QED BY <1>1 DEF Statement, Brings

(* a script of one of them,                                                *)
LEMMA OneStatement ==
    ASSUME NEW k, NEW x, Kind[k].script = <<x>>, Statement(k, x), x[1] \in Brings
    PROVE  Scripting(k)
<1>1. Len(Kind[k].script) = 1 /\ Kind[k].script[1] = x
  OBVIOUS
<1>2. \A n \in 1..Len(Kind[k].script) : n = 1
  BY <1>1
<1> QED BY <1>1, <1>2 DEF Scripting

(* and of two.                                                             *)
LEMMA TwoStatements ==
    ASSUME NEW k, NEW x, NEW y, Kind[k].script = <<x, y>>, Statement(k, x), Statement(k, y),
           x[1] \in Brings, y[1] \in Brings \/ y[2] = x[2]
    PROVE  Scripting(k)
<1>1. Len(Kind[k].script) = 2 /\ Kind[k].script[1] = x /\ Kind[k].script[2] = y
  OBVIOUS
<1>2. \A n \in 1..Len(Kind[k].script) : n = 1 \/ n = 2
  BY <1>1
<1> QED BY <1>1, <1>2 DEF Scripting

(* The ways of the tables of a store to tell rows apart.                   *)
LEMMA ToldUnique == ASSUME NEW u, NEW keys PROVE Told(u, keys).unique = u
BY DEF Told

(* The tables that say so in TenantTables,                                 *)
LEMMA TellingIs ==
    /\ Natural.unique = {"key"} /\ Keyed.unique = {"id", "key"} /\ Plain.unique = {"id"}
    /\ Both = {"id", "key"}
BY ToldUnique DEF Natural, Keyed, Plain, Both

(* Every store with a migration has such a script.                         *)
LEMMA ScriptsAre == \A k \in DOMAIN Shared : Kind[k].script # <<>> => Scripting(k)
<1> SUFFICES ASSUME NEW k \in DOMAIN Shared, Kind[k].script # <<>> PROVE Scripting(k)
  OBVIOUS
<1>a. ASSUME NEW T, NEW w, NEW tab, NEW c \in {{"id"}, {"key"}, {"id", "key"}},
             Kind[k] = Store(T, w, <<Skip(tab, c)>>), tab \in DOMAIN T,
             c \subseteq T[tab].unique, k # "youtube", tab # "youtube_pipeline_runs"
      PROVE  Scripting(k)
  <2>1. Kind[k].tables = T /\ Kind[k].script = <<Skip(tab, c)>>
    BY <1>a DEF Store
  <2>2. Statement(k, Skip(tab, c)) /\ Skip(tab, c)[1] \in Brings
    BY <1>a, <2>1, SkipStatement
  <2> QED BY <2>1, <2>2, OneStatement
<1>b. ASSUME NEW T, NEW w, NEW tab, NEW c \in {{"id"}, {"key"}, {"id", "key"}},
             NEW tac, NEW d \in {{"id"}, {"key"}, {"id", "key"}},
             Kind[k] = Store(T, w, <<Skip(tab, c), Skip(tac, d)>>),
             tab \in DOMAIN T, tac \in DOMAIN T,
             c \subseteq T[tab].unique, d \subseteq T[tac].unique,
             k # "youtube", "youtube_pipeline_runs" \notin {tab, tac}
      PROVE  Scripting(k)
  <2>1. Kind[k].tables = T /\ Kind[k].script = <<Skip(tab, c), Skip(tac, d)>>
    BY <1>b DEF Store
  <2>2. Statement(k, Skip(tab, c)) /\ Skip(tab, c)[1] \in Brings
    BY <1>b, <2>1, SkipStatement
  <2>3. Statement(k, Skip(tac, d)) /\ Skip(tac, d)[1] \in Brings
    BY <1>b, <2>1, SkipStatement
  <2> QED BY <2>1, <2>2, <2>3, TwoStatements
<1>1. CASE k = "bookmarks"
  <2>1. Kind[k] = Store(BookmarkTables, BookmarkWrites, <<Skip("browser_bookmarks", {"key"})>>)
    BY <1>1, KindsAre DEF Shared, Local, BookmarkScript
  <2>2. "browser_bookmarks" \in DOMAIN BookmarkTables /\ BookmarkTables["browser_bookmarks"] = Natural
    BY DEF BookmarkTables
  <2> QED BY <1>a, <1>1, <2>1, <2>2, TellingIs
<1>2. CASE k = "captures"
  <2>1. Kind[k] = Store(CaptureTables, CaptureWrites, <<Skip("captures", {"id"})>>)
    BY <1>2, KindsAre DEF Shared, Local, CaptureScript
  <2>2. "captures" \in DOMAIN CaptureTables /\ CaptureTables["captures"] = Plain
    BY DEF CaptureTables
  <2> QED BY <1>a, <1>2, <2>1, <2>2, TellingIs
<1>3. CASE k = "capsules"
  <2>1. Kind[k] = Store(CapsuleTables, CapsuleWrites, <<Skip("concept_capsules", Both)>>)
    BY <1>3, KindsAre DEF Shared, Local, CapsuleScript
  <2>2. "concept_capsules" \in DOMAIN CapsuleTables /\ CapsuleTables["concept_capsules"] = Keyed
    BY DEF CapsuleTables
  <2> QED BY <1>a, <1>3, <2>1, <2>2, TellingIs
<1>4. CASE k = "creators"
  <2>1. Kind[k] = Store(CreatorTables, CreatorWrites, <<Skip("creator_profiles", Both)>>)
    BY <1>4, KindsAre DEF Shared, Local, CreatorScript
  <2>2. "creator_profiles" \in DOMAIN CreatorTables /\ CreatorTables["creator_profiles"] = Keyed
    BY DEF CreatorTables
  <2> QED BY <1>a, <1>4, <2>1, <2>2, TellingIs
<1>5. CASE k = "edges"
  <2>1. Kind[k] = Store(EdgeTables, EdgeWrites, <<Skip("learning_edges", Both)>>)
    BY <1>5, KindsAre DEF Shared, Local, EdgeScript
  <2>2. "learning_edges" \in DOMAIN EdgeTables /\ EdgeTables["learning_edges"] = Keyed
    BY DEF EdgeTables
  <2> QED BY <1>a, <1>5, <2>1, <2>2, TellingIs
<1>6. CASE k = "urls"
  <2>1. Kind[k] = Store(UrlTables, UrlWrites, UrlScript)
    BY <1>6, KindsAre DEF Shared, Local
  <2>2. /\ "content_url_index" \in DOMAIN UrlTables /\ UrlTables["content_url_index"] = Natural
        /\ UrlScript = <<Skip("content_url_index", {"key"}), <<"parity", "content_url_index", {}>>>>
    BY DEF UrlTables, UrlScript
  <2>3. Kind[k].tables = UrlTables /\ Kind[k].script = UrlScript
    BY <2>1 DEF Store
  <2> DEFINE x == Skip("content_url_index", {"key"})
             y == <<"parity", "content_url_index", {}>>
  <2>4. Statement(k, x) /\ x[1] \in Brings /\ x[2] = "content_url_index"
    BY <1>6, <2>2, <2>3, SkipStatement, TellingIs
  <2>5. Statement(k, y) /\ y[2] = "content_url_index"
    BY <2>2, <2>3 DEF Statement
  <2> HIDE DEF x
  <2> QED BY <2>2, <2>3, <2>4, <2>5, TwoStatements DEF x
<1>7. CASE k = "fts"
  <2>1. Kind[k] = Store(FtsTables, FtsWrites, <<Skip("memory_fts_documents", {"key"})>>)
    BY <1>7, KindsAre DEF Shared, Local, FtsScript
  <2>2. "memory_fts_documents" \in DOMAIN FtsTables /\ FtsTables["memory_fts_documents"] = Natural
    BY DEF FtsTables
  <2> QED BY <1>a, <1>7, <2>1, <2>2, TellingIs
<1>8. CASE k = "imports"
  <2>1. Kind[k] = Store(ImportTables, ImportWrites, ImportScript)
    BY <1>8, KindsAre DEF Shared, Local
  <2>2. /\ DOMAIN ImportTables = {"import_runs", "import_run_items"}
        /\ ImportTables["import_runs"] = Plain
        /\ ImportScript = <<Skip("import_runs", {"id"}), <<"with", "import_run_items", {}>>>>
    BY DEF ImportTables, ImportScript
  <2>3. Kind[k].tables = ImportTables /\ Kind[k].script = ImportScript
    BY <2>1 DEF Store
  <2> DEFINE x == Skip("import_runs", {"id"})
             y == <<"with", "import_run_items", {}>>
  <2>4. Statement(k, x) /\ x[1] \in Brings
    BY <1>8, <2>2, <2>3, SkipStatement, TellingIs
  <2>5. Statement(k, y) /\ y[1] \in Brings
    BY <1>8, <2>2, <2>3 DEF Statement, Brings
  <2> HIDE DEF x
  <2> QED BY <2>2, <2>3, <2>4, <2>5, TwoStatements DEF x
<1>9. CASE k = "artifacts"
  <2>1. Kind[k] = Store(ArtifactTables, ArtifactWrites,
                        <<Skip("transcript_hash", {"key"}), Skip("capsule_json", {"key"})>>)
    BY <1>9, KindsAre DEF Shared, Local, ArtifactScript
  <2>2. /\ DOMAIN ArtifactTables = {"transcript_hash", "capsule_json"}
        /\ ArtifactTables["transcript_hash"] = Natural /\ ArtifactTables["capsule_json"] = Natural
    BY DEF ArtifactTables
  <2>3. /\ ArtifactTables["transcript_hash"].unique = {"key"}
        /\ ArtifactTables["capsule_json"].unique = {"key"}
    BY <2>2, TellingIs
  <2> QED BY <1>b, <1>9, <2>1, <2>2, <2>3
<1>10. CASE k = "reviews"
  <2>1. Kind[k] = Store(ReviewTables, ReviewWrites, ReviewScript)
    BY <1>10, KindsAre DEF Shared, Local
  <2>2. /\ "memory_review_schedule" \in DOMAIN ReviewTables
        /\ ReviewTables["memory_review_schedule"] = Child({"key"}, "video_registry", {1}, FALSE)
        /\ ReviewScript = <<<<"needs", "memory_review_schedule", {"key"}>>>>
    BY DEF ReviewTables, ReviewScript
  <2>3. Kind[k].tables = ReviewTables /\ Kind[k].script = ReviewScript
    BY <2>1 DEF Store
  <2>4. ReviewTables["memory_review_schedule"].unique = {"key"}
    BY <2>2 DEF Child
  <2> DEFINE y == <<"needs", "memory_review_schedule", {"key"}>>
  <2>5. Statement(k, y) /\ y[1] \in Brings
    BY <2>2, <2>3, <2>4 DEF Statement, Brings
  <2> QED BY <2>2, <2>3, <2>5, OneStatement
<1>11. CASE k = "events"
  <2>1. Kind[k].script = EventScript /\ Len(EventScript) = 3
    BY <1>11, EventsAre, EventScriptIs
  <2> DEFINE x == <<"check", "intelligence_events", {}>>
             y == Skip("intelligence_events", {"id"})
             z == <<"setval", "intelligence_events", {}>>
  <2>2. EventScript[1] = x /\ EventScript[2] = y /\ EventScript[3] = z
    BY DEF EventScript
  <2>3. Statement(k, y) /\ y[1] \in Brings /\ y[2] = "intelligence_events"
    BY <1>11, EventsAre, SkipStatement
  <2>4. Statement(k, x) /\ Statement(k, z)
    BY <1>11, EventsAre DEF Statement
  <2>5. x[2] = "intelligence_events" /\ z[2] = "intelligence_events"
    OBVIOUS
  <2> HIDE DEF x, y, z
  <2>6. \A n \in 1..3 : n \in {1, 2, 3}
    OBVIOUS
  <2> QED BY <2>1, <2>2, <2>3, <2>4, <2>5, <2>6 DEF Scripting
<1>12. CASE k = "graph"
  <2>1. Kind[k] = Store(GraphTables, GraphWrites, GraphScript)
    BY <1>12, KindsAre DEF Shared, Local
  <2>2. Kind[k].tables = GraphTables /\ Kind[k].script = GraphScript
    BY <2>1 DEF Store
  <2> DEFINE a == <<"check", "kg_entities", {}>>
             b == <<"check", "kg_relations", {}>>
             c == <<"check", "kg_memory_entities", {}>>
             x == Skip("kg_entities", {"id"})
             y == Skip("kg_relations", {"id"})
             z == Skip("kg_memory_entities", {"key"})
  <2>3. /\ Len(GraphScript) = 6 /\ GraphScript[1] = a /\ GraphScript[2] = b /\ GraphScript[3] = c
        /\ GraphScript[4] = x /\ GraphScript[5] = y /\ GraphScript[6] = z
    BY DEF GraphScript
  <2>4. /\ DOMAIN GraphTables = {"kg_entities", "kg_relations", "kg_memory_entities"}
        /\ GraphTables["kg_entities"].unique = {"id", "key"}
        /\ GraphTables["kg_relations"].unique = {"id", "key"}
        /\ GraphTables["kg_memory_entities"].unique = {"key"}
    <3>1. /\ GraphTables["kg_entities"] = Told(Both, {1, 2})
          /\ GraphTables["kg_relations"] = Child(Both, "kg_entities", {1, 2}, FALSE)
          /\ GraphTables["kg_memory_entities"] = Child({"key"}, "kg_entities", {2}, FALSE)
      BY DEF GraphTables
    <3>2. DOMAIN GraphTables = {"kg_entities", "kg_relations", "kg_memory_entities"}
      BY DEF GraphTables
    <3>3. GraphTables["kg_entities"].unique = Both
      BY <3>1, ToldUnique
    <3>4. GraphTables["kg_relations"].unique = Both
      BY <3>1 DEF Child
    <3>5. GraphTables["kg_memory_entities"].unique = {"key"}
      BY <3>1 DEF Child
    <3> QED BY <3>2, <3>3, <3>4, <3>5 DEF Both
  <2>5. Statement(k, x) /\ x[1] \in Brings /\ x[2] = "kg_entities"
    BY <1>12, <2>2, <2>4, SkipStatement
  <2>6. Statement(k, y) /\ y[1] \in Brings /\ y[2] = "kg_relations"
    BY <1>12, <2>2, <2>4, SkipStatement
  <2>7. Statement(k, z) /\ z[1] \in Brings /\ z[2] = "kg_memory_entities"
    BY <1>12, <2>2, <2>4, SkipStatement
  <2>8. Statement(k, a) /\ Statement(k, b) /\ Statement(k, c)
    BY <2>2, <2>4 DEF Statement
  <2>9. a[2] = "kg_entities" /\ b[2] = "kg_relations" /\ c[2] = "kg_memory_entities"
    OBVIOUS
  <2> HIDE DEF a, b, c, x, y, z
  <2>10. \A n \in 1..6 : n \in {1, 2, 3, 4, 5, 6}
    OBVIOUS
  <2> QED BY <2>2, <2>3, <2>5, <2>6, <2>7, <2>8, <2>9, <2>10 DEF Scripting
<1>13. CASE k = "topics"
  <2>1. Kind[k] = Store(TopicTables, TopicWrites,
                        <<Skip("topic_profiles", Both), Skip("topic_memory_links", {"key"})>>)
    BY <1>13, KindsAre DEF Shared, Local, TopicScript
  <2>2. /\ DOMAIN TopicTables = {"topic_profiles", "topic_memory_links"}
        /\ TopicTables["topic_profiles"] = Keyed
        /\ TopicTables["topic_memory_links"] = Child({"key"}, "topic_profiles", {1}, TRUE)
    BY DEF TopicTables
  <2>3. /\ TopicTables["topic_profiles"].unique = {"id", "key"}
        /\ TopicTables["topic_memory_links"].unique = {"key"}
    BY <2>2, TellingIs DEF Child
  <2>4. Both = {"id", "key"}
    BY TellingIs
  <2> QED BY <1>b, <1>13, <2>1, <2>2, <2>3, <2>4
<1>14. CASE k = "videos"
  <2>1. Kind[k] = Store(VideoTables, VideoWrites,
                        <<Skip("video_registry", {"key"}), Skip("video_reflection", {"key"})>>)
    BY <1>14, KindsAre DEF Shared, Local, VideoScript
  <2>2. /\ DOMAIN VideoTables = {"video_registry", "video_reflection"}
        /\ VideoTables["video_registry"] = Natural /\ VideoTables["video_reflection"] = Natural
    BY DEF VideoTables
  <2>3. /\ VideoTables["video_registry"].unique = {"key"}
        /\ VideoTables["video_reflection"].unique = {"key"}
    BY <2>2, TellingIs
  <2> QED BY <1>b, <1>14, <2>1, <2>2, <2>3
<1>15. CASE k = "youtube"
  <2> DEFINE x == Skip("youtube_memories", {"key"})
             y == <<"once", "youtube_pipeline_runs", {}>>
             z == Skip("youtube_retry_queue", {"key"})
  <2>1. Kind[k].tables = YouTubeTables /\ Kind[k].script = YouTubeScript /\ Len(YouTubeScript) = 3
    BY <1>15, YouTubeHas
  <2>2. YouTubeScript[1] = x /\ YouTubeScript[2] = y /\ YouTubeScript[3] = z
    BY DEF YouTubeScript
  <2>3. /\ "youtube_memories" \in DOMAIN YouTubeTables /\ YouTubeTables["youtube_memories"] = Keyed
        /\ "youtube_retry_queue" \in DOMAIN YouTubeTables
        /\ YouTubeTables["youtube_retry_queue"] = Natural
        /\ "youtube_pipeline_runs" \in DOMAIN YouTubeTables
    BY DEF YouTubeTables
  <2>4. Statement(k, x) /\ x[1] \in Brings
    <3>1. x[1] = "skip" /\ x[2] = "youtube_memories" /\ x[3] = {"key"}
      BY DEF Skip
    <3> HIDE DEF x
    <3> QED BY <2>1, <2>3, <3>1, TellingIs DEF Statement, Brings
  <2>5. Statement(k, z) /\ z[1] \in Brings
    <3>1. z[1] = "skip" /\ z[2] = "youtube_retry_queue" /\ z[3] = {"key"}
      BY DEF Skip
    <3> HIDE DEF z
    <3> QED BY <2>1, <2>3, <3>1, TellingIs DEF Statement, Brings
  <2>6. Statement(k, y) /\ y[1] \in Brings
    BY <2>1, <2>3 DEF Statement, Brings
  <2> HIDE DEF x, y, z
  <2>7. \A n \in 1..3 : n \in {1, 2, 3}
    OBVIOUS
  <2> QED BY <2>1, <2>2, <2>4, <2>5, <2>6, <2>7 DEF Scripting
<1>16. CASE k = "metrics"
  <2>1. Kind[k] = Store(MetricTables, MetricWrites, <<Skip("youtube_connector_metrics", {"key"})>>)
    BY <1>16, KindsAre DEF Shared, Local, MetricScript
  <2>2. /\ "youtube_connector_metrics" \in DOMAIN MetricTables
        /\ MetricTables["youtube_connector_metrics"] = Natural
    BY DEF MetricTables
  <2> QED BY <1>a, <1>16, <2>1, <2>2, TellingIs
<1>17. CASE k = "answers"
  <2>1. Kind[k] = Store(AnswerTables, {PutAnswer, DropAnswers}, <<Skip("semantic_cache", {"key"})>>)
    BY <1>17, KindsAre DEF Shared, Local, AnswerScript
  <2>2. /\ "semantic_cache" \in DOMAIN AnswerTables
        /\ AnswerTables["semantic_cache"] = Told({"key"}, {1, 2})
    BY DEF AnswerTables
  <2>3. AnswerTables["semantic_cache"].unique = {"key"}
    BY <2>2, ToldUnique
  <2> QED BY <1>a, <1>17, <2>1, <2>2, <2>3
<1>18. CASE k \in {"memories", "accounts", "tokens", "bus", "feedback", "usage", "home", "images",
                   "rules", "vectors", "agents"}
  <2>1. \E T, w : Kind[k] = Store(T, w, <<>>)
    BY <1>18, KindsAre DEF Shared, Local
  <2> QED BY <2>1 DEF Store
<1> QED
  BY <1>1, <1>2, <1>3, <1>4, <1>5, <1>6, <1>7, <1>8, <1>9, <1>10, <1>11, <1>12, <1>13, <1>14,
     <1>15, <1>16, <1>17, <1>18 DEF Shared

-----------------------------------------------------------------------------
(* What a statement wants of a row is there: the row it would insert is in *)
(* the way of itself, its claim is in the ledger.  A run that replays has  *)
(* brought over what it is past, unless it was overtaken; and it has       *)
(* nothing to add for owners whose rows are settled.                       *)
Brought(n, r, rows) ==
    /\ Script[n][1] = "skip" => \E s \in rows : Meets(s, r, Script[n][3])
    /\ Script[n][1] = "once" => Claim(r) \in rows
    /\ Script[n][1] = "needs" => \E s \in rows : Meets(s, r, Table(r.tab).unique)
AllBrought(sel, rows) ==
    \A n \in 1..Len(Script) : \A r \in Source(sel, {Script[n][2]}) : Brought(n, r, rows)
Past(n, r) == n < mig.step \/ (n = mig.step /\ r \notin mig.left)
PastBrought ==
    /\ mig.known \subseteq Visible
    /\ \A n \in 1..Len(Script) : \A r \in Source(mig.sel, {Script[n][2]}) :
          Past(n, r) => Brought(n, r, Visible)
FaithInv ==
    /\ mig.at # "none" => Leaver \in mig.sel
    /\ mig.at # "replay" => mig.known = {}
    /\ AllBrought(settled, db)
    /\ mig.at = "replay" =>
          /\ mig.step <= Len(Script) => mig.left \subseteq Source(mig.sel, {Script[mig.step][2]})
          /\ mig.sel \subseteq settled => pend = {}
          /\ ~overtaken => PastBrought

(* The statements of the migration's script are as all scripts have them.  *)
LEMMA StatementIs ==
    ASSUME RowsInv, NEW n \in 1..Len(Script)
    PROVE  /\ Statement(kind, Script[n])
           /\ \E m \in 1..Len(Script) : Script[m][2] = Script[n][2] /\ Script[m][1] \in Brings
<1>1. Script # <<>> /\ Script = Kind[kind].script
  BY DEF Script
<1>2. kind \in DOMAIN Shared /\ kind \notin DOMAIN Local
  BY <1>1, LocalUnscripted, KindsAre DEF RowsInv
<1>3. Scripting(kind)
  BY <1>1, <1>2, ScriptsAre
<1> QED BY <1>1, <1>3 DEF Scripting

(* What is brought over stays when rows are added,                         *)
LEMMA BroughtGrows ==
    ASSUME NEW n, NEW r, NEW rows, NEW more, rows \subseteq more, Brought(n, r, rows)
    PROVE  Brought(n, r, more)
BY DEF Brought

(* and does not depend on what the rest of the state is.                   *)
LEMMA BroughtElsewhere ==
    ASSUME store' = store
    PROVE  /\ Script' = Script
           /\ \A sel, tabs : Source(sel, tabs)' = Source(sel, tabs)
           /\ \A n, r, rows : Brought(n, r, rows)' <=> Brought(n, r, rows)
           /\ \A sel, rows : AllBrought(sel, rows)' <=> AllBrought(sel, rows)
BY DEF Script, Source, Brought, AllBrought, kind, Table, Claim

(* What changes nothing of this, or overtakes the run and unsettles all.   *)
LEMMA FaithStays ==
    ASSUME FaithInv, UNCHANGED <<store, pend, mig>>,
           \/ UNCHANGED <<db, settled>> /\ (overtaken => overtaken')
           \/ settled' = {} /\ (overtaken' \/ mig.at # "replay")
    PROVE  FaithInv'
<1>1. /\ Script' = Script
      /\ \A sel, tabs : Source(sel, tabs)' = Source(sel, tabs)
      /\ \A sel, rows : AllBrought(sel, rows)' <=> AllBrought(sel, rows)
      /\ \A n, r, rows : Brought(n, r, rows)' <=> Brought(n, r, rows)
  BY BroughtElsewhere
<1>2. CASE UNCHANGED <<db, settled>> /\ (overtaken => overtaken')
  <2>1. AllBrought(settled, db)'
    BY <1>1, <1>2 DEF FaithInv
  <2>2. PastBrought => PastBrought'
    BY <1>1, <1>2 DEF PastBrought, Past, Visible
  <2> QED BY <1>1, <1>2, <2>1, <2>2 DEF FaithInv
<1>3. CASE settled' = {} /\ (overtaken' \/ mig.at # "replay")
  <2>1. AllBrought(settled, db)'
    BY <1>1, <1>3 DEF AllBrought, Source
  <2> QED BY <1>1, <1>3, <2>1 DEF FaithInv
<1> QED BY <1>2, <1>3

(* The live writes are of that kind,                                       *)
LEMMA LiveKeepsFaith ==
    ASSUME FaithInv, NEW t \in Threads, LiveStep(t), UNCHANGED mig PROVE FaithInv'
<1>1. CASE Begin(t) \/ MergeReads(t)
  <2>1. UNCHANGED <<store, db, pend, settled, overtaken>>
    BY <1>1 DEF Begin, MergeReads
  <2> QED BY <2>1, FaithStays
<1>2. CASE \E rows : Committed(t, rows)
  <2>1. UNCHANGED <<store, pend>>
    BY <1>2 DEF Committed
  <2>2. \/ UNCHANGED <<db, settled>> /\ (overtaken => overtaken')
        \/ settled' = {} /\ overtaken'
    BY <1>2 DEF Committed
  <2> QED BY <2>1, <2>2, FaithStays
<1> QED BY <1>1, <1>2 DEF LiveStep, Write, Delete, MergeWrites, LocalMergeWrites

(* and the erasure, which replays nothing of the leaver beside it.         *)
LEMMA ErasureKeepsFaith ==
    ASSUME FenceInv, ErasingInv, FaithInv, ErasureStep, UNCHANGED mig PROVE FaithInv'
<1>1. er.at # 0 => mig.at # "replay"
  BY DEF ErasingInv, FenceInv, FaithInv
<1>2. CASE Fence \/ Finish \/ Raises
  <2>1. UNCHANGED <<store, db, pend, settled, overtaken>>
    BY <1>2 DEF Fence, Finish, Raises, tableVars
  <2> QED BY <2>1, FaithStays
<1>3. CASE EraseStore \/ EraseMemories
  <2>1. UNCHANGED <<store, pend, overtaken>> /\ settled' = {}
    BY <1>3 DEF EraseStore, EraseMemories, Erased
  <2>2. er.at # 0
    <3>1. CASE EraseStore
      <4>1. er.at \in 1..Last
        BY <3>1 DEF EraseStore
      <4> QED BY <4>1, LastIs
    <3>2. CASE EraseMemories
      <4>1. er.at = Memories
        BY <3>2 DEF EraseMemories
      <4> QED BY <4>1, LastIs
    <3> QED BY <1>3, <3>1, <3>2
  <2> QED BY <1>1, <2>1, <2>2, FaithStays
<1> QED BY <1>2, <1>3 DEF ErasureStep

(* A run that rolls back leaves what is settled,                           *)
LEMMA RollbackKeepsFaith == ASSUME FaithInv, Rollback PROVE FaithInv'
<1>1. UNCHANGED <<store, db, settled>> /\ mig' = NoRun
  BY DEF Rollback
<1>2. mig'.at = "none" /\ mig'.known = {}
  BY <1>1 DEF NoRun
<1>3. AllBrought(settled, db)'
  BY <1>1, BroughtElsewhere DEF FaithInv
<1> QED BY <1>2, <1>3 DEF FaithInv

(* one that goes to its next statement is past the last,                   *)
LEMMA NextKeepsFaith ==
    ASSUME FenceInv, StepInv, FaithInv, NEW n \in Nat \ {0}, mig' = At(n), mig.at # "none",
           UNCHANGED <<store, db, pend, settled, overtaken>>,
           \/ mig.at # "replay" /\ n = 1
           \/ /\ mig.at = "replay" /\ n = mig.step + 1
              /\ mig.left = {} \/ Script[mig.step][1] = "setval"
    PROVE  FaithInv'
<1>1. /\ Script' = Script
      /\ \A sel, tabs : Source(sel, tabs)' = Source(sel, tabs)
      /\ \A sel, rows : AllBrought(sel, rows)' <=> AllBrought(sel, rows)
      /\ \A m, r, rows : Brought(m, r, rows)' <=> Brought(m, r, rows)
  BY BroughtElsewhere
<1>2. /\ mig'.at = "replay" /\ mig'.sel = mig.sel /\ mig'.step = n /\ mig'.known = mig.known
      /\ mig'.left = IF n <= Len(Script) THEN Source(mig.sel, {Script[n][2]}) ELSE {}
  BY DEF At, FenceInv, IsMigration
<1>3. AllBrought(settled, db)'
  BY <1>1 DEF FaithInv
<1>4. mig'.sel \subseteq settled' => pend' = {}
  BY <1>2 DEF FaithInv, FenceInv
<1>5. ASSUME ~overtaken' PROVE PastBrought'
  <2>1. mig'.known \subseteq Visible'
    BY <1>2, <1>5 DEF FaithInv, PastBrought, Visible
  <2>2. ASSUME NEW m \in 1..Len(Script), NEW r \in Source(mig.sel, {Script[m][2]}), Past(m, r)'
        PROVE  Brought(m, r, Visible)
    <3>a. m < mig'.step \/ (m = mig'.step /\ r \notin mig'.left)
      BY <2>2 DEF Past
    <3>b. m # n
      <4>1. SUFFICES ASSUME m = n PROVE FALSE
        OBVIOUS
      <4>2. n <= Len(Script)
        BY <4>1
      <4>3. mig'.left = Source(mig.sel, {Script[m][2]})
        BY <1>2, <4>1, <4>2
      <4> QED BY <1>2, <3>a, <4>1, <4>3
    <3>1. m < n
      BY <1>2, <3>a, <3>b
    <3>2. mig.at = "replay" /\ n = mig.step + 1 /\ mig.step \in Nat
      BY <3>1 DEF StepInv
    <3>3. CASE m = mig.step /\ Script[mig.step][1] = "setval"
      BY <3>3 DEF Brought
    <3>4. CASE ~(m = mig.step /\ Script[mig.step][1] = "setval")
      <4>1. Past(m, r)
        BY <3>1, <3>2, <3>4 DEF Past
      <4> QED BY <1>5, <3>2, <4>1 DEF FaithInv, PastBrought
    <3> QED BY <3>3, <3>4
  <2> QED BY <1>1, <1>2, <2>1, <2>2 DEF PastBrought, Visible
<1> QED BY <1>1, <1>2, <1>3, <1>4, <1>5 DEF FaithInv

(* and one that replays a row has brought it, and adds none if it has      *)
(* nothing to add.                                                         *)
LEMMA ReplayedKeepsFaith ==
    ASSUME FenceInv, FaithInv, NEW r \in mig.left, NEW rows, NEW known \in SUBSET Visible,
           Replayed(r, rows, known), mig.at = "replay", mig.step <= Len(Script),
           mig.step \in Nat,
           ~overtaken => Brought(mig.step, r, Visible \cup rows),
           mig.sel \subseteq settled => rows = {}
    PROVE  FaithInv'
<1>1. /\ Script' = Script
      /\ \A sel, tabs : Source(sel, tabs)' = Source(sel, tabs)
      /\ \A sel, q : AllBrought(sel, q)' <=> AllBrought(sel, q)
      /\ \A m, q, s : Brought(m, q, s)' <=> Brought(m, q, s)
  BY BroughtElsewhere DEF Replayed
<1>2. /\ mig'.at = "replay" /\ mig'.sel = mig.sel /\ mig'.step = mig.step
      /\ mig'.known = mig.known \cup known /\ mig'.left = mig.left \ {r}
  BY DEF Replayed, FenceInv, IsMigration
<1>3. UNCHANGED <<store, db, settled, overtaken>> /\ pend' = pend \cup rows
  BY DEF Replayed
<1>4. AllBrought(settled, db)'
  BY <1>1, <1>3 DEF FaithInv
<1>5. Visible' = Visible \cup rows
  BY <1>3 DEF Visible
<1>6. ASSUME ~overtaken PROVE PastBrought'
  <2>1. mig'.known \subseteq Visible'
    BY <1>2, <1>5, <1>6 DEF FaithInv, PastBrought
  <2>2. ASSUME NEW m \in 1..Len(Script), NEW q \in Source(mig.sel, {Script[m][2]}), Past(m, q)'
        PROVE  Brought(m, q, Visible')
    <3>1. CASE m = mig.step /\ q = r
      BY <1>5, <1>6, <3>1
    <3>2. CASE ~(m = mig.step /\ q = r)
      <4>1. Past(m, q)
        BY <1>2, <2>2, <3>2 DEF Past
      <4>2. Brought(m, q, Visible)
        BY <1>6, <4>1 DEF FaithInv, PastBrought
      <4> QED BY <1>5, <4>2, BroughtGrows
    <3> QED BY <3>1, <3>2
  <2> QED BY <1>1, <1>2, <2>1, <2>2 DEF PastBrought
<1> QED BY <1>1, <1>2, <1>3, <1>4, <1>6 DEF FaithInv

(* Whatever row a run replays, it has then brought it;                     *)
LEMMA RowKeepsFaith ==
    ASSUME FenceInv, RowsInv, StepInv, FaithInv, NEW r \in mig.left,
           Check(r) \/ Insert(r) \/ InsertItem(r) \/ InsertOnce(r) \/ InsertReview(r) \/ Parity(r)
    PROVE  FaithInv'
<1> DEFINE n == mig.step
<1>1. mig.at = "replay" /\ n <= Len(Script) /\ n \in Nat \ {0}
  BY DEF Check, Insert, InsertItem, InsertOnce, InsertReview, Parity, Turn, StepInv
<1>2. n \in 1..Len(Script)
  BY <1>1
<1>3. Statement(kind, Script[n])
  BY <1>2, StatementIs
<1>4. r \in Source(mig.sel, {Script[n][2]}) /\ r.tab = Script[n][2] /\ r.owner \in mig.sel
  BY <1>1 DEF FaithInv, Source
<1>5. mig.sel \subseteq settled => Brought(n, r, db) /\ pend = {} /\ Visible = db
  <2>1. SUFFICES ASSUME mig.sel \subseteq settled
                 PROVE  Brought(n, r, db) /\ pend = {} /\ Visible = db
    OBVIOUS
  <2>2. r \in Source(settled, {Script[n][2]})
    BY <1>4, <2>1 DEF Source
  <2>3. pend = {}
    BY <1>1, <2>1 DEF FaithInv
  <2> QED BY <1>2, <2>2, <2>3 DEF FaithInv, AllBrought, Visible
<1>6. ~overtaken => mig.known \subseteq Visible
  BY <1>1 DEF FaithInv, PastBrought
<1> HIDE DEF n
<1>7. ASSUME NEW rows, NEW known \in SUBSET Visible, Replayed(r, rows, known),
             ~overtaken => Brought(n, r, Visible \cup rows), mig.sel \subseteq settled => rows = {}
      PROVE  FaithInv'
  BY <1>1, <1>7, ReplayedKeepsFaith DEF n
<1>8. Rollback => FaithInv'
  BY RollbackKeepsFaith
<1>9. {} \in SUBSET Visible
  OBVIOUS
<1>10. CASE Check(r)
  <2>1. Script[n][1] = "check"
    BY <1>10 DEF Check, Turn, n
  <2>2. \A rows : Brought(n, r, rows)
    BY <2>1 DEF Brought
  <2>3. Rollback \/ \E known \in SUBSET Visible : Replayed(r, {}, known)
    BY <1>10 DEF Check
  <2> QED BY <1>7, <1>8, <2>2, <2>3
<1>11. CASE Insert(r)
  <2> DEFINE covered == Script[n][3]
  <2>1. Script[n][1] = "skip"
    BY <1>11 DEF Insert, Turn, n
  <2>2. covered \in {{"id"}, {"key"}, {"id", "key"}}
    BY <1>3, <2>1 DEF Statement
  <2>3. \A rows : Brought(n, r, rows) <=> \E s \in rows : Meets(s, r, covered)
    BY <2>1 DEF Brought
  <2>4. Meets(r, r, covered)
    BY <2>2 DEF Meets
  <2>5. \/ Rollback
        \/ /\ Replayed(r, {}, {})
           /\ r \in mig.known \/ \E s \in Visible : Meets(s, r, covered)
        \/ Replayed(r, {r}, {}) /\ ~\E s \in Visible : Meets(s, r, covered)
    BY <1>11 DEF Insert, n
  <2> HIDE DEF covered
  <2>6. CASE Replayed(r, {}, {}) /\ (r \in mig.known \/ \E s \in Visible : Meets(s, r, covered))
    <3>1. ~overtaken => Brought(n, r, Visible \cup {})
      BY <1>6, <2>3, <2>4, <2>6
    <3> QED BY <1>7, <1>9, <2>6, <3>1
  <2>7. CASE Replayed(r, {r}, {}) /\ ~\E s \in Visible : Meets(s, r, covered)
    <3>1. Brought(n, r, Visible \cup {r})
      BY <2>3, <2>4
    <3>2. ~(mig.sel \subseteq settled)
      BY <1>5, <2>3, <2>7
    <3> QED BY <1>7, <1>9, <2>7, <3>1, <3>2
  <2> QED BY <1>8, <2>5, <2>6, <2>7
<1>12. CASE InsertItem(r)
  <2>1. Script[n][1] = "with"
    BY <1>12 DEF InsertItem, Turn, n
  <2>2. \A rows : Brought(n, r, rows)
    BY <2>1 DEF Brought
  <2>3. Replayed(r, {}, {}) \/ (Replayed(r, {r}, {}) /\ pend # {})
    BY <1>12 DEF InsertItem
  <2> QED BY <1>5, <1>7, <1>9, <2>2, <2>3
<1>13. CASE InsertOnce(r)
  <2> DEFINE more == {Claim(r), [r EXCEPT !.id = StageId(r.owner)]}
  <2>1. Script[n][1] = "once"
    BY <1>13 DEF InsertOnce, Turn, n
  <2>2. \A rows : Brought(n, r, rows) <=> Claim(r) \in rows
    BY <2>1 DEF Brought
  <2>3. \/ Replayed(r, {}, {}) /\ Claim(r) \in db
        \/ Replayed(r, more, {}) /\ Claim(r) \notin db
    BY <1>13 DEF InsertOnce
  <2>4. Claim(r) \in more
    OBVIOUS
  <2> HIDE DEF more
  <2>5. CASE Replayed(r, {}, {}) /\ Claim(r) \in db
    <3>1. Brought(n, r, Visible \cup {})
      BY <2>2, <2>5 DEF Visible
    <3> QED BY <1>7, <1>9, <2>5, <3>1
  <2>6. CASE Replayed(r, more, {}) /\ Claim(r) \notin db
    <3>1. Brought(n, r, Visible \cup more)
      BY <2>2, <2>4
    <3>2. ~(mig.sel \subseteq settled)
      BY <1>5, <2>2, <2>6
    <3> QED BY <1>7, <1>9, <2>6, <3>1, <3>2
  <2> QED BY <2>3, <2>5, <2>6
<1>14. CASE InsertReview(r)
  <2>1. Script[n][1] = "needs"
    BY <1>14 DEF InsertReview, Turn, n
  <2>2. \A rows : Brought(n, r, rows) <=> \E s \in rows : Meets(s, r, Table(r.tab).unique)
    BY <2>1 DEF Brought
  <2>3. Meets(r, r, Table(r.tab).unique)
    <3>1. Table(r.tab).unique = {"key"}
      BY <1>3, <1>4, <2>1 DEF Statement, RowsInv, Table
    <3> QED BY <3>1 DEF Meets
  <2>4. \/ Rollback
        \/ Replayed(r, {}, {}) /\ InTheWay(r, Visible) # {}
        \/ Replayed(r, {r}, {}) /\ InTheWay(r, Visible) = {}
    BY <1>14 DEF InsertReview
  <2>5. CASE Replayed(r, {}, {}) /\ InTheWay(r, Visible) # {}
    <3>1. Brought(n, r, Visible \cup {})
      BY <2>2, <2>5 DEF InTheWay
    <3> QED BY <1>7, <1>9, <2>5, <3>1
  <2>6. CASE Replayed(r, {r}, {}) /\ InTheWay(r, Visible) = {}
    <3>1. Brought(n, r, Visible \cup {r})
      BY <2>2, <2>3
    <3>2. ~(mig.sel \subseteq settled)
      BY <1>5, <2>2, <2>6 DEF InTheWay
    <3> QED BY <1>7, <1>9, <2>6, <3>1, <3>2
  <2> QED BY <1>8, <2>4, <2>5, <2>6
<1>15. CASE Parity(r)
  <2>1. Script[n][1] = "parity"
    BY <1>15 DEF Parity, Turn, n
  <2>2. \A rows : Brought(n, r, rows)
    BY <2>1 DEF Brought
  <2>3. Rollback \/ Replayed(r, {}, {})
    BY <1>15 DEF Parity
  <2> QED BY <1>7, <1>8, <1>9, <2>2, <2>3
<1> QED BY <1>10, <1>11, <1>12, <1>13, <1>14, <1>15

(* a run that finishes has brought all it is for,                          *)
LEMMA FinishKeepsFaith ==
    ASSUME FenceInv, RowsInv, StepInv, FaithInv, FinishMigration PROVE FaithInv'
<1>1. /\ Script' = Script
      /\ \A sel, tabs : Source(sel, tabs)' = Source(sel, tabs)
      /\ \A sel, q : AllBrought(sel, q)' <=> AllBrought(sel, q)
      /\ \A m, q, s : Brought(m, q, s)' <=> Brought(m, q, s)
  BY BroughtElsewhere DEF FinishMigration
<1>2. /\ mig' = NoRun /\ db' = Visible /\ Finishing
      /\ settled' = IF overtaken THEN {} ELSE settled \cup mig.sel
  BY DEF FinishMigration
<1>3. mig'.at = "none" /\ mig'.known = {}
  BY <1>2 DEF NoRun
<1>4. ASSUME NEW m \in 1..Len(Script), NEW r \in Source(settled', {Script[m][2]})
      PROVE  Brought(m, r, db')
  <2>1. ~overtaken /\ (r.owner \in settled \/ r.owner \in mig.sel)
    BY <1>2, <1>4 DEF Source
  <2>2. CASE r.owner \in settled
    <3>1. r \in Source(settled, {Script[m][2]})
      BY <1>4, <2>2 DEF Source
    <3>2. Brought(m, r, db)
      BY <3>1 DEF FaithInv, AllBrought
    <3>3. db \subseteq db'
      BY <1>2 DEF Visible
    <3> QED BY <3>2, <3>3, BroughtGrows
  <2>3. CASE r.owner \in mig.sel
    <3>1. r \in Source(mig.sel, {Script[m][2]})
      BY <1>4, <2>3 DEF Source
    <3>2. Past(m, r)
      BY <1>2 DEF Finishing, Past
    <3>3. PastBrought
      BY <1>2, <2>1 DEF FaithInv, Finishing
    <3> QED BY <1>2, <3>1, <3>2, <3>3 DEF PastBrought
  <2> QED BY <2>1, <2>2, <2>3
<1>5. AllBrought(settled, db)'
  BY <1>1, <1>4 DEF AllBrought
<1> QED BY <1>3, <1>5 DEF FaithInv

(* and so do all its other steps.                                          *)
LEMMA MigrationKeepsFaith ==
    ASSUME FenceInv, RowsInv, StepInv, FaithInv, MigrationStep PROVE FaithInv'
<1>1. CASE StartMigration
  <2>1. PICK sel : sel \in {{Leaver}, Owners} /\ mig' = [NoRun EXCEPT !.at = "lock", !.sel = sel]
    BY <1>1 DEF StartMigration
  <2>2. mig'.at = "lock" /\ Leaver \in mig'.sel /\ mig'.known = {}
    BY <2>1 DEF NoRun, Owners
  <2>3. UNCHANGED <<store, db, settled>>
    BY <1>1 DEF StartMigration
  <2>4. AllBrought(settled, db)'
    BY <2>3, BroughtElsewhere DEF FaithInv
  <2> QED BY <2>2, <2>4 DEF FaithInv
<1>2. CASE LockOwner
  <2>1. \/ Rollback
        \/ /\ UNCHANGED <<store, db, pend, settled, overtaken>> /\ mig.at = "lock"
           /\ mig' = At(1) \/ mig' = mig
    BY <1>2 DEF LockOwner
  <2>2. CASE Rollback
    BY <2>2, RollbackKeepsFaith
  <2>3. CASE mig' = At(1) /\ ~Rollback
    <3>1. 1 \in Nat \ {0}
      OBVIOUS
    <3> QED BY <2>1, <2>3, <3>1, NextKeepsFaith
  <2>4. CASE mig' = mig /\ ~Rollback
    BY <2>1, <2>4, FaithStays
  <2> QED BY <2>1, <2>2, <2>3, <2>4
<1>3. CASE NextStatement \/ SetSequence
  <2>1. /\ mig' = At(mig.step + 1) /\ mig.at = "replay"
        /\ UNCHANGED <<store, db, pend, settled, overtaken>>
        /\ mig.left = {} \/ Script[mig.step][1] = "setval"
    BY <1>3 DEF NextStatement, SetSequence, tableVars
  <2>2. mig.step + 1 \in Nat \ {0}
    BY <2>1 DEF StepInv
  <2> QED BY <2>1, <2>2, NextKeepsFaith
<1>4. CASE FinishMigration
  BY <1>4, FinishKeepsFaith
<1>5. CASE \E r \in Upcoming :
             Check(r) \/ Insert(r) \/ InsertItem(r) \/ InsertOnce(r) \/ InsertReview(r) \/ Parity(r)
  BY <1>5, RowKeepsFaith DEF Upcoming
<1> QED BY <1>1, <1>2, <1>3, <1>4, <1>5 DEF MigrationStep

(* The runs of the agents unsettle the users, but they are not migrated.   *)
LEMMA AgentKeepsFaith ==
    ASSUME RowsInv, FaithInv, Agents, NEW t \in Threads, AgentStep(t) \/ Ends(t), UNCHANGED mig
    PROVE  FaithInv'
<1>1. mig.at = "none"
  BY AgentTablesAre DEF RowsInv, FaithInv
<1>2. /\ UNCHANGED <<store, pend>>
      /\ \/ UNCHANGED <<db, settled, overtaken>>
         \/ settled' = {}
  BY DEF AgentStep, Ends, Run, Approve, SetRunning, CreateToolCall, InvokeTool, Mark, Refused,
         Stored, tableVars
<1> QED BY <1>1, <1>2, FaithStays

(* Nothing the plane does loses what was brought,                          *)
LEMMA FaithStep == ASSUME PlaneInv, FaithInv, [Next]_vars PROVE FaithInv'
<1>1. \A t \in Threads : agent[t] # NoRequest => Agents
  BY DEF PlaneInv, ServingInv
<1>2. \A t \in Threads : AgentStep(t) \/ Ends(t) => Agents
  <2>1. ASSUME NEW t \in Threads, ~Agents PROVE ~AgentStep(t) /\ ~Ends(t)
    BY <2>1, NoRequestsForEvents DEF PlaneInv
  <2> QED BY <2>1
<1>3. ASSUME NEW t \in Threads, LiveStep(t), UNCHANGED migVars PROVE FaithInv'
  BY <1>3, LiveKeepsFaith DEF migVars
<1>4. ASSUME NEW t \in Threads, AgentStep(t) \/ Ends(t), UNCHANGED migVars PROVE FaithInv'
  BY <1>2, <1>4, AgentKeepsFaith DEF PlaneInv, migVars
<1>5. CASE MigrationStep
  BY <1>5, MigrationKeepsFaith DEF PlaneInv
<1>6. CASE ErasureStep /\ UNCHANGED migVars
  BY <1>6, ErasureKeepsFaith DEF PlaneInv, migVars
<1>7. CASE Crash
  <2>1. \/ Rollback
        \/ \E t \in Threads : Ends(t) /\ UNCHANGED migVars
        \/ UNCHANGED <<store, db, pend, settled, overtaken, migVars>>
    BY <1>7 DEF Crash
  <2>2. CASE UNCHANGED <<store, db, pend, settled, overtaken, migVars>>
    BY <2>2, FaithStays DEF migVars
  <2> QED BY <1>4, <2>1, <2>2, RollbackKeepsFaith
<1>8. CASE UNCHANGED vars
  BY <1>8, FaithStays DEF vars, tableVars, migVars
<1> QED BY <1>3, <1>4, <1>5, <1>6, <1>7, <1>8 DEF Next

(* and nothing was brought at the start.                                   *)
LEMMA FaithInit == Init => FaithInv
<1> SUFFICES ASSUME Init PROVE FaithInv
  OBVIOUS
<1>1. mig = NoRun /\ settled = {}
  BY DEF Init, MigrationInit, TablesInit
<1>2. mig.at = "none" /\ mig.known = {}
  BY <1>1 DEF NoRun
<1>3. AllBrought(settled, db)
  BY <1>1 DEF AllBrought, Source
<1> QED BY <1>2, <1>3 DEF FaithInv

-----------------------------------------------------------------------------
(* Events have but an id, which a live event may have taken: a run that    *)
(* was not overtaken has found no other event under those it is past.      *)
CheckedInv ==
    kind = "events" =>
       /\ \A p \in pend : p.id = p.owner
       /\ mig.at = "replay" /\ ~overtaken =>
             \A r \in Source(mig.sel, {"intelligence_events"}) :
                Past(1, r) => \A s \in db : s.id = r.id => s = r

(* It stays so when events are taken away,                                 *)
LEMMA CheckedKeeps ==
    ASSUME CheckedInv, UNCHANGED <<store, pend, mig>>, overtaken' \/ (db' \subseteq db /\ ~overtaken)
    PROVE  CheckedInv'
<1>1. \A sel, tabs : Source(sel, tabs)' = Source(sel, tabs)
  BY BroughtElsewhere
<1>2. kind' = kind
  BY DEF kind
<1> QED BY <1>1, <1>2 DEF CheckedInv, Past

(* or the run rolls back.                                                  *)
LEMMA CheckedRolledBack == ASSUME CheckedInv, Rollback PROVE CheckedInv'
<1>1. pend' = {} /\ mig' = NoRun
  BY DEF Rollback
<1>2. mig'.at = "none"
  BY <1>1 DEF NoRun
<1> QED BY <1>1, <1>2 DEF CheckedInv

(* A step of the migration is past no event without a look at its id.      *)
LEMMA MigrationKeepsChecked ==
    ASSUME FenceInv, RowsInv, StepInv, FaithInv, CheckedInv, kind = "events", MigrationStep
    PROVE  CheckedInv'
<1>1. Script = EventScript /\ Len(Script) = 3
  BY EventsAre, EventScriptIs DEF Script
<1>2. UNCHANGED store /\ kind' = kind
  BY MigrationLeaves DEF kind
<1>3. \A sel, tabs : Source(sel, tabs)' = Source(sel, tabs)
  BY <1>2, BroughtElsewhere
<1>4. ASSUME pend' = {}, mig'.at # "replay" PROVE CheckedInv'
  BY <1>4 DEF CheckedInv
<1>5. Rollback => CheckedInv'
  BY CheckedRolledBack
<1>6. mig.at # "replay" => pend = {}
  BY DEF FenceInv
<1>7. ASSUME NEW n \in Nat \ {0}, mig' = At(n), UNCHANGED <<db, pend, overtaken>>,
             n = 1 \/ (mig.at = "replay" /\ n = mig.step + 1 /\ (mig.step = 1 => mig.left = {}))
      PROVE  CheckedInv'
  <2>1. /\ mig'.sel = mig.sel /\ mig'.step = n
        /\ mig'.left = IF n <= Len(Script) THEN Source(mig.sel, {Script[n][2]}) ELSE {}
    BY <1>7 DEF At, FenceInv, IsMigration
  <2>2. ASSUME ~overtaken, NEW r \in Source(mig.sel, {"intelligence_events"}), Past(1, r)'
        PROVE  \A s \in db : s.id = r.id => s = r
    <3>1. CASE n = 1
      <4>1. mig'.left = Source(mig.sel, {"intelligence_events"})
        BY <1>1, <2>1, <3>1 DEF EventScript
      <4>2. ~Past(1, r)'
        BY <2>1, <3>1, <4>1 DEF Past
      <4> QED BY <2>2, <4>2
    <3>2. CASE n # 1
      <4>1. mig.at = "replay" /\ mig.step \in Nat \ {0} /\ (mig.step = 1 => mig.left = {})
        BY <1>7, <3>2 DEF StepInv
      <4>2. Past(1, r)
        BY <4>1 DEF Past
      <4> QED BY <2>2, <4>1, <4>2 DEF CheckedInv
    <3> QED BY <3>1, <3>2
  <2> QED BY <1>2, <1>3, <1>7, <2>1, <2>2 DEF CheckedInv
<1>8. CASE StartMigration
  <2>1. PICK sel : mig' = [NoRun EXCEPT !.at = "lock", !.sel = sel]
    BY <1>8 DEF StartMigration
  <2>2. mig'.at = "lock" /\ pend' = pend /\ mig.at = "none"
    BY <1>8, <2>1 DEF NoRun, StartMigration
  <2> QED BY <1>4, <1>6, <2>2
<1>9. CASE LockOwner
  <2>1. \/ Rollback
        \/ UNCHANGED <<db, pend, overtaken>> /\ mig.at = "lock" /\ (mig' = At(1) \/ mig' = mig)
    BY <1>9 DEF LockOwner
  <2>2. CASE mig' = At(1) /\ ~Rollback
    <3>1. 1 \in Nat \ {0}
      OBVIOUS
    <3> QED BY <1>7, <2>1, <2>2, <3>1
  <2>3. CASE mig' = mig /\ ~Rollback
    BY <1>4, <1>6, <2>1, <2>3
  <2> QED BY <1>5, <2>1, <2>2, <2>3
<1>10. CASE NextStatement \/ SetSequence
  <2>1. /\ mig' = At(mig.step + 1) /\ mig.at = "replay" /\ UNCHANGED <<db, pend, overtaken>>
        /\ mig.left = {} \/ Script[mig.step][1] = "setval"
    BY <1>10 DEF NextStatement, SetSequence, tableVars
  <2>2. mig.step + 1 \in Nat \ {0}
    BY <2>1 DEF StepInv
  <2>3. mig.step = 1 => mig.left = {}
    BY <1>1, <2>1, EventScriptIs
  <2> QED BY <1>7, <2>1, <2>2, <2>3
<1>11. CASE FinishMigration
  <2>1. pend' = {} /\ mig' = NoRun
    BY <1>11 DEF FinishMigration
  <2>2. mig'.at # "replay"
    BY <2>1 DEF NoRun
  <2> QED BY <1>4, <2>1, <2>2
<1>12. ASSUME NEW r \in Upcoming,
              Check(r) \/ Insert(r) \/ InsertItem(r) \/ InsertOnce(r) \/ InsertReview(r) \/ Parity(r)
       PROVE  CheckedInv'
  <2>1. r \in mig.left /\ r.owner = r.id /\ r.tab = "intelligence_events"
    BY OldEvents DEF Upcoming, RowsInv
  <2>2. mig.at = "replay" /\ mig.step \in {1, 2, 3}
    <3>1. mig.at = "replay" /\ mig.step <= 3
      BY <1>1, <1>12 DEF Turn, Check, Insert, InsertItem, InsertOnce, InsertReview, Parity
    <3> QED BY <3>1 DEF StepInv
  <2>3. ASSUME NEW rows \in {{}, {r}}, NEW known, Replayed(r, rows, known),
               mig.step = 1 => \A s \in db : s.id = r.id => s = r
        PROVE  CheckedInv'
    <3>1. /\ mig'.at = "replay" /\ mig'.sel = mig.sel /\ mig'.step = mig.step
          /\ mig'.left = mig.left \ {r}
          /\ UNCHANGED <<db, overtaken>> /\ pend' = pend \cup rows
      BY <2>2, <2>3 DEF Replayed, FenceInv, IsMigration
    <3>2. \A p \in pend' : p.id = p.owner
      BY <2>1, <3>1 DEF CheckedInv
    <3>3. ASSUME ~overtaken, NEW q \in Source(mig.sel, {"intelligence_events"}), Past(1, q)'
          PROVE  \A s \in db : s.id = q.id => s = q
      <4>1. Past(1, q) \/ (q = r /\ mig.step = 1)
        BY <3>1, <3>3 DEF Past
      <4> QED BY <2>2, <2>3, <3>3, <4>1 DEF CheckedInv
    <3> QED BY <1>2, <1>3, <3>1, <3>2, <3>3 DEF CheckedInv
  <2>4. CASE mig.step = 1
    <3>1. Check(r)
      BY <1>1, <1>12, <2>4, EventScriptIs
         DEF Turn, Insert, InsertItem, InsertOnce, InsertReview, Parity
    <3> DEFINE there == {s \in Visible : Meets(s, r, IF "id" \in Table(r.tab).unique
                                                     THEN {"id"} ELSE {"key"})}
    <3>2. Rollback \/ (Replayed(r, {}, there) /\ there \subseteq {r})
      BY <3>1 DEF Check
    <3>3. "id" \in Table(r.tab).unique
      BY <2>1, EventsAre DEF RowsInv, Table
    <3>4. ASSUME NEW s \in db, s.id = r.id PROVE s \in there
      <4>1. s.tab = "intelligence_events"
        BY EventsAre DEF RowsInv, AllFit, Fits
      <4> QED BY <2>1, <3>3, <3>4, <4>1 DEF Visible, Meets
    <3> HIDE DEF there
    <3> QED BY <1>5, <2>3, <3>2, <3>4
  <2>5. CASE mig.step # 1
    <3>1. Insert(r)
      BY <1>1, <1>12, <2>2, <2>5, EventScriptIs
         DEF Turn, Check, InsertItem, InsertOnce, InsertReview, Parity
    <3>2. Rollback \/ \E rows \in {{}, {r}} : Replayed(r, rows, {})
      BY <3>1 DEF Insert
    <3> QED BY <1>5, <2>3, <2>5, <3>2
  <2> QED BY <2>4, <2>5
<1> QED BY <1>8, <1>9, <1>10, <1>11, <1>12 DEF MigrationStep

(* And whatever else adds an event overtakes the run.                      *)
LEMMA CheckedStep == ASSUME PlaneInv, FaithInv, CheckedInv, [Next]_vars PROVE CheckedInv'
<1>1. kind' = kind
  BY StoreStays DEF PlaneInv, kind
<1>2. CASE kind # "events"
  BY <1>1, <1>2 DEF CheckedInv
<1>3. CASE kind = "events"
  <2>1. \A t \in Threads : ~AgentStep(t) /\ ~Ends(t)
    <3>1. ~Agents
      BY <1>3 DEF Agents
    <3> QED BY <3>1, NoRequestsForEvents DEF PlaneInv
  <2>a. ASSUME UNCHANGED <<store, pend, mig>>, db' \subseteq db, overtaken' = overtaken
        PROVE  CheckedInv'
    BY <2>a, BroughtElsewhere DEF CheckedInv, Past, kind
  <2>2. ASSUME NEW t \in Threads, LiveStep(t), UNCHANGED migVars PROVE CheckedInv'
    <3>1. Begin(t) \/ Write(t)
      BY <1>3, <2>2, EventSteps DEF PlaneInv
    <3>2. CASE Begin(t)
      BY <2>2, <2>a, <3>2 DEF Begin, migVars
    <3>3. CASE Write(t)
      <4>1. PICK rows : Committed(t, rows)
        BY <3>3 DEF Write
      <4>2. /\ UNCHANGED <<store, pend>>
            /\ overtaken' \/ (db' = db /\ ~overtaken)
        BY <4>1 DEF Committed
      <4> QED BY <2>2, <4>2, CheckedKeeps DEF migVars
    <3> QED BY <3>1, <3>2, <3>3
  <2>3. CASE MigrationStep
    BY <1>3, <2>3, MigrationKeepsChecked DEF PlaneInv
  <2>4. CASE ErasureStep /\ UNCHANGED migVars
    <3>1. db' \subseteq db /\ UNCHANGED <<store, pend>>
      BY <2>4, NeighboursStay DEF PlaneInv
    <3>2. UNCHANGED overtaken
      BY <2>4 DEF ErasureStep, Fence, EraseStore, EraseMemories, Finish, Raises, Erased, tableVars
    <3> QED BY <2>4, <2>a, <3>1, <3>2 DEF migVars
  <2>5. CASE Crash
    <3>1. Rollback \/ UNCHANGED <<store, db, pend, overtaken, mig>>
      BY <2>1, <2>5 DEF Crash, migVars
    <3> QED BY <2>a, <3>1, CheckedRolledBack
  <2>6. CASE UNCHANGED vars
    BY <2>6, <2>a DEF vars, tableVars, migVars
  <2> QED BY <2>1, <2>2, <2>3, <2>4, <2>5, <2>6 DEF Next
<1> QED BY <1>2, <1>3

(* At the start no run is on its way.                                      *)
LEMMA CheckedInit == Init => CheckedInv
<1>1. Init => pend = {} /\ mig = NoRun
  BY DEF Init, TablesInit, MigrationInit
<1>2. NoRun.at = "none"
  BY DEF NoRun
<1> QED BY <1>1, <1>2 DEF CheckedInv

-----------------------------------------------------------------------------
(* Items are replayed with the run they belong to, and a run that was      *)
(* found in the target has brought its items before: no live run has the   *)
(* id of an old one, and runs and items are erased in one transaction.     *)
ImportTabs == {"import_runs", "import_run_items"}
OldImport(o) ==
    [tab |-> "import_runs", owner |-> o, id |-> o, key |-> 1, body |-> "old", ref |-> {}]
OldItem(o) ==
    [tab |-> "import_run_items", owner |-> o, id |-> 1, key |-> 1, body |-> "old", ref |-> {o}]
HasItem(s, rows) ==
    \E i \in rows : i.tab = "import_run_items" /\ i.owner = s.owner /\ i.key = 1 /\ i.ref = {s.id}
ItemsInv ==
    kind = "imports" =>
       /\ \A s \in db : s.tab = "import_runs" /\ s.id = s.owner => HasItem(s, db)
       /\ \A p \in pend : p.tab = "import_runs" => p \in Source(mig.sel, {"import_runs"})
       /\ mig.at = "replay" =>
             \A r \in Source(mig.sel, {"import_run_items"}) :
                Past(2, r) /\ (\E p \in pend : p.tab = "import_runs" /\ p.id \in r.ref) => r \in pend

(* The store of the imports: its tables, its script,                       *)
LEMMA ImportsAre ==
    /\ Kind["imports"].tables = ImportTables /\ Kind["imports"].writes = ImportWrites
    /\ Kind["imports"].script = ImportScript
    /\ DOMAIN ImportTables = ImportTabs
    /\ ImportTables["import_runs"].unique = {"id"} /\ ImportTables["import_runs"].refs = {}
    /\ ImportTables["import_runs"].keys = {1}
    /\ ImportTables["import_run_items"].unique = {"key"}
    /\ ImportTables["import_run_items"].parent = "import_runs"
    /\ ImportTables["import_run_items"].refs = {1}
    /\ ImportTables["import_run_items"].keys = {1}
<1>1. Kind["imports"] = Store(ImportTables, ImportWrites, ImportScript)
  BY KindsAre DEF Shared, Local
<1>2. /\ DOMAIN ImportTables = ImportTabs /\ ImportTables["import_runs"] = Plain
      /\ ImportTables["import_run_items"] = Child({"key"}, "import_runs", {1}, TRUE)
  BY DEF ImportTables, ImportTabs
<1>3. Plain.unique = {"id"} /\ Plain.refs = {} /\ Plain.keys = {1}
  BY DEF Plain, Told
<1>4. /\ ImportTables["import_run_items"].unique = {"key"}
      /\ ImportTables["import_run_items"].parent = "import_runs"
      /\ ImportTables["import_run_items"].refs = {1}
      /\ ImportTables["import_run_items"].keys = {1}
  BY <1>2 DEF Child
<1>5. /\ Kind["imports"].tables = ImportTables /\ Kind["imports"].writes = ImportWrites
      /\ Kind["imports"].script = ImportScript
  BY <1>1 DEF Store
<1> QED BY <1>2, <1>3, <1>4, <1>5

(* in two statements,                                                      *)
LEMMA ImportScriptIs ==
    /\ Len(ImportScript) = 2
    /\ ImportScript[1][1] = "skip" /\ ImportScript[1][2] = "import_runs"
    /\ ImportScript[1][3] = {"id"}
    /\ ImportScript[2][1] = "with" /\ ImportScript[2][2] = "import_run_items"
BY DEF ImportScript, Skip

(* its writes, which insert or update,                                     *)
LEMMA ImportWritesAre ==
    \A w \in ImportWrites :
        /\ ~Merges(w) /\ ~Drops(w)
        /\ \A tab \in DOMAIN w : w[tab] = "insert" \/ w[tab] = "update"
<1>1. \A tabs, v : DOMAIN All(v, tabs) = tabs /\ \A tab \in tabs : All(v, tabs)[tab] = v
  BY DEF All
<1>2. \A tab \in DOMAIN CreateRun : CreateRun[tab] = "insert"
  BY <1>1 DEF CreateRun
<1>3. \A tab \in DOMAIN UpdateRun : UpdateRun[tab] = "update"
  BY DEF UpdateRun
<1>4. \A tab \in DOMAIN UpdateItem : UpdateItem[tab] = "update"
  BY DEF UpdateItem
<1>5. \A w \in ImportWrites : \A tab \in DOMAIN w : w[tab] = "insert" \/ w[tab] = "update"
  BY <1>2, <1>3, <1>4 DEF ImportWrites
<1>6. "insert" # "drop" /\ "update" # "drop" /\ "insert" \notin {"merge", "join"}
      /\ "update" \notin {"merge", "join"}
  OBVIOUS
<1> QED BY <1>5, <1>6 DEF Merges, Drops

(* and its old rows, a run with an item for each owner.                    *)
LEMMA OldImports ==
    /\ \A r \in OldRows("imports") : \E o \in Owners : r = OldImport(o) \/ r = OldItem(o)
    /\ \A o \in Owners : OldImport(o) \in OldRows("imports") /\ OldItem(o) \in OldRows("imports")
<1> DEFINE tables == Kind["imports"].tables
           OldId(tab, o, key) == IdOf(tables[tab], key, IF key = 1 THEN o ELSE o + Leaver)
           Row(tab, o, key) ==
             [tab |-> tab, owner |-> o, id |-> OldId(tab, o, key), key |-> key, body |-> "old",
              ref |-> {OldId(tables[tab].parent, o, p) : p \in tables[tab].refs}]
           plain == UNION {{Row(tab, o, key) : o \in Owners, key \in tables[tab].keys}
                           : tab \in DOMAIN tables \ {"youtube_sqlite_migration_ledger"}}
<1>1. OldRows("imports") = Linked(plain)
  BY DEF OldRows
<1>2. /\ DOMAIN tables = ImportTabs
      /\ tables["import_runs"].unique = {"id"} /\ tables["import_runs"].refs = {}
      /\ tables["import_runs"].keys = {1}
      /\ tables["import_run_items"].unique = {"key"}
      /\ tables["import_run_items"].parent = "import_runs"
      /\ tables["import_run_items"].refs = {1}
      /\ tables["import_run_items"].keys = {1}
  BY ImportsAre
<1> HIDE DEF tables
<1>3. \A o \in Owners : o \in Nat
  BY LeaverAssumption DEF Owners
<1>4. \A o \in Owners : OldId("import_runs", o, 1) = o /\ OldId("import_run_items", o, 1) = 1
  BY <1>2, <1>3 DEF IdOf
<1> HIDE DEF OldId
<1>5. ASSUME NEW o \in Owners PROVE Row("import_runs", o, 1) = OldImport(o)
  BY <1>2, <1>4 DEF OldImport
<1>6. ASSUME NEW o \in Owners PROVE Row("import_run_items", o, 1) = OldItem(o)
  <2>1. {OldId(tables["import_run_items"].parent, o, p) : p \in tables["import_run_items"].refs} = {o}
    BY <1>2, <1>4
  <2> QED BY <1>4, <2>1 DEF OldItem
<1> HIDE DEF Row
<1>7. DOMAIN tables \ {"youtube_sqlite_migration_ledger"} = ImportTabs
  BY <1>2 DEF ImportTabs
<1>8. \A r \in plain : \E o \in Owners : r = OldImport(o) \/ r = OldItem(o)
  BY <1>2, <1>5, <1>6, <1>7 DEF ImportTabs
<1>9. \A o \in Owners : OldImport(o) \in plain /\ OldItem(o) \in plain
  <2>1. \A tab \in ImportTabs : \A o \in Owners : Row(tab, o, 1) \in plain
    BY <1>2, <1>7 DEF ImportTabs
  <2> HIDE DEF plain
  <2> QED BY <1>5, <1>6, <2>1 DEF ImportTabs
<1>10. \A r \in plain : r.tab # "kg_memory_entities"
  BY <1>8 DEF OldImport, OldItem
<1> HIDE DEF plain
<1>11. Linked(plain) = plain
  BY <1>10 DEF Linked
<1> QED BY <1>1, <1>8, <1>9, <1>11

(* Of what a run is for, each item has its run and each run its item.      *)
LEMMA ImportSources ==
    ASSUME kind = "imports", NEW sel
    PROVE  /\ \A r \in Source(sel, {"import_runs"}) :
                 /\ r.owner \in Owners /\ r = OldImport(r.owner)
                 /\ OldItem(r.owner) \in Source(sel, {"import_run_items"})
           /\ \A r \in Source(sel, {"import_run_items"}) :
                 /\ r.owner \in Owners /\ r = OldItem(r.owner)
                 /\ OldImport(r.owner) \in Source(sel, {"import_runs"})
<1>1. \A o : /\ OldImport(o).tab = "import_runs" /\ OldImport(o).owner = o
             /\ OldItem(o).tab = "import_run_items" /\ OldItem(o).owner = o
  BY DEF OldImport, OldItem
<1>2. \A o : ~Incompatible(OldImport(o)) /\ ~Incompatible(OldItem(o))
  BY <1>1 DEF Incompatible
<1> QED BY <1>1, <1>2, OldImports DEF Source

(* What keeps the rows of the target but for their bodies, and adds no run *)
(* with the id of an old one, keeps the items.                             *)
LEMMA ItemsKeep ==
    ASSUME ItemsInv, UNCHANGED <<store, pend, mig>>,
           kind = "imports" =>
              \A s \in db' : s.tab = "import_runs" /\ s.id = s.owner => HasItem(s, db')
    PROVE  ItemsInv'
<1>1. \A sel, tabs : Source(sel, tabs)' = Source(sel, tabs)
  BY BroughtElsewhere
<1>2. kind' = kind
  BY DEF kind
<1> QED BY <1>1, <1>2 DEF ItemsInv, Past, HasItem

(* A write keeps the runs and items of the target, and creates a run under *)
(* an id of its own;                                                       *)
LEMMA WriteKeepsItems ==
    ASSUME RowsInv, ItemsInv, kind = "imports", NEW t \in Threads, Write(t), UNCHANGED mig
    PROVE  ItemsInv'
<1> DEFINE found == UNION {Finds(t, tab) : tab \in Tabs(t)}
           gone  == {r \in found : Verb(t, r.tab) = "replace"}
           fresh == {n \in Anew(t) : Verb(t, n.tab) = "ignore" => InTheWay(n, db) = {}}
           live(r) == [r EXCEPT !.body = "live"]
           kept == {live(r) : r \in found \ gone}
           result == (db \ found) \cup kept \cup fresh
<1>1. Open(t) /\ (Committed(t, db) \/ Committed(t, result))
  BY DEF Write
<1>2. UNCHANGED <<store, pend>> /\ (db' = db \/ db' = result)
  BY <1>1 DEF Committed
<1>3. tx[t].write \in ImportWrites /\ TxFits(kind, tx[t]) /\ tx[t] # Idle
  BY <1>1, OpenFits, ImportsAre
<1>4. /\ ~Merges(tx[t].write)
      /\ \A tab \in Tabs(t) : Verb(t, tab) = "insert" \/ Verb(t, tab) = "update"
  BY <1>3, ImportWritesAre DEF Tabs, Verb
<1>5. tx[t].id # Leaver
  <2>1. OwnIds(kind)
    <3>1. Len(Kind[kind].script) = 2
      BY ImportsAre, ImportScriptIs
    <3>2. Len(<<>>) = 0
      OBVIOUS
    <3> QED BY <3>1, <3>2 DEF OwnIds
  <2> QED BY <1>3, <1>4, <2>1 DEF TxFits
<1>6. \A r \in found : r.tab \in Tabs(t) /\ r \in db
  BY DEF Finds, Rows
<1>7. gone = {}
  BY <1>4, <1>6
<1>8. ASSUME NEW s \in fresh, s.tab = "import_runs" PROVE s.id # s.owner
  <2>1. PICK tab \in Tabs(t) : s = Written(t, tab)
    BY <1>8 DEF Anew
  <2>2. tab = "import_runs" /\ s.owner = Leaver
    BY <1>8, <2>1 DEF Written
  <2>3. s.id = IdOf(Table(tab), tx[t].key, tx[t].id)
    BY <1>4, <2>1 DEF Written
  <2>4. Table(tab).unique = {"id"}
    BY <2>2, ImportsAre DEF RowsInv, Table
  <2> QED BY <1>5, <2>2, <2>3, <2>4 DEF IdOf
<1>9. ASSUME NEW r \in db
      PROVE  /\ live(r).tab = r.tab /\ live(r).owner = r.owner /\ live(r).id = r.id
             /\ live(r).key = r.key /\ live(r).ref = r.ref
  BY DEF RowsInv, AllFit, Fits, IsRow
<1> HIDE DEF found, fresh, live
<1>10. ASSUME NEW s \in db, HasItem(s, db) PROVE HasItem(s, result)
  <2>1. PICK i \in db : /\ i.tab = "import_run_items" /\ i.owner = s.owner /\ i.key = 1
                        /\ i.ref = {s.id}
    BY <1>10 DEF HasItem
  <2>2. i \in result \/ live(i) \in result
    BY <1>7, <2>1
  <2> HIDE DEF result
  <2> QED BY <1>9, <2>1, <2>2 DEF HasItem
<1>11. ASSUME NEW s \in result, s.tab = "import_runs", s.id = s.owner PROVE HasItem(s, result)
  <2>1. CASE s \in db
    BY <1>10, <1>11, <2>1 DEF ItemsInv
  <2>2. CASE s \in kept
    <3>1. PICK r \in found : s = live(r)
      BY <2>2
    <3>2. r \in db /\ r.tab = s.tab /\ r.id = s.id /\ r.owner = s.owner
      BY <1>6, <1>9, <3>1
    <3>3. HasItem(r, result)
      BY <1>10, <1>11, <3>2 DEF ItemsInv
    <3> HIDE DEF result
    <3> QED BY <3>2, <3>3 DEF HasItem
  <2>3. s \notin fresh
    BY <1>8, <1>11
  <2> QED BY <1>11, <2>1, <2>2, <2>3
<1> HIDE DEF result
<1>12. \A s \in db' : s.tab = "import_runs" /\ s.id = s.owner => HasItem(s, db')
  BY <1>2, <1>11 DEF ItemsInv
<1> QED BY <1>2, <1>12, ItemsKeep

(* the store writes in no other way;                                       *)
LEMMA ImportSteps ==
    ASSUME RowsInv, kind = "imports", NEW t \in Threads, LiveStep(t) PROVE Begin(t) \/ Write(t)
<1>1. \A w \in Kind[kind].writes : ~Merges(w) /\ ~Drops(w)
  BY ImportsAre, ImportWritesAre
<1>2. ~Delete(t) /\ ~MergeReads(t)
  BY <1>1 DEF Delete, MergeReads
<1>3. ~MergeWrites(t) /\ ~LocalMergeWrites(t)
  <2>1. Open(t) => ~Merges(tx[t].write)
    BY <1>1, OpenFits
  <2> QED BY <2>1, MergesAre DEF MergeWrites, LocalMergeWrites
<1> QED BY <1>2, <1>3 DEF LiveStep

(* and the erasure takes the runs and the items of the leaver at once.     *)
LEMMA ImportsElsewhere ==
    /\ \A n \in 1..Last : n # 4 => Steps[n] \cap ImportTabs = {}
    /\ (OfMemories \cup {"memory_records"}) \cap ImportTabs = {}
    /\ Steps[4] = ImportTabs
<1>1. \A n \in {1, 2, 3, 5, 6, 7} : Steps[n] \cap ImportTabs = {}
  BY StepsAre
     DEF ImportTabs, SessionsErased, AgentsErased, TokensErased, CapturesErased, FeedbackErased
<1>2. \A n \in {8, 9, 10, 11, 12, 13} : Steps[n] \cap ImportTabs = {}
  BY StepsAre
     DEF ImportTabs, UsageErased, BusErased, GraphErased, IntelligenceErased, HomeErased,
         VectorsErased
<1>3. Steps[14] \cap ImportTabs = {}
  BY StepsAre DEF ImportTabs, Residuals
<1>4. (OfMemories \cup {"memory_records"}) \cap ImportTabs = {}
  BY DEF OfMemories, ImportTabs
<1>5. Steps[4] = ImportTabs
  BY StepsAre DEF ImportsErased, ImportTabs
<1>6. \A n \in 1..14 : n # 4 => n \in {1, 2, 3, 5, 6, 7} \/ n \in {8, 9, 10, 11, 12, 13} \/ n = 14
  OBVIOUS
<1> QED BY <1>1, <1>2, <1>3, <1>4, <1>5, <1>6, LastIs

(* the erasure takes all of the leaver's imports at once,                  *)
LEMMA ErasureOfImports ==
    ASSUME RowsInv, kind = "imports", ErasureStep
    PROVE  db' = db \/ \A r \in db' : r.owner # Leaver
<1>1. \A r \in db : r.tab \in ImportTabs
  BY ImportsAre DEF RowsInv, AllFit, Fits
<1>2. ASSUME NEW tabs, tabs \cap ImportTabs = {}, NEW rows \in SUBSET Rows(Leaver, tabs),
             Erased(rows \cup ChildrenOf(rows, db))
      PROVE  db' = db
  <2>1. rows = {}
    BY <1>1, <1>2 DEF Rows
  <2>2. rows \cup ChildrenOf(rows, db) = {}
    BY <2>1, NoChildrenOfNone
  <2> QED BY <1>2, <2>2, ErasedIs
<1>3. CASE EraseStore /\ er.at = 4
  <2>1. db' = db \ (Mine(4) \cup ChildrenOf(Mine(4), db))
    BY <1>3, ErasedIs DEF EraseStore
  <2>2. \A r \in db : r.owner = Leaver => r \in Mine(4)
    BY <1>1, ImportsElsewhere DEF Mine, Rows
  <2> QED BY <2>1, <2>2
<1>4. CASE EraseStore /\ er.at # 4
  <2>1. er.at \in 1..Last /\ Erased(Mine(er.at) \cup ChildrenOf(Mine(er.at), db))
    BY <1>4 DEF EraseStore
  <2>2. Steps[er.at] \cap ImportTabs = {} /\ Mine(er.at) \in SUBSET Rows(Leaver, Steps[er.at])
    BY <1>4, <2>1, ImportsElsewhere DEF Mine
  <2> QED BY <1>2, <2>1, <2>2
<1>5. CASE EraseMemories
  <2>1. PICK gone \in SUBSET Rows(Leaver, OfMemories \cup {"memory_records"}) :
           Erased(gone \cup ChildrenOf(gone, db))
    BY <1>5 DEF EraseMemories
  <2> QED BY <1>2, <2>1, ImportsElsewhere
<1>6. CASE Fence \/ Finish \/ Raises
  BY <1>6 DEF Fence, Finish, Raises, tableVars
<1> QED BY <1>3, <1>4, <1>5, <1>6 DEF ErasureStep

(* and what is left has its items.                                         *)
LEMMA ErasureKeepsItems ==
    ASSUME RowsInv, ItemsInv, kind = "imports", ErasureStep, UNCHANGED mig PROVE ItemsInv'
<1>1. /\ UNCHANGED <<store, pend>> /\ db' \subseteq db
      /\ \A r \in db : r.owner # Leaver => r \in db'
  BY NeighboursStay
<1>2. ASSUME NEW s \in db', s.tab = "import_runs", s.id = s.owner PROVE HasItem(s, db')
  <2>1. HasItem(s, db)
    BY <1>1, <1>2 DEF ItemsInv
  <2> QED BY <1>1, <1>2, <2>1, ErasureOfImports DEF HasItem
<1> QED BY <1>1, <1>2, ItemsKeep

(* A run that rolls back leaves none behind.                               *)
LEMMA ItemsRolledBack == ASSUME ItemsInv, Rollback PROVE ItemsInv'
<1>1. pend' = {} /\ mig' = NoRun /\ UNCHANGED <<store, db>>
  BY DEF Rollback
<1>2. mig'.at = "none" /\ kind' = kind
  BY <1>1 DEF NoRun, kind
<1> QED BY <1>1, <1>2 DEF ItemsInv, HasItem

(* Runs come first, then their items, until the run commits both.          *)
LEMMA MigrationKeepsItems ==
    ASSUME FenceInv, RowsInv, StepInv, FaithInv, ItemsInv, kind = "imports", MigrationStep
    PROVE  ItemsInv'
<1>1. Script = ImportScript /\ Len(Script) = 2
  BY ImportsAre, ImportScriptIs DEF Script
<1>2. UNCHANGED store /\ kind' = kind
  BY MigrationLeaves DEF kind
<1>3. \A sel, tabs : Source(sel, tabs)' = Source(sel, tabs)
  BY <1>2, BroughtElsewhere
<1>4. ASSUME pend' = {}, db' = db PROVE ItemsInv'
  BY <1>2, <1>4 DEF ItemsInv, HasItem
<1>5. Rollback => ItemsInv'
  BY ItemsRolledBack
<1>6. mig.at # "replay" => pend = {}
  BY DEF FenceInv
<1>7. CASE StartMigration
  <2>1. UNCHANGED <<db, pend>> /\ mig.at = "none"
    BY <1>7 DEF StartMigration
  <2> QED BY <1>4, <1>6, <2>1
<1>8. CASE LockOwner
  <2>1. Rollback \/ (UNCHANGED <<db, pend>> /\ mig.at = "lock")
    BY <1>8 DEF LockOwner
  <2> QED BY <1>4, <1>5, <1>6, <2>1
<1>9. CASE NextStatement
  <2>1. /\ mig' = At(mig.step + 1) /\ mig.at = "replay" /\ UNCHANGED <<db, pend>> /\ mig.left = {}
        /\ mig.step <= 2 /\ mig.step \in Nat \ {0}
    BY <1>1, <1>9 DEF NextStatement, tableVars, StepInv
  <2>2. /\ mig'.sel = mig.sel /\ mig'.step = mig.step + 1
        /\ mig'.left = IF mig.step + 1 <= 2 THEN Source(mig.sel, {Script[mig.step + 1][2]}) ELSE {}
    BY <1>1, <2>1 DEF At, FenceInv, IsMigration
  <2>3. ASSUME NEW r \in Source(mig.sel, {"import_run_items"}), Past(2, r)' PROVE Past(2, r)
    <3>1. mig'.step > 2 \/ (mig'.step = 2 /\ r \notin mig'.left)
      BY <2>2, <2>3 DEF Past
    <3>2. mig.step = 2 \/ (mig.step = 1 /\ r \notin mig'.left)
      BY <2>1, <2>2, <3>1
    <3>3. mig.step = 1 => mig'.left = Source(mig.sel, {"import_run_items"})
      BY <1>1, <2>2, ImportScriptIs
    <3> QED BY <2>1, <2>3, <3>2, <3>3 DEF Past
  <2> QED BY <1>2, <1>3, <2>1, <2>2, <2>3 DEF ItemsInv, HasItem
<1>10. ~SetSequence
  <2>1. \A n \in Nat \ {0} : n <= 2 => n \in {1, 2}
    OBVIOUS
  <2>2. SetSequence => mig.step \in {1, 2} /\ Script[mig.step][1] = "setval"
    BY <1>1, <2>1 DEF SetSequence, StepInv
  <2> QED BY <1>1, <2>2, ImportScriptIs
<1>11. CASE FinishMigration
  <2>1. db' = db \cup pend /\ pend' = {} /\ mig' = NoRun /\ mig.at = "replay" /\ mig.step = 3
    BY <1>1, <1>11 DEF FinishMigration, Finishing, Visible
  <2>2. ASSUME NEW s \in db', s.tab = "import_runs", s.id = s.owner PROVE HasItem(s, db')
    <3>1. CASE s \in db
      BY <2>1, <2>2, <3>1 DEF ItemsInv, HasItem
    <3>2. CASE s \in pend
      <4>1. s \in Source(mig.sel, {"import_runs"})
        BY <2>2, <3>2 DEF ItemsInv
      <4> DEFINE i == OldItem(s.owner)
      <4>2. s = OldImport(s.owner) /\ i \in Source(mig.sel, {"import_run_items"})
        BY <4>1, ImportSources
      <4>3. /\ i.tab = "import_run_items" /\ i.owner = s.owner /\ i.key = 1 /\ i.ref = {s.owner}
        BY DEF OldItem
      <4>4. Past(2, i)
        BY <2>1 DEF Past
      <4>5. s.id \in i.ref
        BY <2>2, <4>3
      <4> HIDE DEF i
      <4>6. i \in pend
        BY <2>1, <2>2, <3>2, <4>2, <4>4, <4>5 DEF ItemsInv
      <4> QED BY <2>1, <2>2, <4>3, <4>6 DEF HasItem
    <3> QED BY <2>1, <3>1, <3>2
  <2>3. mig'.at = "none"
    BY <2>1 DEF NoRun
  <2> QED BY <2>1, <2>2, <2>3 DEF ItemsInv
<1>12. ASSUME NEW r \in Upcoming,
              Check(r) \/ Insert(r) \/ InsertItem(r) \/ InsertOnce(r) \/ InsertReview(r) \/ Parity(r)
       PROVE  ItemsInv'
  <2>1. mig.at = "replay" /\ mig.step \in {1, 2} /\ r \in mig.left
    <3>1. mig.at = "replay" /\ mig.step <= 2 /\ r \in mig.left
      BY <1>1, <1>12 DEF Turn, Check, Insert, InsertItem, InsertOnce, InsertReview, Parity
    <3> QED BY <3>1 DEF StepInv
  <2>2. r \in Source(mig.sel, {Script[mig.step][2]}) /\ r.tab = Script[mig.step][2]
    <3>1. mig.step <= Len(Script)
      BY <1>1, <2>1
    <3> QED BY <2>1, <3>1 DEF FaithInv, Source
  <2>3. ASSUME NEW rows \in {{}, {r}}, Replayed(r, rows, {}),
               mig.step = 2 =>
                  rows = {r} \/ ~\E p \in pend : p.tab = "import_runs" /\ p.id \in r.ref
        PROVE  ItemsInv'
    <3>1. /\ mig'.at = "replay" /\ mig'.sel = mig.sel /\ mig'.step = mig.step
          /\ mig'.left = mig.left \ {r} /\ db' = db /\ pend' = pend \cup rows
      BY <2>1, <2>3 DEF Replayed, FenceInv, IsMigration
    <3>2. ASSUME NEW p \in pend', p.tab = "import_runs"
          PROVE  p \in Source(mig.sel, {"import_runs"}) /\ (mig.step = 2 => p \in pend)
      <4>1. CASE p \in pend
        BY <3>2, <4>1 DEF ItemsInv
      <4>2. CASE p = r
        <5>1. mig.step = 1
          BY <1>1, <2>1, <2>2, <3>2, <4>2, ImportScriptIs
        <5> QED BY <1>1, <2>2, <4>2, <5>1, ImportScriptIs
      <4> QED BY <3>1, <4>1, <4>2
    <3>3. ASSUME NEW q \in Source(mig.sel, {"import_run_items"}), Past(2, q)',
                 NEW p \in pend', p.tab = "import_runs", p.id \in q.ref
          PROVE  q \in pend'
      <4>1. mig.step = 2 /\ q \notin mig.left \ {r}
        BY <2>1, <3>1, <3>3 DEF Past
      <4>2. p \in pend
        BY <3>2, <3>3, <4>1
      <4>3. CASE q = r
        BY <2>3, <3>1, <3>3, <4>1, <4>2, <4>3
      <4>4. CASE q # r
        <5>1. Past(2, q)
          BY <4>1, <4>4 DEF Past
        <5> QED BY <2>1, <3>1, <3>3, <4>2, <5>1 DEF ItemsInv
      <4> QED BY <4>3, <4>4
    <3> QED BY <1>2, <1>3, <3>1, <3>2, <3>3 DEF ItemsInv, HasItem
  <2>4. CASE mig.step = 1
    <3>1. Insert(r)
      BY <1>1, <1>12, <2>4, ImportScriptIs
         DEF Turn, Check, InsertItem, InsertOnce, InsertReview, Parity
    <3>2. Rollback \/ \E rows \in {{}, {r}} : Replayed(r, rows, {})
      BY <3>1 DEF Insert
    <3> QED BY <1>5, <2>3, <2>4, <3>2
  <2>5. CASE mig.step = 2
    <3>1. InsertItem(r)
      BY <1>1, <1>12, <2>5, ImportScriptIs
         DEF Turn, Check, Insert, InsertOnce, InsertReview, Parity
    <3>2. Table(r.tab).parent = "import_runs"
      BY <1>1, <2>2, <2>5, ImportScriptIs, ImportsAre DEF RowsInv, Table
    <3>3. \/ Replayed(r, {r}, {})
          \/ Replayed(r, {}, {}) /\ ~\E p \in pend : p.tab = "import_runs" /\ p.id \in r.ref
      BY <3>1, <3>2 DEF InsertItem
    <3> QED BY <2>3, <3>3
  <2> QED BY <2>1, <2>4, <2>5
<1> QED BY <1>7, <1>8, <1>9, <1>10, <1>11, <1>12 DEF MigrationStep

(* So it is whatever the plane does,                                       *)
LEMMA ItemsStep == ASSUME PlaneInv, FaithInv, ItemsInv, [Next]_vars PROVE ItemsInv'
<1>1. kind' = kind
  BY StoreStays DEF PlaneInv, kind
<1>2. CASE kind # "imports"
  BY <1>1, <1>2 DEF ItemsInv
<1>3. CASE kind = "imports"
  <2>1. \A t \in Threads : ~AgentStep(t) /\ ~Ends(t)
    <3>1. ~Agents
      BY <1>3 DEF Agents
    <3> QED BY <3>1, NoRequestsForEvents DEF PlaneInv
  <2>a. ASSUME UNCHANGED <<store, pend, mig, db>> PROVE ItemsInv'
    <3>1. \A s \in db' : s.tab = "import_runs" /\ s.id = s.owner => HasItem(s, db')
      BY <1>3, <2>a DEF ItemsInv
    <3> QED BY <2>a, <3>1, ItemsKeep
  <2>2. ASSUME NEW t \in Threads, LiveStep(t), UNCHANGED migVars PROVE ItemsInv'
    <3>1. Begin(t) \/ Write(t)
      BY <1>3, <2>2, ImportSteps DEF PlaneInv
    <3>2. CASE Begin(t)
      BY <2>2, <2>a, <3>2 DEF Begin, migVars
    <3>3. CASE Write(t)
      BY <1>3, <2>2, <3>3, WriteKeepsItems DEF PlaneInv, migVars
    <3> QED BY <3>1, <3>2, <3>3
  <2>3. CASE MigrationStep
    BY <1>3, <2>3, MigrationKeepsItems DEF PlaneInv
  <2>4. CASE ErasureStep /\ UNCHANGED migVars
    BY <1>3, <2>4, ErasureKeepsItems DEF PlaneInv, migVars
  <2>5. CASE Crash
    <3>1. Rollback \/ UNCHANGED <<store, db, pend, mig>>
      BY <2>1, <2>5 DEF Crash, migVars
    <3> QED BY <2>a, <3>1, ItemsRolledBack
  <2>6. CASE UNCHANGED vars
    BY <2>6, <2>a DEF vars, tableVars, migVars
  <2> QED BY <2>1, <2>2, <2>3, <2>4, <2>5, <2>6 DEF Next
<1> QED BY <1>2, <1>3

(* and the target has no import before the first migration.                *)
LEMMA ItemsInit == Init => ItemsInv
<1> SUFFICES ASSUME Init, kind = "imports" PROVE ItemsInv
  BY DEF ItemsInv
<1>1. PICK k \in DOMAIN Kind : \E rows \in Targets(k) :
         TablesInit(k, IF k \in {"agents", "local_agents"} THEN Awaiting(rows) ELSE rows)
  BY DEF Init
<1>2. k = "imports"
  BY <1>1 DEF TablesInit, kind
<1>3. PICK rows \in Targets("imports") : TablesInit("imports", rows)
  BY <1>1, <1>2
<1> DEFINE scripted == {Kind["imports"].script[n][2] : n \in 1..Len(Kind["imports"].script)}
<1>4. ImportTabs \subseteq scripted
  <2> DEFINE s == Kind["imports"].script
  <2>1. 1 \in 1..Len(s) /\ 2 \in 1..Len(s)
    BY ImportsAre, ImportScriptIs
  <2>2. s[1][2] = "import_runs" /\ s[2][2] = "import_run_items"
    BY ImportsAre, ImportScriptIs
  <2> HIDE DEF s
  <2>3. {s[n][2] : n \in 1..Len(s)} = scripted
    BY DEF s
  <2> QED BY <2>1, <2>2, <2>3 DEF ImportTabs
<1>5. rows \subseteq {r \in OldRows("imports") : r.tab \notin scripted}
  BY <1>3 DEF Targets
<1> HIDE DEF scripted
<1>6. \A r \in OldRows("imports") : r.tab \in ImportTabs
  BY OldImports DEF OldImport, OldItem, ImportTabs
<1>7. db = {} /\ pend = {}
  BY <1>3, <1>4, <1>5, <1>6 DEF TablesInit
<1>8. mig.at = "none"
  BY DEF Init, MigrationInit, NoRun
<1> QED BY <1>7, <1>8 DEF ItemsInv

-----------------------------------------------------------------------------
(* Where rows keep their ids, the id of an old row is no other user's.     *)
LEMMA IdsAreOwners ==
    ASSUME RowsInv, Script # <<>>, kind \notin {"events", "youtube"}, NEW r \in OldRows(kind),
           NEW s \in Visible, s.tab = r.tab, s.id = r.id, "id" \in Table(r.tab).unique
    PROVE  s.owner = r.owner
<1>1. OwnIds(kind)
  BY DEF OwnIds, Script
<1>2. Fits(kind, r) /\ Fits(kind, s)
  BY OldRowsFit DEF RowsInv, AllFit, Visible
<1>3. "id" \in Kind[kind].tables[r.tab].unique
  BY DEF RowsInv, Table
<1>4. /\ r.id \in {1, 1 + Leaver} <=> r.owner # Leaver
      /\ s.id \in {1, 1 + Leaver} <=> s.owner # Leaver
  BY <1>1, <1>2, <1>3 DEF Fits
<1>5. r.owner \in Owners /\ s.owner \in Owners
  BY <1>2 DEF Fits
<1> QED BY <1>4, <1>5 DEF Owners

(* So what kept a row of a run out is the same user's,                     *)
LEMMA SkippedArrives ==
    ASSUME PlaneInv, CheckedInv, Finishing, ~overtaken, NEW m \in 1..Len(Script),
           Script[m][1] = "skip", NEW r \in Source(mig.sel, {Script[m][2]}), Brought(m, r, Visible)
    PROVE  Arrived(r, Visible)
<1> DEFINE covered == Script[m][3]
<1>1. PICK s \in Visible : Meets(s, r, covered)
  BY DEF Brought
<1>2. r.tab = Script[m][2] /\ r \in OldRows(kind) /\ Script # <<>> /\ Script = Kind[kind].script
  BY DEF Source, Script
<1>3. Statement(kind, Script[m])
  BY StatementIs DEF PlaneInv
<1>4. /\ covered \in {{"id"}, {"key"}, {"id", "key"}} /\ covered \subseteq Table(r.tab).unique
      /\ kind = "youtube" => covered = {"key"}
      /\ r.tab # "youtube_pipeline_runs"
  BY <1>2, <1>3 DEF Statement, PlaneInv, RowsInv, Table
<1> HIDE DEF covered
<1>5. Meets(s, r, Table(r.tab).unique)
  BY <1>1, <1>4 DEF Meets
<1>6. s.owner = r.owner
  <2>1. CASE "key" \in covered /\ s.owner = r.owner
    BY <2>1
  <2>2. CASE "id" \in covered /\ s.id = r.id
    <3>1. "id" \in Table(r.tab).unique /\ s.tab = r.tab /\ kind # "youtube"
      BY <1>1, <1>4, <2>2 DEF Meets
    <3>2. CASE kind = "events"
      <4>1. r.owner = r.id /\ r.tab = "intelligence_events"
        BY <1>2, <3>2, OldEvents
      <4>2. Len(Script) = 3
        BY <1>2, <3>2, EventsAre, EventScriptIs
      <4>3. mig.at = "replay" /\ mig.step = 4
        BY <4>2 DEF Finishing
      <4>4. Past(1, r)
        BY <4>3 DEF Past
      <4>5. r \in Source(mig.sel, {"intelligence_events"})
        BY <4>1 DEF Source
      <4>6. CASE s \in db
        BY <2>2, <3>2, <4>3, <4>4, <4>5, <4>6 DEF CheckedInv
      <4>7. CASE s \in pend
        BY <2>2, <3>2, <4>1, <4>7 DEF CheckedInv
      <4> QED BY <4>6, <4>7 DEF Visible
    <3>3. CASE kind # "events"
      BY <1>2, <2>2, <3>1, <3>3, IdsAreOwners DEF PlaneInv
    <3> QED BY <3>2, <3>3
  <2> QED BY <1>1, <2>1, <2>2 DEF Meets
<1> QED BY <1>4, <1>5, <1>6 DEF Arrived

(* an item is there with its run,                                          *)
LEMMA ItemArrives ==
    ASSUME PlaneInv, FaithInv, ItemsInv, Finishing, ~overtaken, NEW m \in 1..Len(Script),
           Script[m][1] = "with", NEW r \in Source(mig.sel, {Script[m][2]})
    PROVE  Arrived(r, Visible)
<1>1. Statement(kind, Script[m])
  BY StatementIs DEF PlaneInv
<1>2. kind = "imports" /\ Script = ImportScript /\ Len(Script) = 2 /\ Script # <<>>
  <2>1. kind = "imports"
    BY <1>1 DEF Statement
  <2>2. Script = ImportScript /\ Len(Script) = 2
    BY <2>1, ImportsAre, ImportScriptIs DEF Script
  <2>3. Script # <<>>
    BY <2>2
  <2> QED BY <2>1, <2>2, <2>3
<1>3. Script[m][2] = "import_run_items"
  <2>1. m = 1 \/ m = 2
    BY <1>2
  <2> QED BY <1>2, <2>1, ImportScriptIs
<1>4. /\ r = OldItem(r.owner) /\ r.owner \in Owners
      /\ OldImport(r.owner) \in Source(mig.sel, {"import_runs"})
  BY <1>2, <1>3, ImportSources
<1> DEFINE R == OldImport(r.owner)
<1>5. R.tab = "import_runs" /\ R.id = r.owner /\ R.owner = r.owner
  BY DEF OldImport
<1>6. r.tab = "import_run_items" /\ r.key = 1 /\ r.ref = {r.owner}
  BY <1>4 DEF OldItem
<1>7. R \in Source(mig.sel, {"import_runs"})
  BY <1>4
<1> HIDE DEF R
<1>8. mig.at = "replay" /\ mig.step = 3
  BY <1>2 DEF Finishing
<1>9. Past(1, R) /\ Past(2, r)
  BY <1>8 DEF Past
<1>10. Brought(1, R, Visible)
  <2>1. PastBrought
    BY <1>8 DEF FaithInv
  <2>2. 1 \in 1..Len(Script) /\ Script[1][2] = "import_runs"
    BY <1>2, ImportScriptIs
  <2> QED BY <1>7, <1>9, <2>1, <2>2 DEF PastBrought
<1>11. PICK s \in Visible : Meets(s, R, {"id"})
  BY <1>2, <1>10, ImportScriptIs DEF Brought
<1>12. s.tab = "import_runs" /\ s.id = r.owner
  BY <1>5, <1>11 DEF Meets
<1>13. s.owner = r.owner
  <2>1. "id" \in Table(R.tab).unique
    BY <1>2, <1>5, ImportsAre DEF PlaneInv, RowsInv, Table
  <2>2. R \in OldRows(kind)
    BY <1>7 DEF Source
  <2> QED BY <1>2, <1>5, <1>12, <2>1, <2>2, IdsAreOwners DEF PlaneInv
<1>14. Table(r.tab).unique = {"key"}
  BY <1>2, <1>6, ImportsAre DEF PlaneInv, RowsInv, Table
<1>15. \E i \in Visible : i.tab = r.tab /\ i.owner = r.owner /\ i.key = r.key /\ i.ref = r.ref
  <2>1. CASE s \in db
    <3>1. HasItem(s, db)
      BY <1>2, <1>12, <1>13, <2>1 DEF ItemsInv
    <3> QED BY <1>6, <1>12, <1>13, <3>1 DEF HasItem, Visible
  <2>2. CASE s \in pend
    <3>1. s.id \in r.ref
      BY <1>6, <1>12
    <3>2. r \in pend
      BY <1>2, <1>3, <1>8, <1>9, <1>12, <2>2, <3>1 DEF ItemsInv
    <3> QED BY <3>2 DEF Visible
  <2> QED BY <2>1, <2>2 DEF Visible
<1> QED BY <1>6, <1>14, <1>15 DEF Arrived, Meets

(* and so is every row of a run that finishes and was not overtaken.       *)
LEMMA AllArrive ==
    ASSUME PlaneInv, FaithInv, CheckedInv, ItemsInv, Finishing, ~overtaken,
           NEW r \in Source(mig.sel, Scripted)
    PROVE  Arrived(r, Visible)
<1>1. PICK n \in 1..Len(Script) : r.tab = Script[n][2]
  BY DEF Source, Scripted
<1>2. PICK m \in 1..Len(Script) : Script[m][2] = Script[n][2] /\ Script[m][1] \in Brings
  BY StatementIs DEF PlaneInv
<1>3. r \in Source(mig.sel, {Script[m][2]})
  BY <1>1, <1>2 DEF Source
<1>4. Brought(m, r, Visible)
  <2>1. Past(m, r)
    BY DEF Finishing, Past
  <2>2. PastBrought
    BY DEF FaithInv, Finishing
  <2> QED BY <1>3, <2>1, <2>2 DEF PastBrought
<1>5. Statement(kind, Script[m])
  BY StatementIs DEF PlaneInv
<1>6. CASE Script[m][1] = "skip"
  BY <1>3, <1>4, <1>6, SkippedArrives
<1>7. CASE Script[m][1] = "with"
  BY <1>3, <1>7, ItemArrives
<1>8. CASE Script[m][1] = "once"
  <2>1. r.tab = "youtube_pipeline_runs"
    BY <1>1, <1>2, <1>5, <1>8 DEF Statement
  <2>2. Claim(r) \in Visible
    BY <1>4, <1>8 DEF Brought
  <2> QED BY <2>1, <2>2 DEF Arrived
<1>9. CASE Script[m][1] = "needs"
  <2>1. r.tab # "youtube_pipeline_runs"
    BY <1>1, <1>2, <1>5, <1>9 DEF Statement
  <2>2. Table(r.tab).unique = {"key"}
    BY <1>1, <1>2, <1>5, <1>9 DEF Statement, PlaneInv, RowsInv, Table
  <2>3. \E s \in Visible : Meets(s, r, Table(r.tab).unique)
    BY <1>4, <1>9 DEF Brought
  <2>4. \E s \in Visible : Meets(s, r, Table(r.tab).unique) /\ s.owner = r.owner
    BY <2>2, <2>3 DEF Meets
  <2> QED BY <2>1, <2>4 DEF Arrived
<1> QED BY <1>2, <1>6, <1>7, <1>8, <1>9 DEF Brings

(* A run that is at its end commits, or is cut off.                        *)
LEMMA FaithfulStep ==
    ASSUME PlaneInv, FaithInv, CheckedInv, ItemsInv, [Next]_vars, Finishing, mig' = NoRun
    PROVE  /\ faults' = faults /\ ~overtaken =>
                \A r \in Source(mig.sel, Scripted) : Arrived(r, db')
           /\ mig.sel \subseteq settled => db' = db
<1>1. mig' # mig /\ mig.at = "replay"
  BY DEF Finishing, NoRun
<1>2. \/ FinishMigration
      \/ db' = db /\ faults' # faults
  <2>1. ASSUME MigrationStep PROVE FinishMigration
    <3>1. mig.step \in Nat /\ mig.step = Len(Script) + 1
      BY <1>1 DEF Finishing, PlaneInv, StepInv
    <3>2. ~(mig.step <= Len(Script))
      BY <3>1
    <3>3. ~StartMigration /\ ~LockOwner /\ ~NextStatement /\ ~SetSequence
      BY <1>1, <3>2 DEF StartMigration, LockOwner, NextStatement, SetSequence
    <3>4. \A r \in Upcoming : /\ ~Check(r) /\ ~Insert(r) /\ ~InsertItem(r) /\ ~InsertOnce(r)
                              /\ ~InsertReview(r) /\ ~Parity(r)
      BY <3>2 DEF Check, Insert, InsertItem, InsertOnce, InsertReview, Parity, Turn
    <3> QED BY <2>1, <3>3, <3>4 DEF MigrationStep
  <2>2. ASSUME Crash PROVE db' = db /\ faults' # faults
    <3>1. faults \in Nat
      BY DEF PlaneInv, ErasingInv
    <3>2. faults' = faults + 1 /\ db' = db
      BY <2>2 DEF Crash, Ends, Rollback, tableVars
    <3> QED BY <3>1, <3>2
  <2> QED BY <1>1, <2>1, <2>2 DEF Next, migVars, vars
<1>3. CASE FinishMigration
  <2>1. db' = Visible
    BY <1>3 DEF FinishMigration
  <2>2. mig.sel \subseteq settled => Visible = db
    BY <1>1 DEF FaithInv, Visible
  <2> QED BY <2>1, <2>2, AllArrive
<1> QED BY <1>2, <1>3

(* A migration that finishes has brought every row of its source over, or  *)
(* found it there; run again with nothing written since, it adds nothing.  *)
THEOREM MigrationsFaithful == Spec => MigrationsAreFaithful
<1>1. PlaneInv /\ FaithInv /\ CheckedInv /\ ItemsInv /\ [Next]_vars
         => FaithInv' /\ CheckedInv' /\ ItemsInv'
  BY FaithStep, CheckedStep, ItemsStep
<1> DEFINE faithful ==
       Finishing /\ mig' = NoRun =>
          /\ faults' = faults /\ ~overtaken =>
                \A r \in Source(mig.sel, Scripted) : Arrived(r, db')
          /\ mig.sel \subseteq settled => db' = db
<1>2. PlaneInv /\ FaithInv /\ CheckedInv /\ ItemsInv /\ [Next]_vars => [faithful]_vars
  BY FaithfulStep
<1>3. MigrationsAreFaithful <=> [][faithful]_vars
  BY DEF MigrationsAreFaithful
<1>4. Init => FaithInv /\ CheckedInv /\ ItemsInv
  BY FaithInit, CheckedInit, ItemsInit
<1> HIDE DEF faithful
<1> QED BY <1>1, <1>2, <1>3, <1>4, PlaneHolds, PTL DEF Spec

-----------------------------------------------------------------------------
(* What a step counts and marks, and where the migration is with its       *)
(* owners.                                                                 *)
Ats == {"idle", "approve", "call", "tool", "completed", "failed"}
ControlInv ==
    /\ store = [name |-> kind, tables |-> Kind[kind].tables]
    /\ ops \in 0..MaxOps /\ runs \in 0..MaxRuns /\ faults \in 0..MaxFaults
    /\ overtaken \in BOOLEAN /\ muddled \in BOOLEAN /\ settled \subseteq Owners
    /\ \A t \in Threads : agent[t].at \in Ats
    /\ locks \subseteq Owners /\ mig.sel \subseteq Owners
    /\ mig.at \in {"none", "lock", "replay"} /\ mig.step \in 0..(Len(Script) + 1)
    /\ mig.at = "none" => locks = {}
    /\ mig.at = "lock" => mig.sel \ locks # {}

(* A step that leaves the migration alone keeps this,                      *)
LEMMA ControlKeeps ==
    ASSUME ControlInv, UNCHANGED <<store, mig, runs, locks>>, ops' \in {ops, ops + 1},
           ops' # ops => ops < MaxOps, faults' \in {faults, faults + 1},
           faults' # faults => faults < MaxFaults,
           overtaken' \in BOOLEAN, muddled' = muddled, settled' \in {settled, {}},
           \A t \in Threads : agent'[t].at \in Ats
    PROVE  ControlInv'
<1>1. kind' = kind /\ Script' = Script
  BY DEF kind, Script
<1>2. ops' \in 0..MaxOps
  BY MaxOpsAssumption DEF ControlInv
<1>3. faults' \in 0..MaxFaults
  BY MaxFaultsAssumption DEF ControlInv
<1> QED BY <1>1, <1>2, <1>3 DEF ControlInv

(* a live write does,                                                      *)
LEMMA LiveControl ==
    ASSUME ControlInv, NEW t \in Threads, LiveStep(t), UNCHANGED <<mig, runs, faults, agent>>
    PROVE  ControlInv'
<1>1. ASSUME NEW rows, Committed(t, rows)
      PROVE  /\ UNCHANGED <<store, locks, muddled>> /\ settled' \in {settled, {}}
             /\ overtaken' \in BOOLEAN
  BY <1>1 DEF Committed, ControlInv
<1>2. CASE Begin(t) \/ MergeReads(t)
  <2>1. /\ UNCHANGED <<store, locks, overtaken, settled, muddled>>
        /\ ops' = ops + 1 /\ ops < MaxOps
    BY <1>2 DEF Begin, MergeReads
  <2>2. overtaken' \in BOOLEAN /\ \A u \in Threads : agent'[u].at \in Ats
    BY <2>1 DEF ControlInv
  <2> QED BY <2>1, <2>2, ControlKeeps
<1>3. ASSUME NEW rows, Committed(t, rows), ops' \in {ops, ops + 1}, ops' # ops => ops < MaxOps
      PROVE  ControlInv'
  <2>1. \A u \in Threads : agent'[u].at \in Ats
    BY DEF ControlInv
  <2> QED BY <1>1, <1>3, <2>1, ControlKeeps
<1>4. Write(t) => \E rows : Committed(t, rows) /\ ops' = ops
  BY DEF Write
<1>5. Delete(t) => \E rows : Committed(t, rows) /\ ops' = ops + 1 /\ ops < MaxOps
  BY DEF Delete
<1>6. MergeWrites(t) \/ LocalMergeWrites(t) => \E rows : Committed(t, rows) /\ ops' = ops
  BY DEF MergeWrites, LocalMergeWrites
<1> QED BY <1>2, <1>3, <1>4, <1>5, <1>6 DEF LiveStep

(* a request of the agents does,                                           *)
LEMMA AgentControl ==
    ASSUME ControlInv, ServingInv, NEW t \in Threads, AgentStep(t) \/ Ends(t), UNCHANGED <<mig, runs>>,
           faults' \in {faults, faults + 1}, faults' # faults => faults < MaxFaults
    PROVE  ControlInv'
<1>1. /\ UNCHANGED <<store, locks, overtaken, muddled>> /\ settled' \in {settled, {}}
      /\ ops' \in {ops, ops + 1} /\ (ops' # ops => ops < MaxOps)
  BY DEF AgentStep, Run, Approve, SetRunning, CreateToolCall, InvokeTool, Mark, Refused, Ends, Stored,
         tableVars
<1>2. agent' = agent \/ \E q : agent' = [agent EXCEPT ![t] = q] /\ q.at \in Ats
  <2>1. NoRequest.at \in Ats
    BY DEF NoRequest, Ats
  <2>3. {"call", "approve", "tool", "completed", "failed"} \subseteq Ats
    BY DEF Ats
  <2>4. CASE Mark(t) \/ Ends(t) \/ Refused(t)
    BY <2>1, <2>4, RequestsMove DEF Refused
  <2>5. CASE Run(t)
    <3> DEFINE q == [at |-> "call", run |-> NewId, call |-> 0]
    <3>1. agent' = agent \/ agent' = [agent EXCEPT ![t] = q]
      BY <2>5, RequestsMove
    <3>2. q.at \in Ats
      BY <2>3
    <3> QED BY <3>1, <3>2
  <2>6. CASE Approve(t)
    <3> DEFINE q(r) == [at |-> "approve", run |-> r.id, call |-> 0]
    <3>1. PICK r \in Runs : agent' = [agent EXCEPT ![t] = q(r)]
      BY <2>6, RequestsMove
    <3>2. q(r).at \in Ats
      BY <2>3
    <3> QED BY <3>1, <3>2
  <2>7. CASE SetRunning(t) \/ CreateToolCall(t) \/ InvokeTool(t)
    <3> DEFINE q(at, call) == [at |-> at, run |-> agent[t].run, call |-> call]
    <3>1. PICK at \in {"call", "tool", "completed", "failed"} :
             \E call : agent' = [agent EXCEPT ![t] = q(at, call)]
      BY <2>7, RequestsMove
    <3>2. PICK call : agent' = [agent EXCEPT ![t] = q(at, call)]
      BY <3>1
    <3>3. q(at, call).at \in Ats
      BY <2>3
    <3> QED BY <3>2, <3>3
  <2> QED BY <2>4, <2>5, <2>6, <2>7 DEF AgentStep
<1>3. \A u \in Threads : agent'[u].at \in Ats
  <2>1. CASE agent' = agent
    BY <2>1 DEF ControlInv
  <2>2. ASSUME NEW q, agent' = [agent EXCEPT ![t] = q], q.at \in Ats
        PROVE  \A u \in Threads : agent'[u].at \in Ats
    <3>1. agent'[t] = q /\ \A u \in Threads \ {t} : agent'[u] = agent[u]
      BY <2>2, OneRequest
    <3> QED BY <2>2, <3>1 DEF ControlInv
  <2> QED BY <1>2, <2>1, <2>2
<1>4. overtaken' \in BOOLEAN
  BY <1>1 DEF ControlInv
<1> QED BY <1>1, <1>3, <1>4, ControlKeeps

(* and a migration that rolls back.                                        *)
LEMMA RolledBack ==
    ASSUME ControlInv, Rollback, UNCHANGED agent, faults' \in {faults, faults + 1},
           faults' # faults => faults < MaxFaults
    PROVE  ControlInv'
<1>1. /\ mig' = NoRun /\ locks' = {} /\ UNCHANGED <<store, ops, runs, overtaken, settled, muddled>>
  BY DEF Rollback
<1>2. /\ mig'.at = "none" /\ mig'.sel = {} /\ mig'.step = 0
  BY <1>1 DEF NoRun
<1>3. kind' = kind /\ Script' = Script
  BY <1>1 DEF kind, Script
<1>4. faults' \in 0..MaxFaults
  BY MaxFaultsAssumption DEF ControlInv
<1>5. mig'.step \in 0..(Len(Script') + 1)
  BY <1>2, <1>3 DEF ControlInv
<1>6. kind' = kind /\ store' = [name |-> kind', tables |-> Kind[kind'].tables]
  BY <1>1, <1>3 DEF ControlInv
<1> QED BY <1>1, <1>2, <1>4, <1>5, <1>6 DEF ControlInv

(* A script has a length.                                                  *)
LEMMA ScriptLength == ASSUME RowsInv PROVE Len(Script) \in Nat
BY CitedKinds DEF RowsInv, Script

(* A migration takes its owners' locks, then its statements, one by one.   *)
LEMMA MigrationMoves ==
    ASSUME ControlInv, UNCHANGED <<store, faults, ops, agent>>, runs' \in 0..MaxRuns,
           overtaken' \in BOOLEAN, muddled' \in BOOLEAN, settled' \subseteq Owners,
           locks' \subseteq Owners, mig'.sel \subseteq Owners,
           mig'.at \in {"none", "lock", "replay"}, mig'.step \in 0..(Len(Script) + 1),
           mig'.at = "none" => locks' = {}, mig'.at = "lock" => mig'.sel \ locks' # {}
    PROVE  ControlInv'
<1>1. kind' = kind /\ Script' = Script
  BY DEF kind, Script
<1> QED BY <1>1 DEF ControlInv

(* The next statement is for the same owners.                              *)
LEMMA AtIs ==
    ASSUME FenceInv, NEW n
    PROVE  At(n).at = "replay" /\ At(n).sel = mig.sel /\ At(n).step = n /\ At(n).known = mig.known
BY DEF At, FenceInv, IsMigration

(* So the migration keeps it,                                              *)
LEMMA MigrationControl ==
    ASSUME ControlInv, FenceInv, RowsInv, StepInv, MigrationStep, UNCHANGED <<faults, agent>>
    PROVE  ControlInv'
<1>1. Len(Script) \in Nat
  BY ScriptLength
<1>2. /\ locks \subseteq Owners /\ mig.sel \subseteq Owners /\ mig.at \in {"none", "lock", "replay"}
      /\ mig.step \in 0..(Len(Script) + 1) /\ settled \subseteq Owners
      /\ overtaken \in BOOLEAN /\ muddled \in BOOLEAN /\ runs \in 0..MaxRuns
      /\ (mig.at = "none" => locks = {})
  BY DEF ControlInv
<1>3. CASE StartMigration
  <2>1. PICK sel \in {{Leaver}, Owners} : mig' = [NoRun EXCEPT !.at = "lock", !.sel = sel]
    BY <1>3 DEF StartMigration
  <2>2. mig'.at = "lock" /\ mig'.sel = sel /\ mig'.step = 0
    BY <2>1 DEF NoRun
  <2>3. sel \subseteq Owners /\ sel # {}
    BY DEF Owners
  <2>4. /\ mig.at = "none" /\ runs < MaxRuns /\ runs' = runs + 1 /\ overtaken' = FALSE
        /\ UNCHANGED <<store, ops, locks, settled, muddled>>
    BY <1>3 DEF StartMigration
  <2>5. runs' \in 0..MaxRuns
    BY <1>2, <2>4, MaxRunsAssumption
  <2>6. locks' = {}
    BY <1>2, <2>4
  <2>7. mig'.step \in 0..(Len(Script) + 1)
    BY <1>1, <2>2
  <2> QED BY <1>2, <2>2, <2>3, <2>4, <2>5, <2>6, <2>7, MigrationMoves
<1>4. CASE LockOwner /\ ~Rollback
  <2> DEFINE left == mig.sel \ locks
             next == CHOOSE o \in left : \A p \in left : o <= p
  <2>1. left # {} /\ mig.at = "lock"
    BY <1>4 DEF LockOwner, ControlInv
  <2>2. \E o \in left : \A p \in left : o <= p
    <3>1. left \subseteq {1, Leaver}
      BY <1>2 DEF Owners
    <3>a. left # {}
      BY <2>1
    <3> HIDE DEF left
    <3>2. CASE 1 \in left
      <4>1. \A p \in left : 1 <= p
        BY <3>1, LeaverAssumption
      <4> QED BY <3>2, <4>1
    <3>3. CASE 1 \notin left
      <4>1. left = {Leaver}
        BY <3>1, <3>3, <3>a
      <4> QED BY <4>1, LeaverAssumption
    <3> QED BY <3>2, <3>3
  <2>3. next \in left
    <3> HIDE DEF left
    <3> QED BY <2>2
  <2>4. /\ locks' = locks \cup {next}
        /\ mig' = IF left = {next} THEN At(1) ELSE mig
        /\ UNCHANGED <<store, overtaken, settled, muddled, ops, runs>>
    BY <1>4 DEF LockOwner
  <2> HIDE DEF next
  <2>5. locks' \subseteq Owners
    BY <1>2, <2>3, <2>4
  <2>6. CASE left = {next}
    <3>1. mig'.at = "replay" /\ mig'.sel = mig.sel /\ mig'.step = 1
      BY <2>4, <2>6, AtIs
    <3>2. mig'.step \in 0..(Len(Script) + 1)
      BY <1>1, <3>1
    <3> QED BY <1>2, <2>4, <2>5, <3>1, <3>2, MigrationMoves
  <2>7. CASE left # {next}
    <3>1. mig' = mig
      BY <2>4, <2>7
    <3>2. mig.sel \ locks' # {}
      <4>1. PICK o \in left : o # next
        BY <2>3, <2>7
      <4> QED BY <2>4, <4>1
    <3> QED BY <1>2, <2>1, <2>4, <2>5, <3>1, <3>2, MigrationMoves
  <2> QED BY <2>6, <2>7
<1>5. CASE NextStatement \/ SetSequence
  <2>1. /\ mig.at = "replay" /\ mig.step <= Len(Script) /\ mig' = At(mig.step + 1)
        /\ UNCHANGED <<store, ops, runs, locks, overtaken, settled>>
    BY <1>5 DEF NextStatement, SetSequence, tableVars
  <2>2. muddled' \in BOOLEAN
    BY <1>2, <1>5 DEF NextStatement, SetSequence, tableVars
  <2>3. mig'.at = "replay" /\ mig'.sel = mig.sel /\ mig'.step = mig.step + 1
    BY <2>1, AtIs
  <2>4. mig'.step \in 0..(Len(Script) + 1)
    BY <1>1, <1>2, <2>1, <2>3
  <2> QED BY <1>2, <2>1, <2>2, <2>3, <2>4, MigrationMoves
<1>6. CASE FinishMigration
  <2>1. /\ mig' = NoRun /\ locks' = {} /\ UNCHANGED <<store, overtaken, ops, runs>>
        /\ settled' = IF overtaken THEN {} ELSE settled \cup mig.sel
    BY <1>6 DEF FinishMigration
  <2>2. muddled' \in BOOLEAN
    BY <1>2, <1>6 DEF FinishMigration
  <2>3. mig'.at = "none" /\ mig'.sel = {} /\ mig'.step = 0
    BY <2>1 DEF NoRun
  <2>4. mig'.step \in 0..(Len(Script) + 1) /\ settled' \subseteq Owners
    BY <1>1, <1>2, <2>1, <2>3
  <2> QED BY <1>2, <2>1, <2>2, <2>3, <2>4, MigrationMoves
<1>7. ASSUME NEW r, NEW rows, NEW known, Replayed(r, rows, known) PROVE ControlInv'
  <2>1. /\ mig' = [mig EXCEPT !.left = @ \ {r}, !.known = @ \cup known]
        /\ UNCHANGED <<store, locks, overtaken, settled, muddled, ops, runs>>
    BY <1>7 DEF Replayed
  <2>2. mig'.at = mig.at /\ mig'.sel = mig.sel /\ mig'.step = mig.step
    BY <2>1 DEF FenceInv, IsMigration
  <2>3. mig.at = "lock" => mig.sel \ locks # {}
    BY DEF ControlInv
  <2> QED BY <1>2, <2>1, <2>2, <2>3, MigrationMoves
<1>8. CASE Rollback
  BY <1>8, RolledBack
<1>9. ASSUME NEW r, \/ Check(r) \/ Insert(r) \/ InsertItem(r) \/ InsertOnce(r)
                    \/ InsertReview(r) \/ Parity(r)
      PROVE  Rollback \/ \E rows, known : Replayed(r, rows, known)
  <2>1. CASE Check(r) \/ Parity(r)
    BY <2>1 DEF Check, Parity
  <2>2. CASE Insert(r)
    BY <2>2 DEF Insert
  <2>3. CASE InsertItem(r)
    BY <2>3 DEF InsertItem
  <2>4. CASE InsertOnce(r)
    BY <2>4 DEF InsertOnce
  <2>5. CASE InsertReview(r)
    BY <2>5 DEF InsertReview
  <2> QED BY <1>9, <2>1, <2>2, <2>3, <2>4, <2>5
<1> QED BY <1>3, <1>4, <1>5, <1>6, <1>7, <1>8, <1>9 DEF MigrationStep

(* and the erasure,                                                        *)
LEMMA ErasureControl ==
    ASSUME ControlInv, ErasureStep, UNCHANGED <<mig, runs, agent>>, faults \in Nat
    PROVE  ControlInv'
<1>1. /\ UNCHANGED <<store, locks, overtaken, muddled, ops>> /\ settled' \in {settled, {}}
      /\ faults' \in {faults, faults + 1} /\ (faults' # faults => faults < MaxFaults)
  BY DEF ErasureStep, Fence, EraseStore, EraseMemories, Finish, Raises, Erased, tableVars
<1>2. overtaken' \in BOOLEAN /\ \A t \in Threads : agent'[t].at \in Ats
  BY <1>1 DEF ControlInv
<1> QED BY <1>1, <1>2, ControlKeeps

(* so every step does.                                                     *)
LEMMA ControlStep == ASSUME PlaneInv, ControlInv, [Next]_vars PROVE ControlInv'
<1>1. ASSUME NEW t \in Threads, LiveStep(t), UNCHANGED <<migVars, erasureVars, agentVars>>
      PROVE  ControlInv'
  BY <1>1, LiveControl DEF migVars, erasureVars, agentVars
<1>2. ASSUME NEW t \in Threads, AgentStep(t), UNCHANGED <<migVars, erasureVars>>
      PROVE  ControlInv'
  BY <1>2, AgentControl DEF migVars, erasureVars, PlaneInv
<1>3. CASE MigrationStep /\ UNCHANGED <<erasureVars, agentVars>>
  BY <1>3, MigrationControl DEF erasureVars, agentVars, PlaneInv
<1>4. CASE ErasureStep /\ UNCHANGED <<migVars, agentVars>>
  BY <1>4, ErasureControl DEF migVars, agentVars, PlaneInv, ErasingInv
<1>5. CASE Crash
  <2>1. faults' = faults + 1 /\ faults < MaxFaults
    BY <1>5 DEF Crash
  <2>2. \/ Rollback /\ UNCHANGED agent
        \/ \E t \in Threads : Ends(t) /\ UNCHANGED migVars
        \/ UNCHANGED <<store, locks, overtaken, settled, muddled, ops, migVars, agentVars>>
    BY <1>5 DEF Crash, agentVars
  <2>3. CASE UNCHANGED <<store, locks, overtaken, settled, muddled, ops, migVars, agentVars>>
    <3>1. overtaken' \in BOOLEAN /\ \A t \in Threads : agent'[t].at \in Ats
      BY <2>3 DEF ControlInv, agentVars
    <3> QED BY <2>1, <2>3, <3>1, ControlKeeps DEF migVars
  <2>4. ASSUME NEW t \in Threads, Ends(t), UNCHANGED migVars PROVE ControlInv'
    BY <2>1, <2>4, AgentControl DEF PlaneInv, migVars
  <2> QED BY <2>1, <2>2, <2>3, <2>4, RolledBack
<1>6. CASE UNCHANGED vars
  <2>1. /\ UNCHANGED <<store, mig, runs, locks, ops, faults, overtaken, muddled, settled, agent>>
    BY <1>6 DEF vars, tableVars, migVars, erasureVars, agentVars
  <2>2. overtaken' \in BOOLEAN /\ \A t \in Threads : agent'[t].at \in Ats
    BY <2>1 DEF ControlInv
  <2> QED BY <2>1, <2>2, ControlKeeps
<1> QED BY <1>1, <1>2, <1>3, <1>4, <1>5, <1>6 DEF Next

(* It holds at first.                                                      *)
LEMMA ControlInit == Init => ControlInv
<1> SUFFICES ASSUME Init PROVE ControlInv
  OBVIOUS
<1>1. \E k \in DOMAIN Kind : \E rows : TablesInit(k, rows)
  BY DEF Init
<1>2. /\ kind \in DOMAIN Kind /\ store = [name |-> kind, tables |-> Kind[kind].tables]
      /\ locks = {} /\ overtaken = FALSE /\ settled = {} /\ muddled = FALSE /\ ops = 0
  BY <1>1 DEF TablesInit, kind
<1>3. mig = NoRun /\ runs = 0 /\ faults = 0 /\ agent = [t \in Threads |-> NoRequest]
  BY DEF Init, MigrationInit, ErasureInit, AgentInit
<1>4. mig.at = "none" /\ mig.sel = {} /\ mig.step = 0 /\ NoRequest.at \in Ats
  BY <1>3 DEF NoRun, NoRequest, Ats
<1>5. Len(Script) \in Nat
  BY <1>2, CitedKinds DEF Script
<1>6. ops \in 0..MaxOps /\ runs \in 0..MaxRuns /\ faults \in 0..MaxFaults
  BY <1>2, <1>3, MaxOpsAssumption, MaxRunsAssumption, MaxFaultsAssumption
<1>7. \A t \in Threads : agent[t].at \in Ats
  BY <1>3, <1>4
<1>8. mig.step \in 0..(Len(Script) + 1)
  BY <1>4, <1>5
<1> QED BY <1>2, <1>4, <1>6, <1>7, <1>8 DEF ControlInv

-----------------------------------------------------------------------------
(* an open transaction is otherwise the same until it ends.                *)
LEMMA TxMoves ==
    ASSUME PlaneInv, [Next]_vars, NEW u \in Threads
    PROVE  Goes(u) \/ Begin(u) \/ MergeReads(u)
<1>1. RowsInv /\ DOMAIN tx = Threads
  BY DEF PlaneInv, RowsInv, TxsFit
<1>2. tx' = tx => Goes(u)
  BY DEF Goes, SameTx, Open
<1>3. ASSUME NEW t \in Threads, NEW rows, Committed(t, rows) PROVE Goes(u)
  BY <1>1, <1>3, CommittedGoes
<1>4. ASSUME NEW t \in Threads, LiveStep(t) PROVE Goes(u) \/ Begin(u) \/ MergeReads(u)
  <2>1. CASE Begin(t) \/ MergeReads(t)
    <3>1. u # t => tx'[u] = tx[u]
      BY <1>1, <2>1, BegunIs, MergingIs
    <3> QED BY <2>1, <3>1 DEF Goes, SameTx, Open
  <2>2. Write(t) \/ Delete(t) => \E rows : Committed(t, rows)
    BY DEF Write, Delete
  <2>3. MergeWrites(t) \/ LocalMergeWrites(t) => \E rows : Committed(t, rows)
    BY DEF MergeWrites, LocalMergeWrites
  <2> QED BY <1>3, <1>4, <2>1, <2>2, <2>3 DEF LiveStep
<1>5. ASSUME NEW t \in Threads, AgentStep(t) \/ Ends(t) PROVE tx' = tx
  BY <1>5 DEF AgentStep, Run, Approve, SetRunning, CreateToolCall, InvokeTool, Mark, Refused, Ends,
              Stored, tableVars
<1>6. CASE MigrationStep
  <2>1. CASE FinishMigration
    <3>1. tx'[u] = IF Open(u) THEN [tx[u] EXCEPT !.crossed = @ \/ pend # {}] ELSE Idle
      BY <2>1 DEF FinishMigration
    <3>2. Open(u) => tx'[u] = [tx[u] EXCEPT !.crossed = tx[u].crossed \/ pend # {}]
      BY <3>1
    <3> QED BY <1>1, <3>1, <3>2, CrossedIsSame DEF Goes
  <2>2. ~FinishMigration => tx' = tx
    BY <1>6 DEF MigrationStep, StartMigration, LockOwner, NextStatement, SetSequence, Rollback,
                Check, Insert, InsertItem, InsertOnce, InsertReview, Parity, Replayed, tableVars
  <2> QED BY <1>2, <2>1, <2>2
<1>7. CASE ErasureStep
  <2>1. tx' = tx
    BY <1>7 DEF ErasureStep, Fence, EraseStore, EraseMemories, Finish, Raises, Erased, tableVars
  <2> QED BY <1>2, <2>1
<1>8. CASE Crash
  <2>1. tx' = tx \/ \E t \in Threads : Open(t) /\ tx' = [tx EXCEPT ![t] = Idle]
    BY <1>8 DEF Crash, Ends, Rollback, tableVars
  <2>2. ASSUME NEW t \in Threads, tx' = [tx EXCEPT ![t] = Idle] PROVE Goes(u)
    <3>1. tx'[u] = Idle \/ tx'[u] = tx[u]
      BY <1>1, <2>2
    <3> QED BY <3>1 DEF Goes, SameTx, Open
  <2> QED BY <1>2, <2>1, <2>2
<1>9. CASE UNCHANGED vars
  BY <1>2, <1>9 DEF vars, tableVars
<1> QED BY <1>2, <1>4, <1>5, <1>6, <1>7, <1>8, <1>9 DEF Next

(* Rows come by what a write or a merge commits, by the agents, and by the *)
(* migration; every other step at most removes some.                       *)
Writes(t) == Write(t) \/ MergeWrites(t) \/ LocalMergeWrites(t)
Copies(r) == Insert(r) \/ InsertItem(r) \/ InsertOnce(r) \/ InsertReview(r)
LEMMA RowsCome ==
    ASSUME PlaneInv, [Next]_vars
    PROVE  \/ db' \subseteq db /\ pend' \subseteq pend
           \/ \E t \in Threads : Writes(t) /\ pend' = pend /\ UNCHANGED migVars
           \/ \E t \in Threads : AgentStep(t) /\ Agents /\ pend' = pend /\ UNCHANGED migVars
           \/ FinishMigration
           \/ \E r \in mig.left : Copies(r)
<1>1. ASSUME NEW t \in Threads, LiveStep(t), UNCHANGED migVars
      PROVE  (db' \subseteq db \/ Writes(t)) /\ pend' = pend
  <2>1. pend' = pend
    BY <1>1 DEF LiveStep, Begin, Write, Delete, MergeReads, MergeWrites, LocalMergeWrites, Committed
  <2>2. Begin(t) \/ MergeReads(t) => db' = db
    BY DEF Begin, MergeReads
  <2>3. Delete(t) => db' \subseteq db
    BY DEF Delete, Committed
  <2> QED BY <1>1, <2>1, <2>2, <2>3 DEF LiveStep, Writes
<1>2. ASSUME NEW t \in Threads, AgentStep(t) PROVE Agents /\ pend' = pend
  <2>1. Agents
    BY <1>2, NoRequestsForEvents DEF PlaneInv
  <2> QED BY <1>2, <2>1 DEF AgentStep, Run, Approve, SetRunning, CreateToolCall, InvokeTool, Mark,
               Refused, Ends, Stored, tableVars
<1>3. CASE MigrationStep
  <2>1. CASE StartMigration \/ LockOwner \/ NextStatement \/ SetSequence
    <3>1. db' = db /\ (pend' = pend \/ pend' = {})
      BY <2>1 DEF StartMigration, LockOwner, NextStatement, SetSequence, Rollback, tableVars
    <3> QED BY <3>1
  <2>2. ASSUME NEW r, Check(r) \/ Parity(r) PROVE db' = db /\ pend' \subseteq pend
    BY <2>2 DEF Check, Parity, Replayed, Rollback
  <2>3. Upcoming \subseteq mig.left
    BY DEF Upcoming
  <2> QED BY <1>3, <2>1, <2>2, <2>3 DEF MigrationStep, Copies
<1>4. CASE ErasureStep
  <2>1. db' \subseteq db /\ pend' = pend
    BY <1>4, NeighboursStay DEF PlaneInv
  <2> QED BY <2>1
<1>5. CASE Crash
  BY <1>5 DEF Crash, Ends, Rollback, tableVars
<1>6. CASE UNCHANGED vars
  BY <1>6 DEF vars, tableVars
<1>7. ASSUME NEW t \in Threads, AgentStep(t), UNCHANGED migVars
      PROVE  AgentStep(t) /\ Agents /\ pend' = pend /\ UNCHANGED migVars
  BY <1>2, <1>7
<1>8. CASE \E t \in Threads : LiveStep(t) /\ UNCHANGED <<migVars, erasureVars, agentVars>>
  <2>1. PICK t \in Threads : LiveStep(t) /\ UNCHANGED <<migVars, erasureVars, agentVars>>
    BY <1>8
  <2>2. UNCHANGED migVars
    BY <2>1
  <2> QED BY <1>1, <2>1, <2>2
<1>9. CASE \E t \in Threads : AgentStep(t) /\ UNCHANGED <<migVars, erasureVars>>
  <2>1. PICK t \in Threads : AgentStep(t) /\ UNCHANGED <<migVars, erasureVars>>
    BY <1>9
  <2>2. UNCHANGED migVars
    BY <2>1
  <2> QED BY <1>7, <2>1, <2>2
<1>10. \/ \E t \in Threads : LiveStep(t) /\ UNCHANGED <<migVars, erasureVars, agentVars>>
       \/ \E t \in Threads : AgentStep(t) /\ UNCHANGED <<migVars, erasureVars>>
       \/ MigrationStep \/ ErasureStep \/ Crash \/ UNCHANGED vars
  BY DEF Next
<1> QED
  <2> HIDE DEF Next
  <2> QED BY <1>3, <1>4, <1>5, <1>6, <1>8, <1>9, <1>10, Zenon

(* A migration replays the rows of the old file, and for stages a claim    *)
(* and a copy with an id of its own:                                       *)
Stage(r) == [r EXCEPT !.id = StageId(r.owner)]
LEMMA CopiesAre ==
    ASSUME FenceInv, NEW r \in mig.left, Copies(r)
    PROVE  /\ UNCHANGED <<store, db, tx, seq, runs, ops>>
           /\ \/ pend' \subseteq pend
              \/ pend' = pend \cup {r}
              \/ InsertOnce(r) /\ Claim(r) \notin db /\ pend' = pend \cup {Claim(r), Stage(r)}
           /\ ~InsertOnce(r) /\ ~InsertItem(r) /\ r \notin pend /\ ~pend' \subseteq pend => InTheWay(r, Visible) = {}
<1>1. CASE Insert(r)
  <2>1. \/ Replayed(r, {}, {}) \/ Rollback
        \/ Replayed(r, {r}, {}) /\ InTheWay(r, Visible) = {}
    BY <1>1 DEF Insert
  <2> QED BY <1>1, <2>1 DEF Replayed, Rollback
<1>2. CASE InsertItem(r)
  BY <1>2 DEF InsertItem, Replayed
<1>3. CASE InsertOnce(r)
  BY <1>3 DEF InsertOnce, Replayed, Stage
<1>4. CASE InsertReview(r)
  <2>1. \/ Replayed(r, {}, {}) \/ Rollback
        \/ Replayed(r, {r}, {}) /\ InTheWay(r, Visible) = {}
    BY <1>4 DEF InsertReview
  <2> QED BY <1>4, <2>1 DEF Replayed, Rollback
<1> QED BY <1>1, <1>2, <1>3, <1>4 DEF Copies

(* This id is a number,                                                    *)
LEMMA StageIdIs ==
    ASSUME RowsInv, NEW o \in Owners
    PROVE  StageId(o) \in Nat
BY LeaverAssumption, MaxOpsAssumption DEF StageId, RowsInv

(* and the copy is the same row otherwise;                                 *)
LEMMA StageIs ==
    ASSUME NEW r, IsRow(r)
    PROVE  /\ IsRow(Stage(r)) /\ Stage(r).tab = r.tab /\ Stage(r).owner = r.owner
           /\ Stage(r).id = StageId(r.owner) /\ Stage(r).key = r.key /\ Stage(r).ref = r.ref
           /\ Stage(r).body = r.body
           /\ IsRow(Claim(r)) /\ Claim(r).tab = Ledger /\ Claim(r).owner = r.owner /\ Claim(r).id = 1
           /\ Claim(r).key = r.key /\ Claim(r).ref = r.ref /\ Claim(r).body = "claimed"
<1>1. /\ IsRow(Claim(r)) /\ Claim(r).tab = Ledger /\ Claim(r).owner = r.owner /\ Claim(r).id = 1
      /\ Claim(r).key = r.key /\ Claim(r).ref = r.ref /\ Claim(r).body = "claimed"
  BY DEF Claim, IsRow, Ledger
<1> DEFINE i == StageId(r.owner)
<1>2. Stage(r) = [r EXCEPT !.id = i]
  BY DEF Stage
<1> HIDE DEF i
<1>3. /\ IsRow(Stage(r)) /\ Stage(r).tab = r.tab /\ Stage(r).owner = r.owner
      /\ Stage(r).id = i /\ Stage(r).key = r.key /\ Stage(r).ref = r.ref
      /\ Stage(r).body = r.body
  BY <1>2 DEF IsRow
<1> QED BY <1>1, <1>3 DEF i

(* the rows it brings have their types,                                    *)
LEMMA CopyTyped ==
    ASSUME FenceInv, RowsInv, TypedInv, NEW r \in mig.left, Copies(r)
    PROVE  \A q \in db' \cup pend' : Typed(q)
<1>1. IsRow(r) /\ Typed(r) /\ r.owner \in Owners
  <2>1. r \in OldRows(kind) /\ kind \in DOMAIN Kind
    BY DEF RowsInv
  <2> QED BY <2>1, OldRowsLook, OldTyped DEF LooksOld
<1>2. Typed(Claim(r)) /\ Typed(Stage(r))
  BY <1>1, StageIs, StageIdIs DEF Typed, Bodies
<1>3. \A q \in db \cup pend : Typed(q)
  BY DEF TypedInv
<1> QED BY <1>1, <1>2, <1>3, CopiesAre

(* and so have those of the agents.                                        *)
LEMMA AgentRowIs ==
    ASSUME NEW tab, NEW id, NEW ref, NEW status
    PROVE  LET r == AgentRow(tab, id, ref, status)
           IN  /\ IsRow(r) /\ r.tab = tab /\ r.owner = Leaver /\ r.id = id /\ r.key = 1
               /\ r.ref = ref /\ r.body = status
BY DEF AgentRow, IsRow

AgentDoes(t) ==
    \/ db' = db
    \/ \E status \in Bodies : db' = db \cup {AgentRow("agent_runs", NewId, {}, status)}
    \/ /\ agent[t].at = "call"
       /\ db' = db \cup {AgentRow("agent_tool_calls", 200 + Cardinality(Calls), {agent[t].run}, "running")}
    \/ \E rows \in SUBSET db, status \in Bodies : db' = (db \ rows) \cup WithStatus(rows, status)
(* A request adds a run or a call, or sets their status,                   *)
LEMMA AgentStepIs == ASSUME NEW t \in Threads, AgentStep(t) PROVE AgentDoes(t)
<1>1. CASE Run(t)
  BY <1>1 DEF Run, Stored, AgentDoes, Bodies
<1>2. CASE SetRunning(t)
  <2>1. {r \in Runs : r.id = agent[t].run} \in SUBSET db
    BY DEF Runs
  <2>2. db' = (db \ {r \in Runs : r.id = agent[t].run})
                \cup WithStatus({r \in Runs : r.id = agent[t].run}, "running")
    BY <1>2 DEF SetRunning, Stored
  <2> QED BY <2>1, <2>2 DEF AgentDoes, Bodies
<1>3. CASE CreateToolCall(t)
  BY <1>3 DEF CreateToolCall, Stored, AgentDoes
<1>4. CASE Mark(t)
  <2>1. Marked(t) \in SUBSET db
    BY DEF Marked, Runs, Calls
  <2>2. db' = (db \ Marked(t)) \cup WithStatus(Marked(t), agent[t].at)
    BY <1>4 DEF Mark, Stored
  <2>3. agent[t].at \in Bodies
    BY <1>4 DEF Mark, Bodies
  <2> QED BY <2>1, <2>2, <2>3 DEF AgentDoes
<1>5. CASE Approve(t) \/ InvokeTool(t) \/ Refused(t)
  BY <1>5 DEF Approve, InvokeTool, Refused, Ends, tableVars, AgentDoes
<1> QED BY <1>1, <1>2, <1>3, <1>4, <1>5 DEF AgentStep

(* to one that rows have.                                                  *)
LEMMA AgentTyped ==
    ASSUME PlaneInv, AgentsInv, TypedInv, Agents, NEW t \in Threads, AgentStep(t)
    PROVE  \A r \in db' : Typed(r)
<1>1. \A r \in db : Typed(r) /\ IsRow(r)
  BY DbRows DEF TypedInv, PlaneInv
<1>2. CASE \E status \in Bodies : db' = db \cup {AgentRow("agent_runs", NewId, {}, status)}
  <2>1. PICK status \in Bodies : db' = db \cup {AgentRow("agent_runs", NewId, {}, status)}
    BY <1>2
  <2>2. NewId \in Nat
    BY DEF AgentsInv
  <2>3. Typed(AgentRow("agent_runs", NewId, {}, status))
    BY <2>2, AgentRowIs DEF Typed
  <2> QED BY <1>1, <2>1, <2>3
<1>3. CASE /\ agent[t].at = "call"
           /\ db' = db \cup {AgentRow("agent_tool_calls", 200 + Cardinality(Calls), {agent[t].run}, "running")}
  <2>1. RequestsOk(Runs, Calls, agent, doubled, NewId, fenced) /\ IsFiniteSet(Calls)
    BY DEF AgentsInv, AgentsOk, CallsOk
  <2>2. agent[t].run \in Nat
    BY <1>3, <2>1 DEF RequestsOk, Serving
  <2>3. 200 + Cardinality(Calls) \in Nat
    BY <2>1, FS_CardinalityType
  <2>4. Typed(AgentRow("agent_tool_calls", 200 + Cardinality(Calls), {agent[t].run}, "running"))
    BY <2>2, <2>3, AgentRowIs DEF Typed, Bodies
  <2> QED BY <1>1, <1>3, <2>4
<1>4. CASE \E rows \in SUBSET db, status \in Bodies : db' = (db \ rows) \cup WithStatus(rows, status)
  <2>1. PICK rows \in SUBSET db, status \in Bodies : db' = (db \ rows) \cup WithStatus(rows, status)
    BY <1>4
  <2>2. \A q \in (db \ rows) \cup {[r EXCEPT !.body = status] : r \in rows} : Typed(q)
    BY <1>1, CopiesTyped
  <2> QED BY <2>1, <2>2 DEF WithStatus
<1> QED BY <1>1, <1>2, <1>3, <1>4, AgentStepIs DEF AgentDoes

(* The ids of the events stay bounded,                                     *)
LEMMA EventRowsUpTo ==
    ASSUME PlaneInv, TypedInv, kind = "events", [Next]_vars, NEW b \in Nat, EventsUpTo(b)
    PROVE  \E c \in Nat : \A r \in db' \cup pend' : r.id \in Nat /\ r.id <= c
<1>1. RowsInv /\ FenceInv /\ \A r \in db \cup pend : r.id \in Nat /\ r.id <= b
  BY DEF PlaneInv, TypedInv, Typed, EventsUpTo
<1>2. CASE db' \subseteq db /\ pend' \subseteq pend
  BY <1>1, <1>2
<1>3. CASE \E t \in Threads : Writes(t) /\ pend' = pend
  <2>1. PICK t \in Threads : Writes(t) /\ pend' = pend
    BY <1>3
  <2>2. Write(t)
    <3>1. ~Write(t) => Open(t) /\ Merges(tx[t].write)
      BY <1>1, <2>1, MergeIs, LocalMergeIs DEF Writes
    <3> QED BY <1>1, <3>1, OpenFits, EventWriteIs DEF TxFits
  <2>3. PICK n : n.id = tx[t].id /\ (Committed(t, db \cup {n}) \/ Committed(t, db))
    BY <1>1, <2>2, EventStored
  <2>4. Open(t) /\ ~Merges(tx[t].write)
    BY <1>1, <2>2, WriteIs
  <2>5. tx[t].id \in Nat /\ tx[t].id <= b
    BY <2>4 DEF TypedInv, TypedTx, Open, EventsUpTo
  <2> QED BY <1>1, <2>1, <2>3, <2>5 DEF Committed
<1>4. CASE FinishMigration
  BY <1>1, <1>4 DEF FinishMigration, Visible
<1>5. CASE \E r \in mig.left : Copies(r)
  <2>1. PICK r \in mig.left : Copies(r)
    BY <1>5
  <2>2. r.id \in Nat /\ IsRow(r) /\ r.owner \in Owners
    <3>1. r \in OldRows(kind) /\ kind \in DOMAIN Kind
      BY <1>1 DEF RowsInv
    <3> QED BY <3>1, OldRowsLook, OldTyped DEF LooksOld, Typed
  <2>3. Stage(r).id \in Nat /\ Claim(r).id = 1
    BY <1>1, <2>2, StageIs, StageIdIs
  <2> DEFINE c == b + r.id + Stage(r).id + 1
  <2>4. c \in Nat /\ b <= c /\ r.id <= c /\ Stage(r).id <= c /\ 1 <= c
    BY <2>2, <2>3
  <2> HIDE DEF c
  <2>5. \A q \in db \cup pend : q.id \in Nat /\ q.id <= c
    BY <1>1, <2>4
  <2>6. \A q \in db' \cup pend' : q.id \in Nat /\ q.id <= c
    BY <2>2, <1>1, <2>1, <2>3, <2>4, <2>5, CopiesAre
  <2> QED BY <2>4, <2>6
<1>6. ~Agents
  BY DEF Agents
<1> QED BY <1>1, <1>2, <1>3, <1>4, <1>5, <1>6, RowsCome

(* those of the events to be recorded as well,                             *)
LEMMA EventTxUpTo ==
    ASSUME PlaneInv, TypedInv, kind = "events", [Next]_vars, NEW b \in Nat, EventsUpTo(b)
    PROVE  \E c \in Nat : \A t \in Threads : tx'[t] # Idle => tx'[t].id \in Nat /\ tx'[t].id <= c
<1>1. RowsInv /\ seq \in Nat
  BY DEF PlaneInv, TypedInv
<1>2. b + seq \in Nat /\ b <= b + seq /\ seq <= b + seq
  BY <1>1
<1>3. ASSUME NEW t \in Threads, tx'[t] # Idle PROVE tx'[t].id \in Nat /\ tx'[t].id <= b + seq
  <2>1. CASE Open(t) /\ SameTx(tx[t], tx'[t])
    <3>1. tx'[t].id = tx[t].id /\ tx[t].id <= b
      BY <2>1 DEF SameTx, EventsUpTo
    <3>2. tx[t].id \in Nat
      <4>1. ~Merges(tx[t].write)
        BY <1>1, <2>1, OpenFits, EventWriteIs DEF TxFits
      <4> QED BY <2>1, <4>1 DEF TypedInv, TypedTx, Open
    <3> QED BY <1>1, <1>2, <3>1, <3>2
  <2>2. CASE Begin(t)
    <3>1. tx'[t].id = seq
      BY <1>1, <2>2, BegunIs
    <3> QED BY <1>1, <1>2, <3>1
  <2>3. ~MergeReads(t)
    BY EventWriteIs DEF MergeReads
  <2> QED BY <1>3, <2>1, <2>2, <2>3, TxMoves DEF Goes
<1> QED BY <1>2, <1>3

(* all by one number.                                                      *)
LEMMA EventsBounded ==
    ASSUME PlaneInv, TypedInv, kind = "events", [Next]_vars
    PROVE  \E b \in Nat : EventsUpTo(b)'
<1>1. PICK b \in Nat : EventsUpTo(b)
  BY DEF TypedInv
<1>2. PICK c \in Nat : \A r \in db' \cup pend' : r.id \in Nat /\ r.id <= c
  BY <1>1, EventRowsUpTo
<1>3. PICK d \in Nat : \A t \in Threads : tx'[t] # Idle => tx'[t].id \in Nat /\ tx'[t].id <= d
  BY <1>1, EventTxUpTo
<1>4. c + d \in Nat /\ (\A i \in Nat : (i <= c => i <= c + d) /\ (i <= d => i <= c + d))
  OBVIOUS
<1>5. /\ \A r \in db' \cup pend' : r.id <= c + d
      /\ \A t \in Threads : tx'[t] # Idle => tx'[t].id <= c + d
  BY <1>2, <1>3, <1>4
<1>6. EventsUpTo(c + d)'
  BY <1>5 DEF EventsUpTo, Open
<1> QED BY <1>4, <1>6

(* Only the events have a sequence that their script moves,                *)
LEMMA SequenceOfEvents ==
    ASSUME NEW k \in DOMAIN Kind, NEW n \in 1..Len(Kind[k].script), Kind[k].script[n][1] = "setval"
    PROVE  k = "events"
<1> DEFINE Quiet(s) == \A i \in 1..Len(s) : s[i][1] # "setval"
<1>1. /\ Quiet(BookmarkScript) /\ Quiet(CaptureScript) /\ Quiet(CapsuleScript)
      /\ Quiet(CreatorScript) /\ Quiet(EdgeScript) /\ Quiet(FtsScript) /\ Quiet(MetricScript)
      /\ Quiet(AnswerScript) /\ Quiet(<<>>)
  BY DEF BookmarkScript, CaptureScript, CapsuleScript, CreatorScript, EdgeScript, FtsScript,
         MetricScript, AnswerScript, Skip
<1>2. Quiet(UrlScript) /\ Quiet(ImportScript) /\ Quiet(ArtifactScript) /\ Quiet(ReviewScript)
  BY DEF UrlScript, ImportScript, ArtifactScript, ReviewScript, Skip
<1>3. Quiet(TopicScript) /\ Quiet(VideoScript) /\ Quiet(YouTubeScript) /\ Quiet(GraphScript)
  BY DEF TopicScript, VideoScript, YouTubeScript, GraphScript, Skip
<1> HIDE DEF Quiet
<1>4. ASSUME k \in DOMAIN Shared \ DOMAIN Local, k # "events" PROVE Quiet(Kind[k].script)
  <2>1. \E T, w : Shared[k] \in
          {Store(T, w, BookmarkScript), Store(T, w, CaptureScript), Store(T, w, CapsuleScript),
           Store(T, w, CreatorScript), Store(T, w, EdgeScript), Store(T, w, FtsScript),
           Store(T, w, MetricScript), Store(T, w, AnswerScript), Store(T, w, <<>>),
           Store(T, w, UrlScript), Store(T, w, ImportScript), Store(T, w, ArtifactScript),
           Store(T, w, ReviewScript), Store(T, w, TopicScript), Store(T, w, VideoScript),
           Store(T, w, YouTubeScript), Store(T, w, GraphScript)}
    BY <1>4 DEF Shared
  <2>2. \A T, w, s : Store(T, w, s).script = s
    BY DEF Store
  <2> QED BY <1>1, <1>2, <1>3, <1>4, <2>1, <2>2, KindsAre
<1>5. k \in DOMAIN Local => Quiet(Kind[k].script)
  BY <1>1, LocalUnscripted
<1>6. k # "events" => Quiet(Kind[k].script)
  BY <1>4, <1>5, KindsAre
<1> QED BY <1>6 DEF Quiet

(* to a number.                                                            *)
LEMMA SequenceTyped ==
    ASSUME PlaneInv, TypedInv, [Next]_vars
    PROVE  seq' \in Nat
<1>1. RowsInv /\ seq \in Nat
  BY DEF PlaneInv, TypedInv
<1>2. \A t : \A rows : Committed(t, rows) => seq' = seq
  BY DEF Committed
<1>3. ASSUME NEW t \in Threads, LiveStep(t) PROVE seq' \in Nat
  <2>1. CASE Begin(t)
    BY <1>1, <2>1 DEF Begin
  <2>2. CASE MergeReads(t)
    BY <1>1, <2>2 DEF MergeReads
  <2> QED BY <1>1, <1>2, <1>3, <2>1, <2>2
          DEF LiveStep, Write, Delete, MergeWrites, LocalMergeWrites
<1>4. ASSUME NEW t \in Threads, AgentStep(t) \/ Ends(t) PROVE seq' = seq
  BY <1>4 DEF AgentStep, Run, Approve, SetRunning, CreateToolCall, InvokeTool, Mark, Refused, Ends,
              Stored, tableVars
<1>5. CASE SetSequence
  <2>1. mig.step \in 1..Len(Script) /\ Script[mig.step][1] = "setval"
    <3>1. mig.at = "replay" /\ mig.step <= Len(Script) /\ Script[mig.step][1] = "setval"
      BY <1>5 DEF SetSequence
    <3>2. mig.step \in Nat \ {0} /\ Len(Script) \in Nat
      BY <1>1, <3>1, ScriptLength DEF PlaneInv, StepInv
    <3> QED BY <3>1, <3>2
  <2>2. kind = "events"
    BY <1>1, <2>1, SequenceOfEvents DEF RowsInv, Script
  <2>3. PICK b \in Nat : EventsUpTo(b)
    BY <2>2 DEF TypedInv
  <2>4. \A r \in Visible : r.id \in Nat /\ r.id <= b
    BY <2>3 DEF EventsUpTo, Visible, TypedInv, Typed
  <2> QED BY <1>5, <2>4, SetvalIsAbove
<1>6. MigrationStep => SetSequence \/ seq' = seq
  BY DEF MigrationStep, StartMigration, LockOwner, NextStatement, FinishMigration, Rollback,
         Check, Insert, InsertItem, InsertOnce, InsertReview, Parity, Replayed, tableVars
<1>7. ErasureStep => seq' = seq
  BY DEF ErasureStep, Fence, EraseStore, EraseMemories, Finish, Raises, Erased, tableVars
<1>8. Crash => seq' = seq
  BY DEF Crash, Ends, Rollback, tableVars
<1>9. UNCHANGED vars => seq' = seq
  BY DEF vars, tableVars
<1> QED BY <1>1, <1>3, <1>4, <1>5, <1>6, <1>7, <1>8, <1>9 DEF Next

(* So every step keeps the types.                                          *)
LEMMA TypedStep ==
    ASSUME PlaneInv, AgentsInv, TypedInv, [Next]_vars
    PROVE  TypedInv'
<1>1. RowsInv /\ FenceInv /\ \A r \in db \cup pend : Typed(r)
  BY DEF PlaneInv, TypedInv
<1>2. \A r \in db' \cup pend' : Typed(r)
  <2>1. CASE \E t \in Threads : Writes(t) /\ pend' = pend /\ UNCHANGED migVars
    BY <1>1, <2>1, WriteTyped, MergeTyped DEF Writes
  <2>2. CASE \E t \in Threads : AgentStep(t) /\ Agents /\ pend' = pend /\ UNCHANGED migVars
    BY <1>1, <2>2, AgentTyped
  <2>3. CASE FinishMigration
    BY <1>1, <2>3 DEF FinishMigration, Visible
  <2>4. CASE \E r \in mig.left : Copies(r)
    BY <1>1, <2>4, CopyTyped
  <2>5. CASE db' \subseteq db /\ pend' \subseteq pend
    BY <1>1, <2>5
  <2> QED BY <2>1, <2>2, <2>3, <2>4, <2>5, RowsCome
<1>3. ASSUME NEW t \in Threads PROVE TypedTx(tx'[t])
  <2>1. TypedTx(tx[t]) /\ TypedTx(Idle)
    BY DEF TypedInv, TypedTx, Idle
  <2>2. CASE Goes(t)
    BY <2>1, <2>2 DEF Goes, SameTx, TypedTx, Open
  <2>3. CASE Begin(t)
    <3>1. /\ tx'[t].key \in {1, 2} /\ \E tabs, key : tx'[t].seen = Sees(tabs, key)
          /\ tx'[t].id = IF kind = "events" THEN seq ELSE NewId
      BY <1>1, <2>3, BegunIs
    <3>2. tx'[t].id \in Nat
      BY <1>1, <3>1, NewIdGrows DEF TypedInv, RowsInv
    <3> QED BY <1>1, <3>1, <3>2, SeenIsThere DEF TypedTx
  <2>4. CASE MergeReads(t)
    <3>1. tx'[t].seen = Entities \cup Rewired /\ Merges(tx'[t].write)
      BY <1>1, <2>4, MergingIs
    <3> QED BY <1>1, <3>1, SeenIsThere DEF TypedTx
  <2> QED BY <2>2, <2>3, <2>4, TxMoves
<1>4. kind' = kind
  BY <1>1, StoreStays DEF kind
<1>5. kind = "events" => \E b \in Nat : EventsUpTo(b)'
  BY EventsBounded
<1> QED BY <1>2, <1>3, <1>4, <1>5, SequenceTyped DEF TypedInv

-----------------------------------------------------------------------------
(* So every step keeps the links.                                          *)
LEMMA LinksStep ==
    ASSUME PlaneInv, LinksInv, UniqueInv, [Next]_vars
    PROVE  LinksInv'
<1>1. RowsInv /\ FenceInv
  BY DEF PlaneInv
<1>2. kind' = kind
  BY <1>1, StoreStays DEF kind
<1> SUFFICES ASSUME Graphs
             PROVE  (\A r \in db' \cup pend' : Linking(r)) /\ \A t \in Threads : LinksTo(tx'[t])
  BY <1>2 DEF LinksInv, Graphs
<1>3. \A r \in db \cup pend : Linking(r)
  BY DEF LinksInv
<1>4. \A r \in db' \cup pend' : Linking(r)
  <2>1. CASE \E t \in Threads : Writes(t) /\ pend' = pend /\ UNCHANGED migVars
    BY <1>1, <1>3, <2>1, WriteLinks, MergeLinks DEF Writes
  <2>2. ~Agents
    BY DEF Graphs, Agents
  <2>3. CASE FinishMigration
    BY <1>3, <2>3 DEF FinishMigration, Visible
  <2>4. CASE \E r \in mig.left : Copies(r)
    <3>1. PICK r \in mig.left : Copies(r)
      BY <2>4
    <3>2. Linking(r) /\ IsRow(r)
      BY <1>1, OldTyped, OldRowsAreRows DEF RowsInv
    <3>3. Linking(Stage(r)) /\ Linking(Claim(r))
      BY <3>2, StageIs DEF Linking, Ledger
    <3> QED BY <1>1, <1>3, <3>1, <3>2, <3>3, CopiesAre
  <2>5. CASE db' \subseteq db /\ pend' \subseteq pend
    BY <1>3, <2>5
  <2> QED BY <2>1, <2>2, <2>3, <2>4, <2>5, RowsCome
<1>5. ASSUME NEW t \in Threads PROVE LinksTo(tx'[t])
  <2>1. LinksTo(tx[t]) /\ LinksTo(Idle)
    BY DEF LinksInv, LinksTo, Idle
  <2>2. CASE Goes(t)
    BY <2>1, <2>2, LinksKept DEF Goes, Open
  <2> QED BY <1>1, <2>2, LinksBegin, LinksMerge, TxMoves
<1> QED BY <1>4, <1>5

(* While they are open only writes and merges take rows.                   *)
LEMMA GraphRowsGo ==
    ASSUME PlaneInv, kind = "graph", [Next]_vars
    PROVE  \/ db \subseteq db'
           \/ \A t \in Threads : ~Open(t) /\ tx'[t] = tx[t]
           \/ \E t \in Threads : Write(t) \/ MergeWrites(t)
<1>1. RowsInv /\ ErasingInv /\ FenceInv /\ ServingInv
  BY DEF PlaneInv
<1>2. ASSUME NEW t \in Threads, LiveStep(t) PROVE db \subseteq db' \/ Write(t) \/ MergeWrites(t)
  <2>1. Begin(t) \/ MergeReads(t) => db' = db
    BY DEF Begin, MergeReads
  <2> QED BY <1>1, <1>2, <2>1, GraphIs DEF LiveStep
<1>3. \A t \in Threads : ~AgentStep(t) /\ ~Ends(t)
  BY <1>1, GraphIs, NoRequestsForEvents
<1>4. MigrationStep => db \subseteq db'
  BY DEF MigrationStep, StartMigration, LockOwner, NextStatement, SetSequence, Rollback,
         Check, Insert, InsertItem, InsertOnce, InsertReview, Parity, Replayed, tableVars,
         FinishMigration, Visible
<1>5. ASSUME ErasureStep PROVE db' = db \/ \A t \in Threads : ~Open(t) /\ tx'[t] = tx[t]
  <2>1. CASE er.at = 0
    <3>1. ~EraseStore /\ ~EraseMemories
      BY <2>1, LastIs DEF EraseStore, EraseMemories
    <3> QED BY <1>5, <3>1 DEF ErasureStep, Fence, Finish, Raises, tableVars
  <2>2. CASE er.at # 0
    <3>1. \A t \in Threads : ~Open(t)
      BY <1>1, <2>2 DEF ErasingInv, FenceInv
    <3>2. tx' = tx
      BY <1>1, <1>5, NeighboursStay
    <3> QED BY <3>1, <3>2
  <2> QED BY <2>1, <2>2
<1>6. Crash => db' = db
  BY DEF Crash, Ends, Rollback, tableVars
<1>7. UNCHANGED vars => db' = db
  BY DEF vars, tableVars
<1> QED BY <1>2, <1>3, <1>4, <1>5, <1>6, <1>7 DEF Next

(* What is locked stays there.                                             *)
LEMMA LockedStay ==
    ASSUME PlaneInv, LocksInv, kind = "graph", [Next]_vars, NEW u \in Threads, Goes(u), tx'[u] # Idle
    PROVE  Locked(u) \subseteq db'
<1>1. RowsInv /\ Locked(u) \subseteq db
  BY DEF PlaneInv, LocksInv
<1>2. Open(u)
  BY DEF Goes
<1>3. ASSUME NEW t \in Threads, Write(t) PROVE Locked(u) \subseteq db'
  <2>1. CASE Committed(t, db)
    BY <1>1, <2>1 DEF Committed
  <2>2. CASE Committed(t, Left(t))
    <3>1. u # t
      BY <1>1, <2>2, CommittedGoes
    <3>2. Locked(u) \cap Found(t) = {}
      BY <1>1, <1>3, <3>1, WriteIs DEF LockedByOthers
    <3>3. Locked(u) \subseteq Left(t)
      BY <1>1, <3>2 DEF Left, Updated, Replaced
    <3> QED BY <2>2, <3>3 DEF Committed
  <2> QED BY <1>1, <1>3, <2>1, <2>2, WriteIs
<1>4. ASSUME NEW t \in Threads, MergeWrites(t) PROVE Locked(u) \subseteq db'
  <2>1. /\ Open(t) /\ tx[t].write = MergeEntities
        /\ Committed(t, Updated(Apart(t) \cup {End(t, 1)}, {End(t, 1)}) \cup Rewire(t))
        /\ \A key \in {1, 2} : End(t, key) \in tx[t].seen /\ End(t, key).tab = "kg_entities"
    BY <1>1, <1>4, MergeIs
  <2>2. u # t
    BY <1>1, <2>1, CommittedGoes
  <2>3. Locked(u) \cap Locked(t) = {}
    BY <2>2 DEF LocksInv
  <2>4. Locked(t) = {r \in tx[t].seen : r.tab \in {"kg_entities", "kg_relations"}}
    BY <1>1, <2>1, LockedIs
  <2>5. ASSUME NEW r \in Locked(u) PROVE r \in Apart(t) \ {End(t, 1)}
    <3>1. r.tab \in {"kg_entities", "kg_relations"} /\ r \in db
      BY <1>1, LockedIs
    <3>2. r \notin tx[t].seen
      BY <2>3, <2>4, <3>1
    <3>3. r \notin LeftLinks(t)
      BY <3>1 DEF LeftLinks, Rows
    <3> QED BY <2>1, <3>1, <3>2, <3>3 DEF Apart, Read
  <2>6. Apart(t) \ {End(t, 1)} \subseteq Updated(Apart(t) \cup {End(t, 1)}, {End(t, 1)})
    BY DEF Updated
  <2> QED BY <2>1, <2>5, <2>6 DEF Committed
<1> QED BY <1>1, <1>2, <1>3, <1>4, GraphRowsGo

LockedBy(x) ==
    IF Locking(x.write) THEN {r \in x.seen : r.tab \in DOMAIN x.write \cup {"kg_relations"}} ELSE {}
(* What a transaction has locked depends on it alone.                      *)
LEMMA LockedByIs ==
    /\ \A t : Locked(t) = LockedBy(tx[t]) /\ Locked(t)' = LockedBy(tx'[t])
    /\ LockedBy(Idle) = {}
    /\ \A x : LockedBy(x) \subseteq x.seen /\ (~Locking(x.write) => LockedBy(x) = {})
    /\ \A x, y : SameTx(x, y) => LockedBy(x) = LockedBy(y)
<1>1. \A t : Locked(t) = LockedBy(tx[t]) /\ Locked(t)' = LockedBy(tx'[t])
  BY DEF Locked, LockedBy, Tabs
<1>2. LockedBy(Idle) = {}
  BY DEF LockedBy, Idle
<1>3. \A x : LockedBy(x) \subseteq x.seen /\ (~Locking(x.write) => LockedBy(x) = {})
  BY DEF LockedBy
<1>4. \A x, y : SameTx(x, y) => LockedBy(x) = LockedBy(y)
  BY DEF LockedBy, SameTx
<1> QED BY <1>1, <1>2, <1>3, <1>4

(* A transaction that begins locks what no other one has locked.           *)
LEMMA LocksTaken ==
    ASSUME RowsInv, NEW t \in Threads, Begin(t) \/ MergeReads(t)
    PROVE  /\ db' = db /\ \A u \in Threads \ {t} : tx'[u] = tx[u]
           /\ LockedBy(tx'[t]) \subseteq db
           /\ \A u \in Threads \ {t} : LockedBy(tx'[t]) \cap Locked(u) = {}
<1>1. CASE Begin(t)
  <2>1. PICK w \in Kind[kind].writes, key \in {1, 2} :
           /\ Locking(w) => Sees(DOMAIN w, key) \cap LockedByOthers(t) = {}
           /\ tx'[t].write = w /\ tx'[t].seen = Sees(DOMAIN w, key)
    BY <1>1, BegunIs
  <2>2. LockedBy(tx'[t]) \subseteq Sees(DOMAIN w, key) /\ (~Locking(w) => LockedBy(tx'[t]) = {})
    BY <2>1, LockedByIs
  <2>3. db' = db /\ \A u \in Threads \ {t} : tx'[u] = tx[u]
    BY <1>1, BegunIs
  <2> QED BY <2>1, <2>2, <2>3, SeenIsThere DEF LockedByOthers
<1>2. CASE MergeReads(t)
  <2>1. /\ tx'[t].seen = Entities \cup Rewired
        /\ (Entities \cup Rewired) \cap LockedByOthers(t) = {}
        /\ db' = db /\ \A u \in Threads \ {t} : tx'[u] = tx[u]
    BY <1>2, MergingIs
  <2>2. LockedBy(tx'[t]) \subseteq Entities \cup Rewired
    BY <2>1, LockedByIs
  <2> QED BY <2>1, <2>2, SeenIsThere DEF LockedByOthers
<1> QED BY <1>1, <1>2

(* So every step keeps the locks.                                          *)
LEMMA LocksStep ==
    ASSUME PlaneInv, LocksInv, [Next]_vars
    PROVE  LocksInv'
<1>1. RowsInv
  BY DEF PlaneInv
<1>2. kind' = kind
  BY <1>1, StoreStays DEF kind
<1> SUFFICES ASSUME kind = "graph"
             PROVE  /\ \A t \in Threads : LockedBy(tx'[t]) \subseteq db'
                    /\ \A t, u \in Threads : t # u => LockedBy(tx'[t]) \cap LockedBy(tx'[u]) = {}
  BY <1>2, LockedByIs DEF LocksInv
<1>3. ASSUME NEW t \in Threads, Goes(t)
      PROVE  LockedBy(tx'[t]) \subseteq Locked(t) /\ LockedBy(tx'[t]) \subseteq db'
  <2>1. CASE tx'[t] = Idle
    BY <2>1, LockedByIs
  <2>2. CASE tx'[t] # Idle
    <3>1. LockedBy(tx'[t]) = Locked(t)
      BY <1>3, <2>2, LockedByIs DEF Goes
    <3> QED BY <1>3, <2>2, <3>1, LockedStay
  <2> QED BY <2>1, <2>2
<1>4. \A t \in Threads : LockedBy(tx'[t]) \subseteq db'
  BY <1>1, <1>3, LocksTaken, TxMoves
<1>5. ASSUME NEW t \in Threads, NEW u \in Threads, t # u
      PROVE  LockedBy(tx'[t]) \cap LockedBy(tx'[u]) = {}
  <2>1. Locked(t) \cap Locked(u) = {}
    BY <1>5 DEF LocksInv
  <2>2. CASE Begin(t) \/ MergeReads(t)
    <3>1. LockedBy(tx'[u]) = Locked(u)
      BY <1>1, <1>5, <2>2, LocksTaken, LockedByIs
    <3> QED BY <1>1, <1>5, <2>2, <3>1, LocksTaken
  <2>3. CASE Begin(u) \/ MergeReads(u)
    <3>1. LockedBy(tx'[t]) = Locked(t)
      BY <1>1, <1>5, <2>3, LocksTaken, LockedByIs
    <3> QED BY <1>1, <1>5, <2>3, <3>1, LocksTaken
  <2>4. CASE Goes(t) /\ Goes(u)
    BY <1>3, <2>1, <2>4
  <2> QED BY <2>2, <2>3, <2>4, TxMoves
<1> QED BY <1>4, <1>5

-----------------------------------------------------------------------------
(* The runs of the agents and their calls have ids.                        *)
LEMMA AgentTabsAre ==
    \A k \in {"agents", "local_agents"} :
        /\ Kind[k].script = <<>>
        /\ DOMAIN Kind[k].tables = {"agent_runs", "agent_tool_calls"}
        /\ \A tab \in DOMAIN Kind[k].tables : Kind[k].tables[tab].unique = {"id"}
<1> SUFFICES ASSUME NEW k \in {"agents", "local_agents"}
             PROVE  /\ Kind[k].script = <<>>
                    /\ DOMAIN Kind[k].tables = {"agent_runs", "agent_tool_calls"}
                    /\ \A tab \in DOMAIN Kind[k].tables : Kind[k].tables[tab].unique = {"id"}
  OBVIOUS
<1> DEFINE c(fk) == Child({"id"}, "agent_runs", {1}, fk)
           T(fk) == [agent_runs |-> Plain, agent_tool_calls |-> c(fk)]
<1>1. \A fk : c(fk).unique = {"id"}
  BY DEF Child
<1>2. Plain.unique = {"id"}
  BY ToldAre
<1>3. AgentTables = T(TRUE) /\ LocalAgentTables = T(FALSE)
  BY DEF AgentTables, LocalAgentTables
<1> HIDE DEF c
<1>4. \A fk : /\ DOMAIN T(fk) = {"agent_runs", "agent_tool_calls"}
              /\ T(fk)["agent_runs"].unique = {"id"} /\ T(fk)["agent_tool_calls"].unique = {"id"}
  BY <1>1, <1>2
<1>5. Kind["agents"] = Store(AgentTables, {}, <<>>) /\
          Kind["local_agents"] = Store(LocalAgentTables, {}, <<>>)
  BY KindsAre DEF Shared, Local
<1> HIDE DEF T
<1>6. Kind[k].script = <<>> /\ \E fk : Kind[k].tables = T(fk)
  <2>1. \A tables : Store(tables, {}, <<>>).script = <<>> /\ Store(tables, {}, <<>>).tables = tables
    BY DEF Store
  <2>2. Kind[k] = Store(AgentTables, {}, <<>>) \/ Kind[k] = Store(LocalAgentTables, {}, <<>>)
    BY <1>5
  <2> QED BY <1>3, <2>1, <2>2
<1>7. PICK fk : Kind[k].tables = T(fk)
  BY <1>6
<1>8. \A tab \in DOMAIN T(fk) : T(fk)[tab].unique = {"id"}
  BY <1>4
<1> QED BY <1>4, <1>6, <1>7, <1>8

(* They have no migration.                                                 *)
LEMMA AgentTabs ==
    ASSUME RowsInv, Agents
    PROVE  /\ Script = <<>>
           /\ store.tables["agent_runs"].unique = {"id"}
           /\ store.tables["agent_tool_calls"].unique = {"id"}
<1>1. kind \in {"agents", "local_agents"} /\ store.tables = Kind[kind].tables
  BY DEF Agents, RowsInv
<1> QED BY <1>1, AgentTabsAre DEF Script

(* A row with an id of its own may be added.                               *)
LEMMA AddedUnique ==
    ASSUME NEW T, NEW D, NEW n, Unlike(T, D), T[n.tab].unique = {"id"},
           \A r \in D : r.tab = n.tab => r.id # n.id
    PROVE  Unlike(T, D \cup {n})
<1>1. Unlike(T, {n})
  BY DEF Unlike
<1>2. Clear(T, D, {n})
  <2> SUFFICES ASSUME NEW r \in D, Meets(r, n, T[r.tab].unique) PROVE FALSE
    BY DEF Clear
  <2>1. r.tab = n.tab
    BY MeetsBy
  <2>2. r.id = n.id
    BY <2>1, MeetsBy
  <2> QED BY <2>1, <2>2
<1> QED BY <1>1, <1>2, UnlikeUnion

(* The agents give their runs and calls ids of their own.                  *)
LEMMA AgentUnique ==
    ASSUME PlaneInv, AgentsInv, UniqueInv, Agents, NEW t \in Threads, AgentStep(t)
    PROVE  Unlike(store.tables, db') /\ Clear(store.tables, db', pend)
<1>1. RowsInv /\ FenceInv /\ Unlike(store.tables, db)
  BY DEF PlaneInv, UniqueInv
<1>2. pend = {}
  BY <1>1, AgentTabs, NoneCopied
<1> SUFFICES Unlike(store.tables, db')
  BY <1>2 DEF Clear
<1>3. RunsOk(Runs, Calls, NewId) /\ CallsOk(Calls, NewId, doubled, fenced) /\ NewId \in Nat
  BY DEF AgentsInv, AgentsOk
<1>4. ASSUME db' # db PROVE ~fenced
  BY <1>4 DEF AgentStep, Run, Approve, SetRunning, CreateToolCall, InvokeTool, Mark, Refused, Ends,
              Stored, tableVars
<1>5. CASE \E status \in Bodies : db' = db \cup {AgentRow("agent_runs", NewId, {}, status)}
  <2>1. PICK status \in Bodies : db' = db \cup {AgentRow("agent_runs", NewId, {}, status)}
    BY <1>5
  <2> DEFINE n == AgentRow("agent_runs", NewId, {}, status)
  <2>2. n.tab = "agent_runs" /\ n.id = NewId
    BY AgentRowIs
  <2>3. \A r \in db : r.tab = "agent_runs" => r.id < NewId /\ r.id \in Nat
    BY <1>3 DEF RunsOk, Runs
  <2> HIDE DEF n
  <2>4. Unlike(store.tables, db \cup {n})
    <3>1. \A r \in db : r.tab = n.tab => r.id # n.id
      BY <1>3, <2>2, <2>3
    <3> QED BY <1>1, <2>2, <3>1, AgentTabs, AddedUnique
  <2> QED BY <2>1, <2>4 DEF n
<1>6. CASE /\ agent[t].at = "call"
           /\ db' = db \cup {AgentRow("agent_tool_calls", 200 + Cardinality(Calls), {agent[t].run}, "running")}
  <2> DEFINE i == 200 + Cardinality(Calls)
             n == AgentRow("agent_tool_calls", i, {agent[t].run}, "running")
  <2>1. n.tab = "agent_tool_calls" /\ n.id = i
    BY AgentRowIs
  <2>2. i \in Nat
    BY <1>3, FS_CardinalityType DEF CallsOk
  <2>3. db' = db \cup {n}
    BY <1>6
  <2>4. CASE db' = db
    BY <1>1, <2>4
  <2>5. CASE db' # db
    <3>1. \A r \in db : r.tab = "agent_tool_calls" => r.id < i /\ r.id \in Nat
      BY <1>3, <1>4, <2>5 DEF CallsOk, Calls
    <3> HIDE DEF i, n
    <3>2. \A r \in db : r.tab = n.tab => r.id # n.id
      BY <2>1, <2>2, <3>1
    <3> QED BY <1>1, <2>1, <2>3, <3>2, AgentTabs, AddedUnique
  <2> QED BY <2>4, <2>5
<1>7. CASE \E rows \in SUBSET db, status \in Bodies : db' = (db \ rows) \cup WithStatus(rows, status)
  <2>1. PICK rows \in SUBSET db, status \in Bodies : db' = (db \ rows) \cup WithStatus(rows, status)
    BY <1>7
  <2>2. \A r \in db : IsRow(r)
    BY <1>1, DbRows
  <2> QED BY <1>1, <2>1, <2>2, UnlikeCopies
<1> QED BY <1>1, <1>5, <1>6, <1>7, AgentStepIs DEF AgentDoes

(* The rows of a migration are those of the old file, or claims and copies *)
(* of stages, whose ids are above those of all live writes and of all      *)
(* migrations before.                                                      *)
StageBase(n) == 100 + Leaver + MaxOps + 2 * n
StageOf(o, n) == [o EXCEPT !.id = StageBase(n) + (IF o.owner = Leaver THEN 1 ELSE 0)]
Top(m, n) == StageBase(n) + (IF m.at = "none" THEN 2 ELSE 0)
StagesIn(D, b) ==
    \A r \in D : /\ r.tab = Ledger => r = ClaimOf(r.owner)
                 /\ r.tab = "youtube_pipeline_runs" => r.id < b
CopiesIn(P, n) ==
    \A r \in P :
       \/ r \in OldRows("youtube") \/ r = ClaimOf(r.owner)
       \/ \E o \in OldRows("youtube") : o.tab = "youtube_pipeline_runs" /\ r = StageOf(o, n)
CopiesInv ==
    /\ kind # "youtube" => pend \subseteq OldRows(kind)
    /\ kind = "youtube" =>
          /\ StagesIn(db, Top(mig, runs)) /\ CopiesIn(pend, runs)
          /\ \A t \in Threads : Open(t) => tx[t].id < 100 + Leaver + MaxOps

(* A copy of a stage has a new id and is the same otherwise,               *)
LEMMA StageOfIs ==
    ASSUME NEW o \in OldRows("youtube"), NEW n \in Nat
    PROVE  /\ IsRow(StageOf(o, n)) /\ StageOf(o, n).tab = o.tab /\ StageOf(o, n).owner = o.owner
           /\ o.owner \in Owners
           /\ StageOf(o, n).id = StageBase(n) + (IF o.owner = Leaver THEN 1 ELSE 0)
           /\ StageBase(n) \in Nat /\ StageBase(n) >= 100 + Leaver + MaxOps
           /\ StageBase(n + 1) = StageBase(n) + 2
<1>1. IsRow(o) /\ o.owner \in Owners
  BY YouTubeHas, KindsAre, OldRowsLook DEF LooksOld, Shared
<1> DEFINE i == StageBase(n) + (IF o.owner = Leaver THEN 1 ELSE 0)
<1>2. StageOf(o, n) = [o EXCEPT !.id = i]
  BY DEF StageOf
<1>3. i = StageBase(n) + (IF o.owner = Leaver THEN 1 ELSE 0)
  OBVIOUS
<1> HIDE DEF i
<1>4. /\ IsRow(StageOf(o, n)) /\ StageOf(o, n).tab = o.tab /\ StageOf(o, n).owner = o.owner
      /\ StageOf(o, n).id = i
  BY <1>1, <1>2 DEF IsRow
<1>5. StageBase(n) \in Nat /\ StageBase(n) >= 100 + Leaver + MaxOps /\ StageBase(n + 1) = StageBase(n) + 2
  BY LeaverAssumption, MaxOpsAssumption DEF StageBase
<1> QED BY <1>1, <1>3, <1>4, <1>5

(* it is what the run inserts,                                             *)
LEMMA StageIsOf == ASSUME NEW r PROVE Stage(r) = StageOf(r, runs)
BY DEF Stage, StageOf, StageId, StageBase

(* and a run has two ids.                                                  *)
LEMMA BaseIs ==
    ASSUME NEW n \in Nat
    PROVE  /\ StageBase(n) \in Nat /\ StageBase(n) >= 100 + Leaver + MaxOps
           /\ StageBase(n + 1) = StageBase(n) + 2
BY LeaverAssumption, MaxOpsAssumption DEF StageBase

(* A run of the migration is counted when it starts.                       *)
LEMMA RunsMove ==
    ASSUME FenceInv, [Next]_vars
    PROVE  \/ runs' = runs /\ (mig.at = "none" => mig'.at = "none")
           \/ mig.at = "none" /\ mig'.at = "lock" /\ runs' = runs + 1 /\ pend' = pend
<1>1. UNCHANGED migVars => runs' = runs /\ mig' = mig
  BY DEF migVars
<1>2. CASE MigrationStep
  <2>1. CASE StartMigration
    <3>1. PICK sel : mig' = [NoRun EXCEPT !.at = "lock", !.sel = sel]
      BY <2>1 DEF StartMigration
    <3>2. mig'.at = "lock"
      BY <3>1 DEF NoRun
    <3> QED BY <2>1, <3>2 DEF StartMigration
  <2>2. CASE LockOwner
    BY <2>2 DEF LockOwner, Rollback
  <2>3. CASE NextStatement \/ SetSequence
    BY <2>3 DEF NextStatement, SetSequence
  <2>4. CASE FinishMigration
    BY <2>4 DEF FinishMigration, Finishing
  <2>5. ASSUME NEW r, Check(r) \/ Insert(r) \/ InsertItem(r) \/ InsertOnce(r) \/ InsertReview(r) \/ Parity(r)
        PROVE  runs' = runs /\ mig.at # "none"
    BY <2>5 DEF Check, Insert, InsertItem, InsertOnce, InsertReview, Parity, Turn, Replayed, Rollback
  <2> QED BY <1>2, <2>1, <2>2, <2>3, <2>4, <2>5 DEF MigrationStep
<1>3. CASE Crash
  <2>1. CASE mig.at # "none" /\ Rollback
    BY <2>1 DEF Rollback
  <2>2. CASE UNCHANGED migVars
    BY <1>1, <2>2
  <2> QED BY <1>3, <2>1, <2>2 DEF Crash
<1>4. CASE UNCHANGED vars
  BY <1>1, <1>4 DEF vars
<1> QED BY <1>1, <1>2, <1>3, <1>4 DEF Next

(* Only the migration of the stages inserts once; it inserts stages.       *)
LEMMA OnceIs ==
    ASSUME PlaneInv, StagesInv, NEW r \in mig.left, InsertOnce(r)
    PROVE  /\ kind = "youtube" /\ r \in OldRows("youtube") /\ r.tab = "youtube_pipeline_runs"
           /\ Claim(r) = ClaimOf(r.owner)
<1>1. /\ mig.at = "replay" /\ Script[mig.step][1] = "once" /\ mig.step \in Nat \ {0}
      /\ mig.step <= Len(Script) /\ r \in OldRows(kind) /\ kind \in DOMAIN Kind
  BY DEF InsertOnce, Turn, StepInv, RowsInv, PlaneInv
<1>2. kind = "youtube"
  <2>1. Len(Script) \in Nat
    BY ScriptLength DEF PlaneInv
  <2>2. mig.step \in 1..Len(Script)
    BY <1>1, <2>1
  <2>3. kind # "youtube" => Claiming(Kind[kind].tables, Kind[kind].script)
    BY <1>1, FittingKinds DEF Fitting
  <2> QED BY <1>1, <2>2, <2>3 DEF Claiming, Script
<1>3. Script = YouTubeScript /\ Script[1][1] # "once" /\ Script[3][1] # "once" /\ Len(Script) = 3
  BY <1>2, YouTubeHas DEF Script
<1>4. r.tab = Script[mig.step][2]
  BY <1>1, <1>2 DEF StagesInv
<1>5. mig.step \in {1, 2, 3}
  BY <1>1, <1>3
<1>6. mig.step = 2
  BY <1>1, <1>3, <1>5
<1>7. r.tab = "youtube_pipeline_runs"
  BY <1>3, <1>4, <1>6, YouTubeHas
<1> QED BY <1>1, <1>2, <1>7, OldStages

(* Every step keeps the ids of what is committed below the bound:          *)
LEMMA WriteStages ==
    ASSUME RowsInv, CopiesInv, kind = "youtube", NEW t \in Threads, Write(t)
    PROVE  StagesIn(db', Top(mig, runs))
<1> DEFINE b == Top(mig, runs)
<1>1. StagesIn(db, b) /\ \A r \in db : IsRow(r)
  BY DbRows DEF CopiesInv
<1>2. CASE Committed(t, db)
  BY <1>1, <1>2 DEF Committed
<1>3. CASE Committed(t, Left(t))
  <2>1. /\ Open(t) /\ Found(t) \subseteq db
        /\ \A n \in Adding(t) : \E tab \in Tabs(t) : n = Written(t, tab) /\ n.tab = tab
    BY WriteIs
  <2>2. /\ tx[t].write \in YouTubeWrites /\ Ledger \notin Tabs(t)
        /\ \A tab \in Tabs(t) : tab = "youtube_pipeline_runs" => Verb(t, tab) = "insert"
    <3>1. tx[t].write \in YouTubeWrites
      BY <2>1, OpenFits, YouTubeHas
    <3>2. Ledger \notin Tabs(t)
      BY <3>1, YouTubeWritesAre DEF Tabs
    <3>3. \A w \in YouTubeWrites : "youtube_pipeline_runs" \in DOMAIN w => w["youtube_pipeline_runs"] = "insert"
      BY DEF YouTubeWrites
    <3> QED BY <3>1, <3>2, <3>3 DEF Tabs, Verb
  <2>3. tx[t].id < b
    <3>1. tx[t].id < 100 + Leaver + MaxOps
      BY <2>1 DEF CopiesInv
    <3>2. runs \in Nat /\ tx[t].id \in Nat
      <4>1. "intelligence_events" \notin DOMAIN Kind[kind].tables
        BY YouTubeHas, YouTubeNames DEF Ledger
      <4>2. ~Merges(tx[t].write)
        BY <2>2, YouTubeWritesAre
      <4>3. TxFits(kind, tx[t]) /\ tx[t] # Idle
        BY <2>1, OpenFits
      <4> QED BY <4>1, <4>2, <4>3 DEF TxFits, RowsInv
    <3>3. StageBase(runs) \in Nat /\ StageBase(runs) >= 100 + Leaver + MaxOps
      BY <3>2, BaseIs
    <3> QED BY <3>1, <3>2, <3>3, LeaverAssumption, MaxOpsAssumption DEF Top
  <2>4. \A n \in Adding(t) : n.tab # Ledger /\ (n.tab = "youtube_pipeline_runs" => n.id < b)
    <3> SUFFICES ASSUME NEW n \in Adding(t)
                 PROVE  n.tab # Ledger /\ (n.tab = "youtube_pipeline_runs" => n.id < b)
      OBVIOUS
    <3>1. PICK tab \in Tabs(t) : n = Written(t, tab) /\ n.tab = tab
      BY <2>1
    <3>2. tab # Ledger
      BY <2>2
    <3>3. ASSUME tab = "youtube_pipeline_runs" PROVE n.id = tx[t].id
      <4>1. "id" \in Table(tab).unique
        BY <3>3, TableIs, YouTubeHas, YouTubeNames
      <4>2. Verb(t, tab) = "insert"
        BY <2>2, <3>3
      <4> QED BY <3>1, <4>1, <4>2 DEF Written, IdOf
    <3> QED BY <2>3, <3>1, <3>2, <3>3
  <2>5. \A r \in Found(t) : r.tab # Ledger
    BY <2>2 DEF Found, Finds, Rows
  <2>6. ASSUME NEW q \in Updated(db \ Replaced(t), Found(t) \ Replaced(t))
        PROVE  /\ q.tab = Ledger => q = ClaimOf(q.owner)
               /\ q.tab = "youtube_pipeline_runs" => q.id < b
    <3>1. CASE q \in db
      BY <1>1, <3>1 DEF StagesIn
    <3>2. CASE \E r \in Found(t) : q = [r EXCEPT !.body = "live"]
      <4>1. PICK r \in Found(t) : q = [r EXCEPT !.body = "live"]
        BY <3>2
      <4>2. IsRow(r) /\ "live" \in Bodies
        BY <1>1, <2>1, LiveIsBody
      <4>3. q.tab = r.tab /\ q.id = r.id
        BY <4>1, <4>2 DEF IsRow
      <4> QED BY <1>1, <2>1, <2>5, <4>3 DEF StagesIn
    <3> QED BY <3>1, <3>2 DEF Updated
  <2> HIDE DEF b
  <2>7. StagesIn(Left(t), b)
    BY <2>4, <2>6 DEF StagesIn, Left
  <2> QED BY <1>3, <2>7 DEF Committed, b
<1> QED BY <1>2, <1>3, WriteIs

(* The bound only grows;                                                   *)
LEMMA TopGrows ==
    ASSUME FenceInv, runs \in Nat, [Next]_vars
    PROVE  /\ Top(mig, runs) \in Nat /\ Top(mig', runs') \in Nat
           /\ Top(mig, runs) <= Top(mig', runs')
<1>1. StageBase(runs) \in Nat /\ StageBase(runs + 1) = StageBase(runs) + 2
  BY BaseIs
<1>2. CASE runs' = runs /\ (mig.at = "none" => mig'.at = "none")
  BY <1>1, <1>2 DEF Top
<1>3. CASE mig.at = "none" /\ mig'.at = "lock" /\ runs' = runs + 1
  BY <1>1, <1>3 DEF Top
<1> QED BY <1>2, <1>3, RunsMove

(* what is copied stays below it when the migration has ended.             *)
LEMMA CopiesBelow ==
    ASSUME NEW n \in Nat, NEW P, CopiesIn(P, n)
    PROVE  StagesIn(P, StageBase(n) + 2)
<1> SUFFICES ASSUME NEW r \in P
             PROVE  /\ r.tab = Ledger => r = ClaimOf(r.owner)
                    /\ r.tab = "youtube_pipeline_runs" => r.id < StageBase(n) + 2
  BY DEF StagesIn
<1>1. StageBase(n) \in Nat /\ StageBase(n) >= 100 + Leaver + MaxOps
  BY BaseIs
<1>2. CASE r \in OldRows("youtube")
  <2>1. r.tab # Ledger
    BY <1>2, OldTyped, YouTubeHas, KindsAre DEF Shared
  <2>2. ASSUME r.tab = "youtube_pipeline_runs" PROVE r.id < StageBase(n) + 2
    <3>1. r.id = r.owner
      BY <1>2, <2>2, OldStages
    <3>2. r.owner \in Owners
      BY <1>2, StageOfIs
    <3>3. r.owner <= Leaver /\ r.owner \in Nat
      BY <3>2, LeaverAssumption DEF Owners
    <3> QED BY <1>1, <3>1, <3>3, LeaverAssumption, MaxOpsAssumption
  <2> QED BY <2>1, <2>2
<1>3. CASE r = ClaimOf(r.owner)
  <2>1. r.tab = Ledger
    BY <1>3 DEF ClaimOf
  <2> QED BY <1>3, <2>1 DEF Ledger
<1>4. ASSUME NEW o \in OldRows("youtube"), o.tab = "youtube_pipeline_runs", r = StageOf(o, n)
      PROVE  /\ r.tab = Ledger => r = ClaimOf(r.owner)
             /\ r.tab = "youtube_pipeline_runs" => r.id < StageBase(n) + 2
  <2>1. /\ r.tab = "youtube_pipeline_runs"
        /\ r.id = StageBase(n) + (IF o.owner = Leaver THEN 1 ELSE 0)
    BY <1>4, StageOfIs
  <2>2. r.id < StageBase(n) + 2
    BY <1>1, <2>1
  <2> QED BY <2>1, <2>2 DEF Ledger
<1> QED BY <1>2, <1>3, <1>4 DEF CopiesIn

(* Fewer rows stay below a higher bound.                                   *)
LEMMA StagesBelow ==
    ASSUME NEW D, \A r \in D : r.id \in Nat, NEW b \in Nat, NEW c \in Nat, b <= c, StagesIn(D, b),
           NEW E \in SUBSET D
    PROVE  StagesIn(E, c)
BY DEF StagesIn

(* So the rows of the target stay below it,                                *)
LEMMA StagesInStep ==
    ASSUME PlaneInv, TypedInv, CopiesInv, [Next]_vars, kind = "youtube"
    PROVE  StagesIn(db', Top(mig', runs'))
<1> DEFINE b == Top(mig, runs)
           c == Top(mig', runs')
<1>1. b \in Nat /\ c \in Nat /\ b <= c
  BY TopGrows DEF PlaneInv, RowsInv
<1>2. \A r \in db \cup pend : r.id \in Nat
  BY DEF TypedInv, Typed
<1>3. StagesIn(db, b)
  BY DEF CopiesInv
<1>4. CASE db' \subseteq db
  <2> HIDE DEF b, c
  <2>1. StagesIn(db', c)
    BY <1>1, <1>2, <1>3, <1>4, StagesBelow
  <2> QED BY <2>1 DEF c
<1>5. ASSUME NEW t \in Threads, Writes(t), UNCHANGED migVars
      PROVE  StagesIn(db', c)
  <2>1. Write(t)
    BY <1>5, MergingKinds DEF Writes, PlaneInv
  <2>2. c = b
    BY <1>5 DEF migVars
  <2>3. StagesIn(db', b)
    BY <2>1, WriteStages DEF PlaneInv
  <2> HIDE DEF b, c
  <2> QED BY <2>2, <2>3
<1>6. CASE FinishMigration
  <2>1. db' = db \cup pend /\ mig' = NoRun /\ runs' = runs /\ mig.at = "replay"
    BY <1>6 DEF FinishMigration, Visible, Finishing
  <2>2. c = StageBase(runs) + 2
    BY <2>1 DEF Top, NoRun
  <2>3. StagesIn(pend, StageBase(runs) + 2)
    BY CopiesBelow DEF CopiesInv, PlaneInv, RowsInv
  <2> HIDE DEF b, c
  <2>4. StagesIn(db, c)
    BY <1>1, <1>2, <1>3, StagesBelow
  <2>5. StagesIn(db', c)
    BY <2>1, <2>2, <2>3, <2>4 DEF StagesIn
  <2> QED BY <2>5 DEF c
<1>7. ASSUME NEW r \in mig.left, Copies(r)
      PROVE  db' \subseteq db
  BY <1>7, CopiesAre DEF PlaneInv
<1>8. ~Agents
  BY DEF Agents
<1> QED BY <1>4, <1>5, <1>6, <1>7, <1>8, RowsCome

(* and what is copied is what the old file says.                           *)
LEMMA CopiesInStep ==
    ASSUME PlaneInv, StagesInv, CopiesInv, [Next]_vars
    PROVE  /\ kind # "youtube" => pend' \subseteq OldRows(kind)
           /\ kind = "youtube" => CopiesIn(pend', runs')
<1>1. CASE pend' \subseteq pend
  <2>1. runs' = runs \/ pend = {}
    BY RunsMove DEF PlaneInv, FenceInv
  <2> QED BY <1>1, <2>1 DEF CopiesInv, CopiesIn
<1>2. ASSUME NEW r \in mig.left, Copies(r)
      PROVE  /\ kind # "youtube" => pend' \subseteq OldRows(kind)
             /\ kind = "youtube" => CopiesIn(pend', runs')
  <2>1. r \in OldRows(kind) /\ runs' = runs
    BY <1>2, CopiesAre DEF PlaneInv, RowsInv
  <2>2. CASE pend' = pend \cup {r}
    BY <2>1, <2>2 DEF CopiesInv, CopiesIn
  <2>3. CASE InsertOnce(r) /\ pend' = pend \cup {Claim(r), Stage(r)}
    <3>1. kind = "youtube" /\ r.tab = "youtube_pipeline_runs" /\ Claim(r) = ClaimOf(r.owner)
      BY <2>3, OnceIs
    <3>2. Stage(r) = StageOf(r, runs)
      BY StageIsOf
    <3>3. ClaimOf(r.owner) = ClaimOf(ClaimOf(r.owner).owner)
      BY DEF ClaimOf
    <3>4. \A q \in pend' : q \in pend \/ q = ClaimOf(q.owner) \/ q = StageOf(r, runs)
      BY <2>3, <3>1, <3>2, <3>3
    <3> QED BY <2>1, <3>1, <3>4 DEF CopiesInv, CopiesIn
  <2> QED BY <1>1, <1>2, <2>2, <2>3, CopiesAre DEF PlaneInv
<1>3. FinishMigration => pend' = {}
  BY DEF FinishMigration
<1> QED BY <1>1, <1>2, <1>3, RowsCome

(* These hold together.                                                    *)
LEMMA CopiesStep ==
    ASSUME PlaneInv, StagesInv, TypedInv, CopiesInv, [Next]_vars
    PROVE  CopiesInv'
<1>1. kind' = kind
  BY StoreStays DEF PlaneInv, kind
<1>2. kind' # "youtube" => pend' \subseteq OldRows(kind')
  BY <1>1, CopiesInStep
<1>3. kind' = "youtube" => CopiesIn(pend', runs') /\ StagesIn(db', Top(mig', runs'))
  BY <1>1, CopiesInStep, StagesInStep
<1>4. ASSUME kind = "youtube", NEW t \in Threads, tx'[t] # Idle
      PROVE  tx'[t].id < 100 + Leaver + MaxOps
  <2>1. Goes(t) => tx'[t].id = tx[t].id /\ Open(t)
    BY <1>4 DEF Goes, SameTx
  <2>2. CASE Goes(t)
    BY <1>4, <2>1, <2>2 DEF CopiesInv
  <2>3. CASE Begin(t)
    <3>1. tx'[t].id = NewId /\ ops < MaxOps
      BY <1>4, <2>3, BegunIs DEF PlaneInv
    <3>2. ops \in Nat
      BY DEF PlaneInv, RowsInv
    <3> QED BY <3>1, <3>2, LeaverAssumption, MaxOpsAssumption DEF NewId
  <2>4. ~MergeReads(t)
    <3>1. MergeReads(t) => \E w \in YouTubeWrites : Merges(w)
      BY <1>4, MergingIs, YouTubeHas DEF PlaneInv
    <3> QED BY <3>1, YouTubeWritesAre
  <2> QED BY <2>2, <2>3, <2>4, TxMoves
<1>5. kind' = "youtube" => \A t \in Threads : Open(t)' => tx'[t].id < 100 + Leaver + MaxOps
  BY <1>1, <1>4 DEF Open
<1> HIDE DEF kind
<1> QED BY <1>2, <1>3, <1>5 DEF CopiesInv

(* The items of an import have their run, in the target as in what is      *)
(* copied.                                                                 *)
HasRuns(rows) ==
    \A i \in rows : i.tab = "import_run_items" =>
        \A p \in i.ref : \E q \in rows : q.tab = "import_runs" /\ q.id = p
RunsOfItems == kind = "imports" => HasRuns(db) /\ HasRuns(pend)

(* A write adds an item with its run, or to it;                            *)
LEMMA WriteKeepsRuns ==
    ASSUME RowsInv, RunsOfItems, kind = "imports", NEW t \in Threads, Write(t)
    PROVE  HasRuns(db')
<1>1. CASE Committed(t, db)
  BY <1>1 DEF Committed, RunsOfItems
<1>2. CASE Committed(t, Left(t)) /\ \A n \in Adding(t) : ~Dangling(n, Left(t))
  <2>1. Open(t) /\ Found(t) \subseteq db
    BY WriteIs
  <2>2. Replaced(t) = {}
    <3>1. tx[t].write \in ImportWrites
      BY <2>1, OpenFits, ImportsAre
    <3>2. \A tab \in Tabs(t) : Verb(t, tab) # "replace"
      BY <3>1, ImportWritesAre DEF Tabs, Verb
    <3>3. \A r \in Found(t) : r.tab \in Tabs(t)
      BY DEF Found, Finds, Rows
    <3> QED BY <3>2, <3>3 DEF Replaced
  <2> DEFINE live(r) == [r EXCEPT !.body = "live"]
  <2>3. \A r \in db : live(r).tab = r.tab /\ live(r).id = r.id /\ live(r).ref = r.ref
    BY DEF RowsInv, AllFit, Fits, IsRow
  <2>4. Left(t) = (db \ Found(t)) \cup {live(r) : r \in Found(t)} \cup Adding(t)
    BY <2>2 DEF Left, Updated
  <2> HIDE DEF live
  <2>5. \A q \in db : \E p \in Left(t) : p.tab = q.tab /\ p.id = q.id
    BY <2>1, <2>3, <2>4
  <2>6. \A q \in Left(t) : q \in Adding(t) \/ \E p \in db : p.tab = q.tab /\ p.ref = q.ref
    BY <2>1, <2>3, <2>4
  <2>7. Table("import_run_items").fk /\ Table("import_run_items").parent = "import_runs"
    BY ImportsAre DEF RowsInv, Table, ImportTables, Child
  <2>8. ASSUME NEW i \in Left(t), i.tab = "import_run_items", NEW p \in i.ref
        PROVE  \E q \in Left(t) : q.tab = "import_runs" /\ q.id = p
    <3>1. CASE i \in Adding(t)
      BY <1>2, <2>7, <2>8, <3>1 DEF Dangling
    <3>2. CASE \E r \in db : r.tab = i.tab /\ r.ref = i.ref
      <4>1. \E q \in db : q.tab = "import_runs" /\ q.id = p
        BY <2>8, <3>2 DEF RunsOfItems, HasRuns
      <4> QED BY <2>5, <4>1
    <3> QED BY <2>6, <3>1, <3>2
  <2>9. HasRuns(Left(t))
    BY <2>8 DEF HasRuns
  <2> QED BY <1>2, <2>9 DEF Committed
<1> QED BY <1>1, <1>2, WriteIs

(* and leaves the neighbours' items their runs;                            *)
LEMMA ErasureKeepsRuns ==
    ASSUME RowsInv, RunsOfItems, kind = "imports", ErasureStep
    PROVE  HasRuns(db')
<1>1. CASE db' = db
  BY <1>1 DEF RunsOfItems
<1>2. CASE \A r \in db' : r.owner # Leaver
  <2>1. db' \subseteq db /\ \A r \in db : r.owner # Leaver => r \in db'
    BY NeighboursStay
  <2>2. /\ Kind[kind].tables["import_run_items"].fk /\ "id" \in Kind[kind].tables["import_runs"].unique
        /\ "intelligence_events" \notin DOMAIN Kind[kind].tables
    BY ImportsAre DEF ImportTables, ImportTabs, Child
  <2> SUFFICES ASSUME NEW i \in db', i.tab = "import_run_items", NEW p \in i.ref
               PROVE  \E q \in db' : q.tab = "import_runs" /\ q.id = p
    BY DEF HasRuns
  <2>3. i \in db /\ i.owner # Leaver /\ Fits(kind, i)
    BY <1>2, <2>1 DEF RowsInv, AllFit
  <2>4. p = 1
    BY <2>2, <2>3 DEF Fits
  <2>5. PICK q \in db : q.tab = "import_runs" /\ q.id = p
    BY <2>3 DEF RunsOfItems, HasRuns
  <2>6. q.owner # Leaver
    BY <2>2, <2>4, <2>5 DEF RowsInv, AllFit, Fits
  <2> QED BY <2>1, <2>5, <2>6
<1> QED BY <1>1, <1>2, ErasureOfImports

(* and an item is copied with its run.                                     *)
LEMMA CopyKeepsRuns ==
    ASSUME FenceInv, RowsInv, StepInv, FaithInv, RunsOfItems, kind = "imports",
           NEW r \in mig.left, Copies(r)
    PROVE  HasRuns(pend')
<1>1. Script = ImportScript /\ Len(Script) = 2
  BY ImportsAre, ImportScriptIs DEF Script
<1>2. /\ mig.at = "replay" /\ mig.step <= Len(Script)
      /\ \E verb : Script[mig.step][1] = verb /\ (verb = "with" => InsertItem(r)) /\ verb # "once"
  <2>1. Insert(r) \/ InsertItem(r) \/ InsertOnce(r) \/ InsertReview(r)
    BY DEF Copies
  <2>2. mig.at = "replay" /\ mig.step <= Len(Script)
    BY <2>1 DEF Insert, InsertItem, InsertOnce, InsertReview, Turn
  <2>3. mig.step \in {1, 2}
    BY <1>1, <2>2 DEF StepInv
  <2>4. Script[mig.step][1] \in {"skip", "with"}
    BY <1>1, <2>3, ImportScriptIs
  <2> QED BY <2>1, <2>2, <2>4 DEF Insert, InsertOnce, InsertReview, Turn
<1>3. mig.step \in {1, 2}
  BY <1>1, <1>2 DEF StepInv
<1>4. r \in Source(mig.sel, {Script[mig.step][2]})
  BY <1>2 DEF FaithInv
<1>5. \/ pend' = {} \/ pend' = pend
      \/ pend' = pend \cup {r} /\ (mig.step = 2 => \E p \in pend : p.tab = "import_runs" /\ p.id \in r.ref)
  <2>1. ASSUME mig.step = 2 PROVE InsertItem(r) /\ r.tab = "import_run_items"
    BY <1>1, <1>2, <1>4, <2>1, ImportScriptIs DEF Source
  <2>2. ~InsertOnce(r)
    BY <1>2 DEF InsertOnce, Turn
  <2>3. CASE InsertItem(r)
    <3>1. r.tab \in ImportTabs
      BY ImportsAre DEF RowsInv, AllFit, Fits
    <3>2. mig.step = 2
      BY <1>1, <1>3, <2>3, ImportScriptIs DEF InsertItem, Turn
    <3>3. Table(r.tab).parent = "import_runs"
      BY <2>1, <3>2, ImportsAre DEF RowsInv, Table
    <3> QED BY <2>3, <3>3 DEF InsertItem, Replayed
  <2>4. CASE Insert(r) \/ InsertReview(r)
    <3>1. mig.step # 2
      BY <1>1, <2>4, ImportScriptIs DEF Insert, InsertReview, Turn
    <3> QED BY <2>4, <3>1 DEF Insert, InsertReview, Replayed, Rollback
  <2> QED BY <2>2, <2>3, <2>4 DEF Copies
<1>6. CASE pend' = {} \/ pend' = pend
  BY <1>6 DEF RunsOfItems, HasRuns
<1>7. CASE pend' = pend \cup {r} /\ mig.step = 1
  <2>1. r.tab = "import_runs"
    BY <1>1, <1>4, <1>7, ImportScriptIs DEF Source
  <2> QED BY <1>7, <2>1 DEF RunsOfItems, HasRuns
<1>8. CASE pend' = pend \cup {r} /\ \E p \in pend : p.tab = "import_runs" /\ p.id \in r.ref
  <2>1. r \in OldRows("imports")
    BY DEF RowsInv
  <2>2. PICK o \in Owners : r = OldImport(o) \/ r = OldItem(o)
    BY <2>1, OldImports
  <2>3. r.ref = {} \/ r.ref = {o}
    BY <2>2 DEF OldImport, OldItem
  <2>4. PICK q \in pend : q.tab = "import_runs" /\ q.id \in r.ref
    BY <1>8
  <2>5. \A p \in r.ref : p = q.id
    BY <2>3, <2>4
  <2> HIDE DEF kind
  <2> QED BY <1>8, <2>4, <2>5 DEF RunsOfItems, HasRuns
<1> QED BY <1>3, <1>5, <1>6, <1>7, <1>8

(* So every item has its run, always.                                      *)
LEMMA RunsOfItemsStep ==
    ASSUME PlaneInv, FaithInv, RunsOfItems, [Next]_vars
    PROVE  RunsOfItems'
<1>1. kind' = kind
  BY StoreStays DEF PlaneInv, kind
<1> SUFFICES ASSUME kind = "imports"
             PROVE  HasRuns(db') /\ HasRuns(pend')
  BY <1>1 DEF RunsOfItems, HasRuns
<1>2. RowsInv /\ FenceInv /\ StepInv /\ HasRuns(db) /\ HasRuns(pend) /\ HasRuns({})
  BY DEF PlaneInv, RunsOfItems, HasRuns
<1>3. Rollback => HasRuns(db') /\ HasRuns(pend')
  <2>1. Rollback => db' = db /\ pend' = {}
    BY DEF Rollback
  <2> QED BY <1>2, <2>1
<1>4. UNCHANGED <<db, pend>> => HasRuns(db') /\ HasRuns(pend')
  BY <1>2 DEF HasRuns
<1>5. ASSUME NEW t \in Threads, LiveStep(t)
      PROVE  HasRuns(db') /\ HasRuns(pend')
  <2>1. CASE Begin(t)
    BY <1>4, <2>1 DEF Begin
  <2>2. CASE Write(t)
    <3>1. pend' = pend
      BY <2>2 DEF Write, Committed
    <3>2. HasRuns(db')
      BY <1>2, <2>2, WriteKeepsRuns
    <3> QED BY <1>2, <3>1, <3>2
  <2> QED BY <1>2, <1>5, <2>1, <2>2, ImportSteps
<1>6. CASE MigrationStep
  <2>1. CASE StartMigration \/ NextStatement \/ SetSequence
    BY <1>4, <2>1 DEF StartMigration, NextStatement, SetSequence, tableVars
  <2>2. CASE LockOwner
    BY <1>3, <1>4, <2>2 DEF LockOwner
  <2>3. CASE FinishMigration
    <3>1. db' = db \cup pend /\ pend' = {}
      BY <2>3 DEF FinishMigration, Visible
    <3> QED BY <1>2, <3>1 DEF HasRuns
  <2>4. ASSUME NEW r \in Upcoming, Check(r) \/ Parity(r)
        PROVE  HasRuns(db') /\ HasRuns(pend')
    <3>1. Rollback \/ UNCHANGED <<db, pend>>
      BY <2>4 DEF Check, Parity, Replayed
    <3> QED BY <1>3, <1>4, <3>1
  <2>5. ASSUME NEW r \in Upcoming, Copies(r)
        PROVE  HasRuns(db') /\ HasRuns(pend')
    <3>1. r \in mig.left
      BY DEF Upcoming
    <3>2. db' = db
      BY <1>2, <2>5, <3>1, CopiesAre
    <3>3. HasRuns(pend')
      BY <1>2, <2>5, <3>1, CopyKeepsRuns
    <3> QED BY <1>2, <3>2, <3>3
  <2> QED BY <1>6, <2>1, <2>2, <2>3, <2>4, <2>5 DEF MigrationStep, Copies
<1>7. CASE ErasureStep
  <2>1. pend' = pend
    BY <1>2, <1>7, NeighboursStay
  <2>2. HasRuns(db')
    BY <1>2, <1>7, ErasureKeepsRuns
  <2> QED BY <1>2, <2>1, <2>2
<1>8. CASE Crash
  <2>1. Rollback \/ UNCHANGED <<db, pend>>
    BY <1>8 DEF Crash, Ends, tableVars
  <2> QED BY <1>3, <1>4, <2>1
<1>9. ~Agents /\ \A t \in Threads : ~AgentStep(t)
  <2>1. ~Agents
    BY DEF Agents
  <2> QED BY <2>1, NoRequestsForEvents DEF PlaneInv
<1>10. CASE UNCHANGED vars
  BY <1>4, <1>10 DEF vars, tableVars
<1> QED BY <1>5, <1>6, <1>7, <1>8, <1>9, <1>10 DEF Next

(* A row that meets none but itself may be added.                          *)
LEMMA OneMore ==
    ASSUME NEW T, NEW D, NEW P, Unlike(T, P), Clear(T, D, P), NEW n,
           \A x \in P : x = n \/ ~Meets(x, n, T[n.tab].unique),
           \A x \in D : ~Meets(x, n, T[n.tab].unique)
    PROVE  Unlike(T, P \cup {n}) /\ Clear(T, D, P \cup {n})
<1>1. \A x : Meets(x, n, T[x.tab].unique) => x.tab = n.tab
  BY DEF Meets
<1>2. \A x : Meets(n, x, T[n.tab].unique) => Meets(x, n, T[n.tab].unique)
  BY MeetsBack
<1>3. Unlike(T, P \cup {n})
  BY <1>1, <1>2 DEF Unlike
<1>4. Clear(T, D, P \cup {n})
  BY <1>1 DEF Clear
<1> QED BY <1>3, <1>4

(* The stage that a run copies meets no row: its id is new.                *)
LEMMA StageIsNew ==
    ASSUME PlaneInv, CopiesInv, kind = "youtube", mig.at = "replay",
           NEW r \in OldRows("youtube"), r.tab = "youtube_pipeline_runs"
    PROVE  /\ \A x \in pend : x.tab = r.tab /\ x.id = StageOf(r, runs).id => x = StageOf(r, runs)
           /\ \A x \in db : x.tab = r.tab => x.id # StageOf(r, runs).id \/ x.id \notin Nat
           /\ StageOf(r, runs).tab = "youtube_pipeline_runs"
<1>1. runs \in Nat
  BY DEF PlaneInv, RowsInv
<1>2. /\ StageBase(runs) \in Nat /\ StageBase(runs) >= 100 + Leaver + MaxOps
      /\ r.owner \in Owners /\ StageOf(r, runs).tab = r.tab
      /\ StageOf(r, runs).id = StageBase(runs) + (IF r.owner = Leaver THEN 1 ELSE 0)
  BY <1>1, StageOfIs
<1>3. ASSUME NEW x \in pend, x.tab = r.tab, x.id = StageOf(r, runs).id
      PROVE  x = StageOf(r, runs)
  <2>1. x \notin OldRows("youtube")
    <3>1. SUFFICES ASSUME x \in OldRows("youtube") PROVE FALSE
      OBVIOUS
    <3>2. x.id = x.owner
      BY <1>3, <3>1, OldStages
    <3>3. x.owner \in Owners
      BY <3>1, <1>1, StageOfIs
    <3>4. x.owner <= Leaver /\ x.owner \in Nat
      BY <3>3, LeaverAssumption DEF Owners
    <3> QED BY <1>2, <1>3, <3>2, <3>4, LeaverAssumption, MaxOpsAssumption
  <2>2. x # ClaimOf(x.owner)
    BY <1>3 DEF ClaimOf, Ledger
  <2>3. PICK o \in OldRows("youtube") : o.tab = "youtube_pipeline_runs" /\ x = StageOf(o, runs)
    BY <2>1, <2>2 DEF CopiesInv, CopiesIn
  <2>4. /\ o.owner \in Owners
        /\ x.id = StageBase(runs) + (IF o.owner = Leaver THEN 1 ELSE 0)
    BY <1>1, <2>3, StageOfIs
  <2>5. o.owner = Leaver <=> r.owner = Leaver
    BY <1>2, <1>3, <2>4
  <2>6. o.owner = r.owner
    BY <1>2, <2>4, <2>5 DEF Owners
  <2>7. o = r
    BY <2>3, <2>6, OldStages
  <2> QED BY <2>3, <2>7
<1>4. ASSUME NEW x \in db, x.tab = r.tab, x.id \in Nat
      PROVE  x.id # StageOf(r, runs).id
  <2>1. x.id < Top(mig, runs)
    BY <1>4 DEF CopiesInv, StagesIn
  <2>2. Top(mig, runs) = StageBase(runs)
    BY <1>2 DEF Top
  <2> QED BY <1>2, <1>4, <2>1, <2>2
<1> QED BY <1>2, <1>3, <1>4

(* So are the claims and the stages told apart,                            *)
LEMMA OnceUnique ==
    ASSUME PlaneInv, StagesInv, TypedInv, UniqueInv, CopiesInv, NEW r \in mig.left, InsertOnce(r)
    PROVE  Unlike(store.tables, pend') /\ Clear(store.tables, db, pend')
<1> DEFINE T == store.tables
           c == ClaimOf(r.owner)
           s == StageOf(r, runs)
<1>1. /\ kind = "youtube" /\ r \in OldRows("youtube") /\ r.tab = "youtube_pipeline_runs"
      /\ Claim(r) = c /\ mig.at = "replay"
  BY OnceIs DEF InsertOnce, Turn
<1>2. pend' = pend \/ (c \notin db /\ pend' = (pend \cup {c}) \cup {s})
  <2>1. pend' = pend \/ (c \notin db /\ pend' = pend \cup {c, Stage(r)})
    BY <1>1 DEF InsertOnce, Replayed, Stage
  <2>2. Stage(r) = s
    BY StageIsOf
  <2> QED BY <2>1, <2>2
<1>3. Unlike(T, pend) /\ Clear(T, db, pend)
  BY DEF UniqueInv
<1>4. T[Ledger].unique = {"key"} /\ T["youtube_pipeline_runs"].unique = {"id"} /\ c.tab = Ledger
  BY <1>1, YouTubeIs, YouTubeHas, YouTubeNames DEF PlaneInv, RowsInv, ClaimOf
<1>5. /\ \A x \in pend : x.tab = r.tab /\ x.id = s.id => x = s
      /\ \A x \in db : x.tab = r.tab => x.id # s.id \/ x.id \notin Nat
      /\ s.tab = "youtube_pipeline_runs"
  BY <1>1, StageIsNew
<1>6. \A x \in db : x.tab = r.tab => x.id # s.id
  BY <1>5 DEF TypedInv, Typed
<1>7. ASSUME NEW x \in db \cup pend, x.tab = Ledger
      PROVE  x = ClaimOf(x.owner)
  <2>1. CASE x \in db
    BY <1>1, <1>7, <2>1 DEF CopiesInv, StagesIn
  <2>2. CASE x \in pend
    <3>1. StagesIn(pend, StageBase(runs) + 2)
      BY <1>1, CopiesBelow DEF CopiesInv, PlaneInv, RowsInv
    <3> QED BY <1>7, <2>2, <3>1 DEF StagesIn
  <2> QED BY <2>1, <2>2
<1>8. c.owner = r.owner
  BY DEF ClaimOf
<1> HIDE DEF c, s, T
<1>9. ASSUME c \notin db
      PROVE  Unlike(T, pend \cup {c}) /\ Clear(T, db, pend \cup {c})
  <2>1. \A x \in db \cup pend : Meets(x, c, T[c.tab].unique) => x.tab = Ledger /\ x.owner = c.owner
    BY <1>4 DEF Meets
  <2>2. \A x \in db \cup pend : Meets(x, c, T[c.tab].unique) => x = c
    BY <1>7, <1>8, <2>1 DEF c
  <2> QED BY <1>3, <1>9, <2>2, OneMore
<1>10. ASSUME c \notin db
       PROVE  Unlike(T, (pend \cup {c}) \cup {s}) /\ Clear(T, db, (pend \cup {c}) \cup {s})
  <2>1. \A x : Meets(x, s, T[s.tab].unique) => x.tab = r.tab /\ x.id = s.id
    BY <1>1, <1>4, <1>5, MeetsBy
  <2>2. \A x \in pend \cup {c} : x = s \/ ~Meets(x, s, T[s.tab].unique)
    BY <1>1, <1>4, <1>5, <2>1 DEF Ledger
  <2>3. \A x \in db : ~Meets(x, s, T[s.tab].unique)
    BY <1>6, <2>1
  <2> QED BY <1>9, <1>10, <2>2, <2>3, OneMore
<1> QED BY <1>2, <1>3, <1>10 DEF T

(* and so are the items of the imports:                                    *)
LEMMA ItemUnique ==
    ASSUME PlaneInv, UniqueInv, CopiesInv, RunsOfItems, NEW r \in mig.left, InsertItem(r)
    PROVE  Unlike(store.tables, pend') /\ Clear(store.tables, db, pend')
<1> DEFINE T == store.tables
<1>1. /\ mig.at = "replay" /\ Script[mig.step][1] = "with" /\ mig.step \in Nat \ {0}
      /\ mig.step <= Len(Script) /\ kind \in DOMAIN Kind /\ T = Kind[kind].tables
      /\ r \in OldRows(kind)
  BY DEF InsertItem, Turn, StepInv, PlaneInv, RowsInv
<1>2. kind = "imports"
  <2>1. Len(Script) \in Nat
    BY ScriptLength DEF PlaneInv
  <2>2. mig.step \in 1..Len(Script)
    BY <1>1, <2>1
  <2>3. Statement(kind, Script[mig.step])
    BY <2>2, StatementIs DEF PlaneInv
  <2> QED BY <1>1, <2>3 DEF Statement
<1>3. \/ pend' = pend
      \/ pend' = pend \cup {r} /\ \E p \in pend : p.tab = Table(r.tab).parent /\ p.id \in r.ref
  BY DEF InsertItem, Replayed
<1>4. CASE pend' = pend
  BY <1>4 DEF UniqueInv
<1>5. CASE pend' = pend \cup {r} /\ \E p \in pend : p.tab = Table(r.tab).parent /\ p.id \in r.ref
  <2>1. pend' \subseteq OldRows(kind)
    BY <1>1, <1>2, <1>5 DEF CopiesInv
  <2>2. Unlike(T, pend')
    BY <1>1, <2>1, OldUnlike, UnlikeParts
  <2>3. PICK p \in pend : p.tab = Table(r.tab).parent /\ p.id \in r.ref
    BY <1>5
  <2>4. PICK o \in Owners : r = OldImport(o) \/ r = OldItem(o)
    BY <1>1, <1>2, OldImports
  <2>5. r = OldItem(o)
    <3>1. OldImport(o).ref = {}
      BY DEF OldImport
    <3> QED BY <2>3, <2>4, <3>1
  <2>6. r.tab = "import_run_items" /\ r.ref = {p.id}
    BY <2>3, <2>5 DEF OldItem
  <2>7. /\ T["import_run_items"].unique = {"key"} /\ T["import_runs"].unique = {"id"}
        /\ p.tab = "import_runs"
    BY <1>1, <1>2, <2>3, <2>6, ImportsAre DEF Table
  <2>8. \A x \in db : ~Meets(x, r, T[r.tab].unique)
    <3> SUFFICES ASSUME NEW x \in db, Meets(x, r, T[r.tab].unique)
                 PROVE  FALSE
      OBVIOUS
    <3>1. x.tab = "import_run_items" /\ x.ref = {p.id}
      BY <2>6, <2>7 DEF Meets
    <3>2. PICK q \in db : q.tab = "import_runs" /\ q.id = p.id
      BY <1>2, <3>1 DEF RunsOfItems, HasRuns
    <3>3. Meets(q, p, T[q.tab].unique)
      BY <2>7, <3>2 DEF Meets
    <3> QED BY <3>3 DEF UniqueInv, Clear
  <2>9. Clear(T, db, pend)
    BY DEF UniqueInv
  <2>10. \A x : Meets(x, r, T[x.tab].unique) => x.tab = r.tab
    BY DEF Meets
  <2> HIDE DEF T
  <2>11. Clear(T, db, pend \cup {r})
    BY <2>8, <2>9, <2>10 DEF Clear
  <2> QED BY <1>5, <2>2, <2>11 DEF T
<1> QED BY <1>3, <1>4, <1>5

(* what is copied is told apart from all rows.                             *)
LEMMA CopyUnique ==
    ASSUME PlaneInv, StagesInv, TypedInv, UniqueInv, CopiesInv, RunsOfItems, NEW r \in mig.left, Copies(r)
    PROVE  Unlike(store.tables, pend') /\ Clear(store.tables, db', pend')
<1>1. db' = db
  BY CopiesAre DEF PlaneInv
<1>2. CASE InsertOnce(r)
  BY <1>1, <1>2, OnceUnique
<1>3. CASE InsertItem(r)
  BY <1>1, <1>3, ItemUnique
<1>4. CASE ~InsertOnce(r) /\ ~InsertItem(r)
  <2>1. CASE pend' \subseteq pend
    <3>1. Unlike(store.tables, pend')
      BY <2>1, UnlikeParts DEF UniqueInv
    <3>2. Clear(store.tables, db', pend')
      BY <1>1, <2>1 DEF UniqueInv, Clear
    <3> QED BY <3>1, <3>2
  <2>2. CASE ~(pend' \subseteq pend)
    <3>1. pend' = pend \cup {r}
      BY <1>4, <2>2, CopiesAre DEF PlaneInv
    <3>2. r \notin pend
      BY <2>2, <3>1
    <3>3. InTheWay(r, Visible) = {}
      BY <1>4, <2>2, <3>2, CopiesAre DEF PlaneInv
    <3>4. \A x \in Visible : ~Meets(x, r, store.tables[r.tab].unique)
      BY <3>3, NotInTheWay, MeetsBack
    <3>5. Unlike(store.tables, pend) /\ Clear(store.tables, db, pend)
      BY DEF UniqueInv
    <3>6. /\ \A x \in pend : x = r \/ ~Meets(x, r, store.tables[r.tab].unique)
          /\ \A x \in db : ~Meets(x, r, store.tables[r.tab].unique)
      BY <3>4 DEF Visible
    <3> QED BY <1>1, <3>1, <3>5, <3>6, OneMore
  <2> QED BY <2>1, <2>2
<1> QED BY <1>2, <1>3, <1>4

-----------------------------------------------------------------------------
(* Every step leaves the rows told apart.                                  *)
LEMMA UniqueStep ==
    ASSUME PlaneInv, AgentsInv, TypedInv, LinksInv, LocksInv, StagesInv, CopiesInv, RunsOfItems,
           UniqueInv, [Next]_vars
    PROVE  UniqueInv'
<1>1. store' = store
  BY StoreStays DEF PlaneInv
<1>2. /\ FenceInv /\ RowsInv
      /\ Unlike(store.tables, db) /\ Unlike(store.tables, pend) /\ Clear(store.tables, db, pend)
  BY DEF PlaneInv, UniqueInv
<1>3. /\ Unlike(store.tables, db') /\ Unlike(store.tables, pend')
      /\ Clear(store.tables, db', pend')
  <2>1. CASE db' \subseteq db /\ pend' \subseteq pend
    <3>1. Unlike(store.tables, db') /\ Unlike(store.tables, pend')
      BY <1>2, <2>1, UnlikeParts
    <3>2. Clear(store.tables, db', pend')
      BY <1>2, <2>1 DEF Clear
    <3> QED BY <3>1, <3>2
  <2>2. ASSUME NEW t \in Threads, Writes(t), pend' = pend
        PROVE  /\ Unlike(store.tables, db') /\ Unlike(store.tables, pend')
               /\ Clear(store.tables, db', pend')
    <3>1. Unlike(store.tables, db') /\ Clear(store.tables, db', pend)
      BY <1>2, <2>2, WriteUnique, MergeUnique, LocalMergeUnique DEF Writes
    <3> QED BY <1>2, <2>2, <3>1
  <2>3. ASSUME NEW t \in Threads, AgentStep(t), Agents, pend' = pend
        PROVE  /\ Unlike(store.tables, db') /\ Unlike(store.tables, pend')
               /\ Clear(store.tables, db', pend')
    <3>1. Unlike(store.tables, db') /\ Clear(store.tables, db', pend)
      BY <2>3, AgentUnique
    <3> QED BY <1>2, <2>3, <3>1
  <2>4. CASE FinishMigration
    <3>1. db' = db \cup pend /\ pend' = {}
      BY <2>4 DEF FinishMigration, Visible
    <3>2. Unlike(store.tables, db')
      BY <1>2, <3>1, UnlikeUnion
    <3> QED BY <3>1, <3>2 DEF Unlike, Clear
  <2>5. ASSUME NEW r \in mig.left, Copies(r)
        PROVE  /\ Unlike(store.tables, db') /\ Unlike(store.tables, pend')
               /\ Clear(store.tables, db', pend')
    <3>1. db' = db
      BY <1>2, <2>5, CopiesAre
    <3> QED BY <1>2, <2>5, <3>1, CopyUnique
  <2> QED BY <2>1, <2>2, <2>3, <2>4, <2>5, RowsCome
<1>4. ASSUME NEW t \in Threads
      PROVE  Unlike(store.tables, tx'[t].seen)
  <2>1. CASE tx'[t] = Idle
    BY <2>1 DEF Idle, Unlike
  <2>2. CASE Open(t) /\ SameTx(tx[t], tx'[t])
    BY <2>2 DEF SameTx, UniqueInv
  <2>3. CASE Begin(t) \/ MergeReads(t)
    <3>1. tx'[t].seen \subseteq db
      BY <1>2, <2>3, BegunIs, MergingIs, SeenIsThere
    <3> QED BY <1>2, <3>1, UnlikeParts
  <2> QED BY <2>1, <2>2, <2>3, TxMoves DEF Goes
<1> QED BY <1>1, <1>3, <1>4 DEF UniqueInv

(* At first there is nothing but old rows, of the agents the awaiting run. *)
FirstRuns == {OldRun(1, "old"), OldCall(1), OldRun(Leaver, "awaiting_approval")}
LEMMA FirstRows ==
    ASSUME Init
    PROVE  /\ kind \in DOMAIN Kind /\ store.tables = Kind[kind].tables
           /\ IF kind \in {"agents", "local_agents"} THEN db \subseteq FirstRuns
              ELSE db \subseteq OldRows(kind)
           /\ pend = {} /\ seq = 1 /\ tx = [t \in Threads |-> Idle] /\ mig.at = "none" /\ runs = 0
<1>1. PICK k \in DOMAIN Kind : \E rows \in Targets(k) :
         TablesInit(k, IF k \in {"agents", "local_agents"} THEN Awaiting(rows) ELSE rows)
  BY DEF Init
<1>2. PICK rows \in Targets(k) :
         TablesInit(k, IF k \in {"agents", "local_agents"} THEN Awaiting(rows) ELSE rows)
  BY <1>1
<1>3. kind = k /\ store.tables = Kind[k].tables
  BY <1>2 DEF TablesInit, kind
<1>4. /\ db = (IF k \in {"agents", "local_agents"} THEN Awaiting(rows) ELSE rows)
      /\ tx = [t \in Threads |-> Idle] /\ pend = {} /\ seq = 1
  BY <1>2 DEF TablesInit
<1>5. rows \subseteq OldRows(k)
  BY <1>2, TargetsAreOld
<1>6. k \in {"agents", "local_agents"} => Awaiting(rows) \subseteq FirstRuns
  BY <1>5, AwaitingAre DEF FirstRuns
<1>7. mig.at = "none" /\ runs = 0
  BY DEF Init, MigrationInit, NoRun
<1> HIDE DEF kind
<1> QED BY <1>3, <1>4, <1>5, <1>6, <1>7

(* They are typed,                                                         *)
LEMMA TypedInit == Init => TypedInv
<1> SUFFICES ASSUME Init PROVE TypedInv
  OBVIOUS
<1>1. \A r \in db : Typed(r)
  <2>1. \A r \in FirstRuns : Typed(r)
    BY LeaverAssumption DEF FirstRuns, OldRun, OldCall, Typed, Bodies
  <2> QED BY <2>1, FirstRows, OldTyped
<1>2. \A t \in Threads : TypedTx(tx[t]) /\ ~Open(t)
  BY FirstRows DEF TypedTx, Idle, Open
<1>3. kind = "events" => EventsUpTo(Leaver)
  <2>1. kind = "events" => \A r \in db : r.id \in Owners
    BY FirstRows, OldEvents
  <2>2. \A o \in Owners : o <= Leaver
    BY LeaverAssumption DEF Owners
  <2> QED BY <1>2, <2>1, <2>2, FirstRows DEF EventsUpTo
<1>4. Leaver \in Nat
  BY LeaverAssumption
<1> QED BY <1>1, <1>2, <1>3, <1>4, FirstRows DEF TypedInv

(* linked, and no transaction is open,                                     *)
LEMMA LinksInit == Init => LinksInv
<1> SUFFICES ASSUME Init, Graphs PROVE LinksInv
  BY DEF LinksInv
<1>1. \A r \in db \cup pend : Linking(r)
  <2>1. kind \notin {"agents", "local_agents"}
    BY DEF Graphs
  <2> QED BY <2>1, FirstRows, OldTyped
<1>2. \A t \in Threads : LinksTo(tx[t])
  BY FirstRows DEF LinksTo, Idle
<1> QED BY <1>1, <1>2 DEF LinksInv

(* no row is locked,                                                       *)
LEMMA LocksInit == Init => LocksInv
<1> SUFFICES ASSUME Init PROVE LocksInv
  OBVIOUS
<1>1. \A t \in Threads : Locked(t) = {}
  <2>1. \A t \in Threads : tx[t] = Idle
    BY FirstRows
  <2> QED BY <2>1, LockedByIs
<1> QED BY <1>1 DEF LocksInv

(* told apart,                                                             *)
LEMMA UniqueInit == Init => UniqueInv
<1> SUFFICES ASSUME Init PROVE UniqueInv
  OBVIOUS
<1>1. CASE kind \notin {"agents", "local_agents"}
  <2>1. Unlike(store.tables, db)
    BY <1>1, FirstRows, OldUnlike, UnlikeParts
  <2> QED BY <2>1, FirstRows DEF UniqueInv, Unlike, Clear, Idle
<1>2. CASE kind \in {"agents", "local_agents"}
  <2>1. /\ store.tables["agent_runs"].unique = {"id"}
        /\ store.tables["agent_tool_calls"].unique = {"id"}
    BY <1>2, FirstRows, AgentTabsAre
  <2>2. \A r \in FirstRuns : r.tab \in {"agent_runs", "agent_tool_calls"}
    BY DEF FirstRuns, OldRun, OldCall
  <2>3. \A r, s \in FirstRuns : r.tab = s.tab /\ r.id = s.id => r = s
    <3>1. /\ OldRun(1, "old").tab = "agent_runs" /\ OldRun(1, "old").id = 1
          /\ OldCall(1).tab = "agent_tool_calls"
          /\ OldRun(Leaver, "awaiting_approval").tab = "agent_runs"
          /\ OldRun(Leaver, "awaiting_approval").id = Leaver
      BY DEF OldRun, OldCall
    <3>2. Leaver # 1
      BY LeaverAssumption
    <3> QED BY <3>1, <3>2 DEF FirstRuns
  <2>4. \A r, s \in FirstRuns : r = s \/ ~Meets(r, s, store.tables[r.tab].unique)
    BY <2>1, <2>2, <2>3 DEF Meets
  <2>5. Unlike(store.tables, db)
    BY <1>2, <2>4, FirstRows DEF Unlike
  <2> QED BY <2>5, FirstRows DEF UniqueInv, Unlike, Clear, Idle
<1> QED BY <1>1, <1>2

(* below all that will be copied,                                          *)
LEMMA CopiesInit == Init => CopiesInv
<1> SUFFICES ASSUME Init PROVE CopiesInv
  OBVIOUS
<1>1. kind = "youtube" => StagesIn(db, Top(mig, runs))
  <2>1. kind = "youtube" => CopiesIn(db, 0)
    BY FirstRows DEF CopiesIn
  <2>2. Top(mig, runs) = StageBase(0) + 2
    BY FirstRows DEF Top
  <2> QED BY <2>1, <2>2, CopiesBelow
<1>2. \A t \in Threads : ~Open(t)
  BY FirstRows DEF Open
<1> QED BY <1>1, <1>2, FirstRows DEF CopiesInv, CopiesIn

(* and of the imports there are none.                                      *)
LEMMA RunsOfItemsInit == Init => RunsOfItems
<1> SUFFICES ASSUME Init, kind = "imports" PROVE RunsOfItems
  BY DEF RunsOfItems
<1>1. PICK k \in DOMAIN Kind : \E rows \in Targets(k) :
         TablesInit(k, IF k \in {"agents", "local_agents"} THEN Awaiting(rows) ELSE rows)
  BY DEF Init
<1>2. k = "imports"
  BY <1>1 DEF TablesInit, kind
<1>3. PICK rows \in Targets("imports") : TablesInit("imports", rows)
  BY <1>1, <1>2
<1> DEFINE s == Kind["imports"].script
           scripted == {s[n][2] : n \in 1..Len(s)}
<1>4. ImportTabs \subseteq scripted
  <2>1. 1 \in 1..Len(s) /\ 2 \in 1..Len(s)
    BY ImportsAre, ImportScriptIs
  <2>2. s[1][2] = "import_runs" /\ s[2][2] = "import_run_items"
    BY ImportsAre, ImportScriptIs
  <2> HIDE DEF s
  <2> QED BY <2>1, <2>2 DEF ImportTabs
<1>5. rows \subseteq {r \in OldRows("imports") : r.tab \notin scripted}
  BY <1>3 DEF Targets
<1> HIDE DEF scripted
<1>6. \A r \in OldRows("imports") : r.tab \in ImportTabs
  BY OldImports DEF OldImport, OldItem, ImportTabs
<1>7. db = {} /\ pend = {}
  BY <1>3, <1>4, <1>5, <1>6 DEF TablesInit
<1> QED BY <1>7 DEF RunsOfItems, HasRuns

-----------------------------------------------------------------------------
(* The inductive invariant of TypeOK: what the plane keeps, and that its   *)
(* rows are typed, linked, locked, copied and told apart as they are.      *)
TypingInv ==
    /\ PlaneInv /\ AgentsInv /\ ControlInv /\ TypedInv /\ UniqueInv /\ LinksInv /\ LocksInv
    /\ StagesInv /\ CopiesInv /\ FaithInv /\ RunsOfItems

(* Every step keeps it,                                                    *)
LEMMA TypingStep == TypingInv /\ [Next]_vars => TypingInv'
BY PlaneStep, ControlStep, TypedStep, UniqueStep, LinksStep, LocksStep, StagesStep, CopiesStep,
   FaithStep, RunsOfItemsStep
   DEF TypingInv

(* it holds at first,                                                      *)
LEMMA TypingInit == Init => TypingInv
BY PlaneInit, ControlInit, TypedInit, UniqueInit, LinksInit, LocksInit, StagesInit, CopiesInit,
   FaithInit, RunsOfItemsInit
   DEF TypingInv

(* and says what TypeOK says.                                              *)
LEMMA TypingIs == TypingInv => TypeOK
<1> SUFFICES ASSUME TypingInv PROVE TypeOK
  OBVIOUS
<1>1. PlaneInv /\ ControlInv /\ TypedInv /\ UniqueInv /\ RowsInv /\ ErasingInv
  BY DEF TypingInv, PlaneInv
<1>2. /\ kind \in DOMAIN Kind /\ store = [name |-> kind, tables |-> Kind[kind].tables]
      /\ seq \in Nat /\ ops \in 0..MaxOps
  BY <1>1 DEF ControlInv, RowsInv, TypedInv
<1>3. \A r \in db \cup pend :
         /\ r.tab \in DOMAIN store.tables /\ r.owner \in Owners
         /\ r.id \in Nat /\ r.key \in {1, 2} /\ r.ref \subseteq Nat /\ r.body \in Bodies
  BY <1>1, DbRows DEF TypedInv, Typed
<1>4. \A r, s \in db \cup pend : r = s \/ ~Meets(r, s, Table(r.tab).unique)
  <2>1. Unlike(store.tables, db \cup pend)
    BY <1>1, UnlikeUnion DEF UniqueInv
  <2> QED BY <2>1 DEF Unlike, Table
<1>5. ASSUME NEW t \in Threads
      PROVE  /\ DOMAIN tx[t] = DOMAIN Idle
             /\ Open(t) => tx[t].write \in Kind[kind].writes
             /\ agent[t].at \in {"idle", "approve", "call", "tool", "completed", "failed"}
  <2>1. TxFits(kind, tx[t])
    BY <1>1 DEF RowsInv, TxsFit
  <2>2. DOMAIN tx[t] = DOMAIN Idle
    <3> DEFINE x == tx[t]
    <3>1. x = [write |-> x.write, key |-> x.key, id |-> x.id, seen |-> x.seen, crossed |-> x.crossed]
      BY <2>1 DEF TxFits
    <3>2. DOMAIN x = {"write", "key", "id", "seen", "crossed"}
      BY <3>1
    <3>3. DOMAIN Idle = {"write", "key", "id", "seen", "crossed"}
      BY DEF Idle
    <3> QED BY <3>2, <3>3
  <2>3. Open(t) => tx[t].write \in Kind[kind].writes
    BY <1>1, OpenFits
  <2>4. agent[t].at \in {"idle", "approve", "call", "tool", "completed", "failed"}
    BY <1>1 DEF ControlInv, Ats
  <2> QED BY <2>2, <2>3, <2>4
<1>6. /\ locks \subseteq Owners /\ settled \subseteq Owners
      /\ fenced \in BOOLEAN /\ overtaken \in BOOLEAN /\ muddled \in BOOLEAN
      /\ mig.at \in {"none", "lock", "replay"} /\ mig.step \in 0..(Len(Script) + 1)
      /\ runs \in 0..MaxRuns /\ faults \in 0..MaxFaults
  BY <1>1 DEF ControlInv, PlaneInv
<1>7. er.at \in 0..(Last + 1) /\ er.errors \in BOOLEAN /\ er.done \in BOOLEAN
  BY <1>1 DEF ErasingInv
<1> HIDE DEF kind
<1> QED BY <1>2, <1>3, <1>4, <1>5, <1>6, <1>7 DEF TypeOK

(* Whatever the users, the migrations and the erasure do at once, every    *)
(* row stays well-formed, in a table of its store and of an owner, no two  *)
(* rows are of one id or of one meaning where a table tells rows apart by  *)
(* it, those that a migration has not yet committed included, and all that *)
(* runs is where the code can be.                                          *)
THEOREM PlaneTyped == Spec => []TypeOK
<1>1. Spec => []TypingInv
  BY TypingInit, TypingStep, PTL DEF Spec
<1> QED BY <1>1, TypingIs, PTL
================================================================================
