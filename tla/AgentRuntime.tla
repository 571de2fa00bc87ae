----------------------------- MODULE AgentRuntime -----------------------------
(***************************************************************************)
(* The agent runtime: a run asks for one tool; a tool that writes waits    *)
(* for an approval first.  The run and its tool call are rows, written in  *)
(* transactions of their own, and the tool is invoked between them.        *)
(***************************************************************************)
EXTENDS TenantWrites

VARIABLES
    agent,      \* the request each thread is serving
    doubled     \* runs that two threads served at once (history)
agentVars == <<agent, doubled>>

NoRequest == [at |-> "idle", run |-> 0, call |-> 0]
AgentInit == agent = [t \in Threads |-> NoRequest] /\ doubled = {}

Agents == kind \in {"agents", "local_agents"}
Runs == {r \in db : r.tab = "agent_runs"}
Calls == {c \in db : c.tab = "agent_tool_calls"}
Serves(t, id) == agent[t].at # "idle" /\ agent[t].run = id
WithStatus(rows, status) == {[r EXCEPT !.body = status] : r \in rows}

AgentRow(tab, id, ref, status) ==
    [tab |-> tab, owner |-> Leaver, id |-> id, key |-> 1, ref |-> ref, body |-> status]

(* A transaction: it asks the fence under its lock, writes and commits.    *)
Stored(rows) ==
    /\ ~fenced /\ db' = rows /\ settled' = {}
    /\ UNCHANGED <<store, seq, tx, pend, locks, fenced, overtaken, muddled>>
Moves(t, at) == agent' = [agent EXCEPT ![t].at = at]

(* run: the row, and the tool at once unless it is a write without policy  *)
(* and approval.                                                           *)
Run(t) ==
    \E gated \in BOOLEAN :
       LET status == IF gated THEN "awaiting_approval" ELSE "running" IN
       /\ Agents /\ agent[t] = NoRequest /\ ops < MaxOps
       /\ Stored(db \cup {AgentRow("agent_runs", NewId, {}, status)})
       /\ agent' = IF gated THEN agent
                   ELSE [agent EXCEPT ![t] = [at |-> "call", run |-> NewId, call |-> 0]]
       /\ ops' = ops + 1
       /\ UNCHANGED doubled

(* approve reads the status,                                               *)
(* Mutant of MayApprove: only the policy is looked at.                     *)
MayApproveAny(r) == r.owner = Leaver
MayApprove(r) == r.owner = Leaver /\ r.body = "awaiting_approval"
Approve(t) ==
    /\ Agents /\ agent[t] = NoRequest /\ ops < MaxOps
    /\ \E r \in {x \in Runs : MayApprove(x)} :
          /\ agent' = [agent EXCEPT ![t] = [at |-> "approve", run |-> r.id, call |-> 0]]
          /\ doubled' = doubled \cup {id \in {r.id} : \E u \in Threads : Serves(u, id)}
    /\ ops' = ops + 1
    /\ UNCHANGED <<store, db, seq, tx, pend, locks, fenced, overtaken, settled, muddled>>

(* and sets the run running whatever it has become.                        *)
SetRunning(t) ==
    LET run == {r \in Runs : r.id = agent[t].run} IN
    /\ agent[t].at = "approve"
    /\ Stored((db \ run) \cup WithStatus(run, "running"))
    /\ Moves(t, "call")
    /\ UNCHANGED <<ops, doubled>>

CreateToolCall(t) ==
    LET id == 200 + Cardinality(Calls) IN
    /\ agent[t].at = "call" /\ \E r \in Runs : r.id = agent[t].run
    /\ Stored(db \cup {AgentRow("agent_tool_calls", id, {agent[t].run}, "running")})
    /\ agent' = [agent EXCEPT ![t].at = "tool", ![t].call = id]
    /\ UNCHANGED <<ops, doubled>>

(* The tool, a search or a write through another store, or its exception.  *)
InvokeTool(t) ==
    /\ agent[t].at = "tool"
    /\ \E outcome \in {"completed", "failed"} : Moves(t, outcome)
    /\ UNCHANGED <<tableVars, doubled>>

(* mark_completed, mark_failed: the call and the run in one transaction.   *)
(* Mutant of Marked: the run is left as it is.                             *)
MarkedCall(t) == {c \in Calls : c.id = agent[t].call}
Marked(t) == {c \in Calls : c.id = agent[t].call} \cup {r \in Runs : r.id = agent[t].run}
Mark(t) ==
    /\ agent[t].at \in {"completed", "failed"}
    /\ Stored((db \ Marked(t)) \cup WithStatus(Marked(t), agent[t].at))
    /\ agent' = [agent EXCEPT ![t] = NoRequest]
    /\ UNCHANGED <<ops, doubled>>

(* The request ends in an exception: the fence, or an event that cannot be *)
(* stored.                                                                 *)
Ends(t) ==
    /\ agent[t] # NoRequest /\ agent' = [agent EXCEPT ![t] = NoRequest]
    /\ UNCHANGED <<tableVars, doubled>>
Refused(t) == fenced /\ agent[t].at \in {"approve", "call", "completed", "failed"} /\ Ends(t)

AgentStep(t) ==
    Run(t) \/ Approve(t) \/ SetRunning(t) \/ CreateToolCall(t) \/ InvokeTool(t) \/ Mark(t) \/ Refused(t)
===============================================================================
