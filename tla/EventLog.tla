-------------------------------- MODULE EventLog --------------------------------
(***************************************************************************)
(* The event bus.  An event is stored first, then posted to the webhooks   *)
(* subscribed by then, each on its own and once.  Whoever follows the log  *)
(* asks for what comes after the last id it was given.                     *)
(***************************************************************************)
EXTENDS Requests

CONSTANT Hooks

VARIABLES
    log,        \* the ids of the committed events
    drawn,      \* the last id that was handed out
    late,       \* ids committed after a greater one (history)
    hooks,      \* the subscribed webhooks
    reader,     \* the last id a follower was given, and all it was given
    emit        \* the event a thread is emitting
logVars == <<log, drawn, late, hooks, reader, emit>>

LogInit ==
    /\ log = {} /\ drawn = 0 /\ late = {} /\ hooks = {}
    /\ reader = [cursor |-> 0, read |-> {}]
    /\ emit = [t \in Threads |-> Rest]

Quiet(t) == emit[t] = Rest
Emits(t) == emit' = [emit EXCEPT ![t] = [at |-> "store"]]
Stays(t) == emit' = [emit EXCEPT ![t] = Rest]

-----------------------------------------------------------------------------
(* SQLite has one writer: an id is drawn and committed in one go.          *)
Store(t) ==
    /\ emit[t].at = "store"
    /\ drawn' = drawn + 1
    /\ log' = IF local THEN log \cup {drawn + 1} ELSE log
    /\ emit' = [emit EXCEPT ![t] = [at |-> IF local THEN "stored" ELSE "commit", id |-> drawn + 1]]
    /\ UNCHANGED <<late, hooks, reader>>

Commit(t) ==
    /\ emit[t].at = "commit"
    /\ log' = log \cup {emit[t].id}
    /\ late' = IF \E e \in log : e > emit[t].id THEN late \cup {emit[t].id} ELSE late
    /\ emit' = [emit EXCEPT ![t].at = "stored"]
    /\ UNCHANGED <<drawn, hooks, reader>>

FindHooks(t) ==
    /\ emit[t].at = "stored"
    /\ emit' = [emit EXCEPT ![t] = IF hooks = {} THEN Rest ELSE [at |-> "post", left |-> hooks]]
    /\ UNCHANGED <<log, drawn, late, hooks, reader>>

(* A delivery that fails is logged and not repeated.                       *)
Post(t) ==
    /\ emit[t].at = "post"
    /\ \E h \in emit[t].left :
          emit' = [emit EXCEPT ![t] = IF @.left = {h} THEN Rest ELSE [at |-> "post", left |-> @.left \ {h}]]
    /\ UNCHANGED <<log, drawn, late, hooks, reader>>

EmitStep(t) == Store(t) \/ Commit(t) \/ FindHooks(t) \/ Post(t)

-----------------------------------------------------------------------------
Subscribe ==
    \E h \in Hooks \ hooks : hooks' = hooks \cup {h} /\ UNCHANGED <<log, drawn, late, reader, emit>>
Unsubscribe ==
    \E h \in hooks : hooks' = hooks \ {h} /\ UNCHANGED <<log, drawn, late, reader, emit>>

(* A page of one event.                                                    *)
Following(cursor) == {e \in log : e > cursor}
Page(cursor) == {e \in Following(cursor) : \A f \in Following(cursor) : e <= f}
(* Mutant of NextAfter: on to the end of the log, not of the page.         *)
EndOfLog(cursor) == {e \in log : \A f \in log : f <= e}
NextAfter(cursor) == Page(cursor)
ListEvents ==
    /\ Following(reader.cursor) # {}
    /\ \E next \in NextAfter(reader.cursor) :
          reader' = [cursor |-> next, read |-> reader.read \cup Page(reader.cursor)]
    /\ UNCHANGED <<log, drawn, late, hooks, emit>>
=============================================================================
