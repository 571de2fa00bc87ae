----------------------------- MODULE TenantWrites -----------------------------
(***************************************************************************)
(* The live writes of the stores, on behalf of one user.  A write is one   *)
(* transaction: it takes the shared lock of the erasure fence, refuses if  *)
(* the user is fenced, reads what it decides on, and in a later step       *)
(* writes and commits.  Deletions take no lock and ask nobody.  The local  *)
(* stores have no fence: for them nobody is ever fenced.                   *)
(***************************************************************************)
EXTENDS LocalTables, FiniteSets

CONSTANTS Threads, MaxOps
ASSUME MaxOpsAssumption == MaxOps \in Nat

VARIABLES
    store,      \* the store this behaviour is about: its name and its tables
    db,         \* the committed rows
    seq,        \* the next id of the events' sequence
    tx,         \* the open transaction of each thread
    pend,       \* the uncommitted rows of the migration
    locks,      \* the owners whose shared lock the migration holds
    fenced,     \* the leaver's account is fenced
    overtaken,  \* something was committed since the migration began (history)
    settled,    \* owners migrated, with nothing committed since (history)
    muddled,    \* the sequence was moved under an open event (history)
    ops

tableVars == <<store, db, seq, tx, pend, locks, fenced, overtaken, settled, muddled, ops>>

Idle == [write |-> <<>>, key |-> 0, id |-> 0, seen |-> {}, crossed |-> FALSE]
kind == store.name
Table(tab) == store.tables[tab]
Open(t) == tx[t] # Idle
Tabs(t) == DOMAIN tx[t].write
Verb(t, tab) == tx[t].write[tab]
Merges(w) == "kg_entities" \in DOMAIN w /\ w["kg_entities"] \in {"merge", "join"}
Drops(w) == \E tab \in DOMAIN w : w[tab] = "drop"

Rows(o, tabs) == {r \in db : r.owner = o /\ r.tab \in tabs}
Parents(tab) ==
    {p \in Rows(Leaver, {Table(tab).parent}) : p.key \in Table(tab).refs}

TablesInit(k, rows) ==
    /\ store = [name |-> k, tables |-> Kind[k].tables] /\ db = rows
    /\ seq = 1 /\ tx = [t \in Threads |-> Idle]
    /\ pend = {} /\ locks = {} /\ fenced = FALSE
    /\ overtaken = FALSE /\ settled = {} /\ muddled = FALSE /\ ops = 0

-----------------------------------------------------------------------------
(* What the statements of an open write see: its rows and their parents.   *)
Sees(tabs, key) ==
    {r \in Rows(Leaver, tabs) : r.key = key}
        \cup UNION {Parents(tab) : tab \in tabs}

(* SELECT ... FOR UPDATE, held until the end of the transaction.  A merge  *)
(* in Postgres locks the relations, too.                                   *)
Locking(w) == \E tab \in DOMAIN w : w[tab] \in {"put", "merge"}
Locked(t) ==
    IF Locking(tx[t].write)
    THEN {r \in tx[t].seen : r.tab \in Tabs(t) \cup {"kg_relations"}} ELSE {}
LockedByOthers(t) == UNION {Locked(u) : u \in Threads \ {t}}

(* Every parent that is not written along with its children is there; so   *)
(* is one that is updated along with them.                                 *)
Owned(w) ==
    \A tab \in DOMAIN w :
       \/ Table(tab).parent = ""
       \/ Table(tab).parent \in DOMAIN w /\ w[Table(tab).parent] # "update"
       \/ {p.key : p \in Parents(tab)} = Table(tab).refs

Admitted == ~fenced
NewId == 100 + Leaver + ops     \* above the ids of the old rows

Begin(t) ==
    /\ ~Open(t) /\ ops < MaxOps
    /\ \E w \in Kind[kind].writes : \E key \in UNION {Table(tab).keys : tab \in DOMAIN w} :
       /\ ~Drops(w) /\ ~Merges(w) /\ Admitted /\ Owned(w)
       /\ Locking(w) => Sees(DOMAIN w, key) \cap LockedByOthers(t) = {}
       /\ tx' = [tx EXCEPT ![t] = [write |-> w, key |-> key,
                                   id |-> IF kind = "events" THEN seq ELSE NewId,
                                   seen |-> Sees(DOMAIN w, key), crossed |-> FALSE]]
       /\ seq' = IF kind = "events" THEN seq + 1 ELSE seq
       /\ ops' = ops + 1
       /\ UNCHANGED <<store, db, pend, locks, fenced, overtaken, settled, muddled>>

(* t commits; whoever else is in the middle of something was overtaken.    *)
Committed(t, rows) ==
    /\ db' = rows
    /\ tx' = [u \in Threads |-> IF u = t \/ ~Open(u) THEN Idle
                                ELSE [tx[u] EXCEPT !.crossed = @ \/ rows # db]]
    /\ overtaken' = (overtaken \/ rows # db)
    /\ settled' = IF rows = db THEN settled ELSE {}
    /\ UNCHANGED <<store, seq, pend, locks, fenced, muddled>>

-----------------------------------------------------------------------------
Named(t, tab, rows) == {r \in rows : r.tab = tab /\ r.owner = Leaver /\ r.key = tx[t].key}

(* The row t writes to a table; a child written along with its parent      *)
(* points to the row that stands for the parent.  A memory that was read   *)
(* is written under its id, be it there or not.                            *)
Standing(t, tab) ==
    LET found == Named(t, tab, IF Verb(t, tab) \in {"find", "revive", "update"} THEN tx[t].seen ELSE db)
    IN IF "key" \in Table(tab).unique /\ found # {} /\ Verb(t, tab) # "replace"
       THEN {r.id : r \in found} ELSE {IdOf(Table(tab), tx[t].key, tx[t].id)}
Written(t, tab) ==
    [tab |-> tab, owner |-> Leaver, key |-> tx[t].key, body |-> "live",
     id |-> IF Verb(t, tab) = "revive" THEN CHOOSE id \in Standing(t, tab) : TRUE
            ELSE IdOf(Table(tab), tx[t].key, tx[t].id),
     ref |-> IF Table(tab).parent \in Tabs(t) THEN Standing(t, Table(tab).parent)
             ELSE {p.id : p \in {q \in tx[t].seen : q.tab = Table(tab).parent}}]

(* What a write has found when it comes to a table: all rows of the user,  *)
(* the row that ON CONFLICT meets at the time of the write, or the first   *)
(* of those that an earlier SELECT saw.                                    *)
First(rows) == {r \in rows : \A q \in rows : r.id <= q.id}
Decides(t, tab) ==
    LET same(rows) == {r \in rows : Meets(r, Written(t, tab), {"key"})}
    IN CASE Verb(t, tab) = "update" -> Rows(Leaver, {tab})
         [] Verb(t, tab) \in {"upsert", "replace"} -> same(db)
         [] Verb(t, tab) \in {"find", "put", "revive"} -> First(same(tx[t].seen))
         [] OTHER -> {}
(* What it updates or replaces: the rows that still have those ids.        *)
Finds(t, tab) ==
    {r \in Rows(Leaver, {tab}) : \E f \in Decides(t, tab) :
        r.id = f.id /\ r.key = f.key /\ ("id" \in Table(tab).unique \/ r.ref = f.ref)}

(* The first row of a memory's history is written if it is a new memory.   *)
Inserts(t, tab) ==
    CASE Verb(t, tab) = "update" -> FALSE
      [] Verb(t, tab) = "revive" -> Finds(t, tab) = {}
      [] Verb(t, tab) = "birth" -> Decides(t, Table(tab).parent) = {}
      [] Verb(t, tab) = "replace" -> TRUE
      [] OTHER -> Decides(t, tab) = {}
Anew(t) == {Written(t, tab) : tab \in {x \in Tabs(t) : Inserts(t, x)}}
InTheWay(n, rows) == {r \in rows : Meets(r, n, Table(n.tab).unique)}

(* A parent that a foreign key asks for is gone.                           *)
Dangling(n, rows) ==
    Table(n.tab).fk /\ \E p \in n.ref : ~\E r \in rows : r.tab = Table(n.tab).parent /\ r.id = p

Write(t) ==
    LET found == UNION {Finds(t, tab) : tab \in Tabs(t)}
        gone  == {r \in found : Verb(t, r.tab) = "replace"}
        fresh == {n \in Anew(t) : Verb(t, n.tab) = "ignore" => InTheWay(n, db) = {}}
        result == (db \ found) \cup {[r EXCEPT !.body = "live"] : r \in found \ gone} \cup fresh
        raises == \/ \E n \in fresh : InTheWay(n, db \ gone) # {}
                  \/ \E n \in fresh : Dangling(n, result)
    IN
    /\ Open(t) /\ ~Merges(tx[t].write)
    /\ \A n \in fresh : InTheWay(n, pend) = {}
    /\ found \cap LockedByOthers(t) = {}
    /\ Committed(t, IF raises THEN db ELSE result)
    /\ UNCHANGED ops

-----------------------------------------------------------------------------
(* DELETE, in a transaction of its own and without the fence.  It waits    *)
(* for uncommitted children, and takes the committed ones with it.         *)
ChildrenOf(rows, among) ==
    {c \in among : Table(c.tab).fk /\ \E r \in rows : r.tab = Table(c.tab).parent /\ r.id \in c.ref}
Delete(t) ==
    /\ ~Open(t) /\ ops < MaxOps
    /\ \E w \in Kind[kind].writes :
       LET rows == Rows(Leaver, DOMAIN w) IN
       /\ Drops(w)
       /\ rows # {} /\ rows \cap LockedByOthers(t) = {} /\ ChildrenOf(rows, pend) = {}
       /\ Committed(t, db \ (rows \cup ChildrenOf(rows, db)))
       /\ ops' = ops + 1

(* merge_postgres_entities of entity 2 into entity 1: both are locked and  *)
(* the links and relations of the source read,                             *)
Entities == Rows(Leaver, {"kg_entities"})
FromSource(tabs) == {r \in Rows(Leaver, tabs) : \E e \in Entities : e.key = 2 /\ e.id \in r.ref}
(* Mutant of Rewired: the relations are forgotten.                         *)
RewiredLinks == FromSource({"kg_memory_entities"})
Rewired == FromSource({"kg_relations", "kg_memory_entities"})
MergeReads(t) ==
    /\ ~Open(t) /\ ops < MaxOps
    /\ {e.key : e \in Entities} = {1, 2}
    /\ \E w \in Kind[kind].writes :
          /\ Merges(w) /\ Admitted
          /\ (Entities \cup Rewired) \cap LockedByOthers(t) = {}
          /\ tx' = [tx EXCEPT ![t] = [write |-> w, key |-> 0, id |-> 0,
                                      seen |-> Entities \cup Rewired, crossed |-> FALSE]]
    /\ ops' = ops + 1
    /\ UNCHANGED <<store, db, seq, pend, locks, fenced, overtaken, settled, muddled>>

(* then what was read is rewired, or dropped where it would point to one   *)
(* entity twice or repeat another row; the source goes with all its links. *)
End(t, key) == CHOOSE e \in tx[t].seen : e.tab = "kg_entities" /\ e.key = key
Read(t) == {r \in tx[t].seen : r.tab # "kg_entities"}
(* Mutant of Rewire: what repeats another row is kept.                     *)
RewireAll(t) ==
    {[r EXCEPT !.ref = (r.ref \ {End(t, 2).id}) \cup {End(t, 1).id}] :
        r \in {x \in Read(t) : x.tab = "kg_memory_entities" \/ End(t, 1).id \notin x.ref}}
Rewire(t) ==
    LET moved == {[r EXCEPT !.ref = (r.ref \ {End(t, 2).id}) \cup {End(t, 1).id}] :
                     r \in {x \in Read(t) : x.tab = "kg_memory_entities" \/ End(t, 1).id \notin x.ref}}
    IN {m \in moved : \A r \in db \ Read(t) : ~Meets(r, m, {"key"})}
MergeWrites(t) ==
    LET left == {r \in Rows(Leaver, {"kg_memory_entities"}) : End(t, 2).id \in r.ref} IN
    /\ Open(t) /\ tx[t].write = MergeEntities
    /\ \A n \in Rewire(t) : InTheWay(n, pend) = {}
    /\ Committed(t, (db \ (Read(t) \cup left \cup {End(t, 1), End(t, 2)}))
                    \cup Rewire(t) \cup {[End(t, 1) EXCEPT !.body = "live"]})
    /\ UNCHANGED ops

(* The local merge locks nothing.  It links the target to every memory it  *)
(* read, and moves by their ids the relations it read: those of the start, *)
(* or the current ones once a link was written.                            *)
Moved(t) ==
    LET read == IF \E l \in Read(t) : l.tab = "kg_memory_entities"
                THEN {r \in db : r.tab = "kg_relations" /\ End(t, 2).id \in r.ref}
                ELSE {r \in Read(t) : r.tab = "kg_relations"}
    IN {<<x[2], [x[2] EXCEPT !.ref = (x[1].ref \ {End(t, 2).id}) \cup {End(t, 1).id}]>> :
           x \in {y \in read \X Rows(Leaver, {"kg_relations"}) : y[1].id = y[2].id}}
Relinked(t) ==
    {[l EXCEPT !.ref = {End(t, 1).id}] : l \in {r \in Read(t) : r.tab = "kg_memory_entities"}}
LocalMergeWrites(t) ==
    LET left == {r \in Rows(Leaver, {"kg_memory_entities"}) : End(t, 2).id \in r.ref}
        rest == db \ ({m[1] : m \in Moved(t)} \cup left \cup {e \in Entities : e.id = End(t, 2).id})
        kept == {m \in {x[2] : x \in Moved(t)} :
                    m.ref # {End(t, 1).id} /\ \A r \in rest : ~Meets(r, m, {"key"})}
        links == {l \in Relinked(t) : \A r \in rest : ~Meets(r, l, {"key"})}
    IN
    /\ Open(t) /\ tx[t].write = MergeLocalEntities
    /\ Committed(t, rest \cup kept \cup links)
    /\ UNCHANGED ops

LiveStep(t) ==
    \/ Begin(t) \/ Write(t) \/ Delete(t)
    \/ MergeReads(t) \/ MergeWrites(t) \/ LocalMergeWrites(t)
=============================================================================
