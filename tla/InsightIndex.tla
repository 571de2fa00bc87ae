------------------------------ MODULE InsightIndex ------------------------------
(***************************************************************************)
(* What the intelligence layer derives from each saved video: its topics,  *)
(* the profile of its creator, edges to the videos that share a topic, and *)
(* the concept capsules of the topics.  Most rows are looked for first and *)
(* written in a later step; whoever found nothing inserts, and fails if    *)
(* the row is there by then.  The ingest ignores such a failure.  All of   *)
(* the names are linked; of what follows there are caps.                   *)
(***************************************************************************)
EXTENDS Requests, Sequences, Functions

CONSTANTS
    Videos,         \* all of one creator
    TopicsOf,       \* the topics of a video's capsule, in their order
    EntitiesOf,     \* the entities and tools in it, in theirs
    MaxNames,       \* names by which an indexing looks for other videos (8)
    MaxPeers,       \* videos it compares its own with (30)
    MaxConcepts,    \* concept capsules it refreshes (12)
    MaxViewed       \* and those refreshed whenever they are looked at (20)
ASSUME CapsAssumption == {MaxNames, MaxPeers, MaxConcepts, MaxViewed} \subseteq Nat

VARIABLES
    capsuled,       \* capsules are stored (hierarchical retrieval is on)
    saved,          \* videos of the user
    capsules,       \* videos with a stored capsule
    rows,           \* derived rows
    links,          \* <<topic, video>>
    indexed,        \* videos indexed to the end and not deleted since, by an
                    \* indexing that met no more than MaxPeers others (history)
    job             \* the request of a thread
insightVars == <<capsuled, saved, capsules, rows, links, indexed, job>>

InsightInit ==
    /\ saved = {} /\ capsules = {} /\ rows = {} /\ links = {} /\ indexed = {}
    /\ job = [t \in Threads |-> Rest]

(* Mutant of Stages: the peers are looked for before the topics are linked.*)
StagesPeersFirst == [peers |-> "edges", edges |-> "topics", topics |-> "creator", creator |-> "concepts"]
Stages == [topics |-> "creator", creator |-> "peers", peers |-> "edges", edges |-> "concepts"]

(* The names of a video, topics first, and which of them are used.  Those  *)
(* that come later in the list are linked, but not looked for.             *)
Listed(v) == TopicsOf[v] \o EntitiesOf[v]
Names(v) == Range(Listed(v))
FirstNames(v, n) == {Listed(v)[i] : i \in DOMAIN Listed(v) \cap 1..n}
LookedFor(v) == FirstNames(v, MaxNames)
Concepts(v) ==
    UNION {FirstNames(v, n) : n \in {m \in DOMAIN Listed(v) : Cardinality(FirstNames(v, m)) <= MaxConcepts}}

Linked(n) == {w \in Videos : <<n, w>> \in links}
(* No more than n of them, in no particular order.                         *)
Some(S, n) == {P \in SUBSET S : Cardinality(P) = IF Cardinality(S) < n THEN Cardinality(S) ELSE n}

(* What an indexing may go through at a stage.                             *)
LeftAt(stage, q) ==
    CASE stage = "topics"   -> {Names(q.video)}
      [] stage = "creator"  -> {{"creator"}}
      [] stage = "peers"    -> {LookedFor(q.video)}
      [] stage = "edges"    -> Some(q.peers, MaxPeers)
      [] stage = "concepts" -> {Concepts(q.video)}
(* whole: no deletion touched it, and it passes over no video it met.      *)
Job(stage, v, left, row, found, peers, whole) ==
    [at |-> stage, video |-> v, left |-> left, row |-> row,
     found |-> found, peers |-> peers, whole |-> whole]
At(q, stage, left) ==
    Job(stage, q.video, left, q.row, q.found, q.peers,
        q.whole /\ (stage = "edges" => left = q.peers))
Indexing(v, peers) == Job("topics", v, {}, <<>>, FALSE, peers, TRUE)
FirstStage == CHOOSE s \in DOMAIN Stages : \A r \in DOMAIN Stages : Stages[r] # s

-----------------------------------------------------------------------------
(* The ingest of a video stores it and its capsule, and then indexes it.   *)
Save(t) ==
    \E v \in Videos :
       /\ job[t] = Rest
       /\ saved' = saved \cup {v}
       /\ capsules' = IF capsuled THEN capsules \cup {v} ELSE capsules
       /\ \E left \in LeftAt(FirstStage, Indexing(v, {})) :
             job' = [job EXCEPT ![t] = At(Indexing(v, {}), FirstStage, left)]
       /\ UNCHANGED <<capsuled, rows, links, indexed>>

(* Looking at the capsules refreshes those of the topics most in use.      *)
ViewCapsules(t) ==
    LET known == {n \in UNION {Names(v) : v \in Videos} : <<"topic", n>> \in rows} IN
    /\ job[t] = Rest /\ known # {}
    /\ \E viewed \in Some(known, MaxViewed) :
          job' = [job EXCEPT ![t] = Job("concepts", "", viewed, <<>>, FALSE, {}, TRUE)]
    /\ UNCHANGED <<capsuled, saved, capsules, rows, links, indexed>>

(* The next stage, or the end.                                             *)
Turn(t) ==
    LET q == job[t]
        over == q.at \notin DOMAIN Stages
    IN
    /\ "left" \in DOMAIN q /\ q.left = {} /\ q.row = <<>>
    /\ \/ /\ over /\ job' = [job EXCEPT ![t] = Rest]
          /\ indexed' = IF q.whole /\ q.video # "" THEN indexed \cup {q.video} ELSE indexed
       \/ /\ ~over /\ indexed' = indexed
          /\ \E left \in LeftAt(Stages[q.at], q) :
                job' = [job EXCEPT ![t] = At(q, Stages[q.at], left)]
    /\ UNCHANGED <<capsuled, saved, capsules, rows, links>>

(* The videos that share one of the names that are looked for.             *)
CollectPeers(t) ==
    LET q == job[t] IN
    /\ q.at = "peers"
    /\ \E n \in q.left :
          job' = [job EXCEPT ![t] = Job(q.at, q.video, q.left \ {n}, q.row, q.found,
                                        q.peers \cup (Linked(n) \ {q.video}), q.whole)]
    /\ UNCHANGED <<capsuled, saved, capsules, rows, links, indexed>>

(* What is known of a peer: the topics of its capsule, if there are any,   *)
(* else those linked.                                                      *)
NamesOfPeer(w) ==
    IF w \in capsules /\ TopicsOf[w] # <<>> THEN Range(TopicsOf[w])
    ELSE {l[1] : l \in {k \in links : k[2] = w}}
EdgeTo(v, w) ==
    IF NamesOfPeer(w) \cap Names(v) # {} THEN <<"same_topic", v, w>>
    ELSE IF w \in saved THEN <<"same_creator", v, w>> ELSE <<>>

RowFor(q, x) ==
    CASE q.at = "topics"   -> <<"topic", x>>
      [] q.at = "creator"  -> <<"creator">>
      [] q.at = "edges"    -> EdgeTo(q.video, x)
      [] q.at = "concepts" -> IF Linked(x) = {} THEN <<>> ELSE <<"concept", x>>
Look(t) ==
    LET q == job[t] IN
    /\ q.at \in {"topics", "creator", "edges", "concepts"} /\ q.row = <<>>
    /\ \E x \in q.left :
          job' = [job EXCEPT ![t] = Job(q.at, q.video, q.left \ {x}, RowFor(q, x),
                                        RowFor(q, x) \in rows, q.peers, q.whole)]
    /\ UNCHANGED <<capsuled, saved, capsules, rows, links, indexed>>

(* Postgres inserts edges and capsules or updates them in one statement.   *)
OneStatement(row) == ~local /\ row[1] \in {"same_topic", "same_creator", "concept"}
Put(t) ==
    LET q == job[t]
        raises == ~q.found /\ ~OneStatement(q.row) /\ q.row \in rows
    IN
    /\ "row" \in DOMAIN q /\ q.row # <<>>
    /\ rows' = rows \cup {q.row}
    /\ links' = IF q.at = "topics" /\ ~raises THEN links \cup {<<q.row[2], q.video>>} ELSE links
    /\ job' = [job EXCEPT ![t] = IF raises THEN Rest
                                  ELSE Job(q.at, q.video, q.left, <<>>, q.found, q.peers, q.whole)]
    /\ UNCHANGED <<capsuled, saved, capsules, indexed>>

-----------------------------------------------------------------------------
(* The deletion of a memory: its capsule, the video, and its topic links.  *)
Undone(q) == Job(q.at, q.video, q.left, q.row, q.found, q.peers, FALSE)
Deletes(t, v, next) ==
    /\ indexed' = indexed \ {v}
    /\ job' = [u \in Threads |->
          IF u = t THEN next
          ELSE IF job[u].at \in {"rest", "video", "links"} \/ job[u].video # v THEN job[u]
          ELSE Undone(job[u])]
DeleteCapsule(t) ==
    \E v \in saved :
       /\ job[t] = Rest
       /\ capsules' = capsules \ {v}
       /\ Deletes(t, v, [at |-> "video", video |-> v])
       /\ UNCHANGED <<capsuled, saved, rows, links>>
DeleteVideo(t) ==
    /\ job[t].at = "video"
    /\ saved' = saved \ {job[t].video}
    /\ Deletes(t, job[t].video, [at |-> "links", video |-> job[t].video])
    /\ UNCHANGED <<capsuled, capsules, rows, links>>
DeleteLinks(t) ==
    /\ job[t].at = "links"
    /\ links' = {l \in links : l[2] # job[t].video}
    /\ Deletes(t, job[t].video, Rest)
    /\ UNCHANGED <<capsuled, saved, capsules, rows>>

InsightCall(t) == Save(t) \/ ViewCapsules(t) \/ DeleteCapsule(t)
InsightStep(t) ==
    Turn(t) \/ CollectPeers(t) \/ Look(t) \/ Put(t) \/ DeleteVideo(t) \/ DeleteLinks(t)
=============================================================================
