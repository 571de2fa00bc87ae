---------------------------- MODULE MemoryProofs ----------------------------
(***************************************************************************)
(* Proofs about the memories, for any number of threads, items, operations *)
(* and failures: the types; that a deletion that is alone gives up the     *)
(* record only when the rows are gone; that settled memories are whole,    *)
(* settled deletions leave nothing, and the answers are current.           *)
(***************************************************************************)
EXTENDS MemoryPlane, SequenceTheorems, TLAPS

-----------------------------------------------------------------------------
(* The calls of the plans.                                                 *)

Added == Stores \ {"yt"}

Refilling ==
    ({"drop"} \X SUBSET Stores) \cup ({"add"} \X SUBSET (Added \ {"review"}))
        \cup {<<"bump", {}>>, <<"wipe", {}>>, <<"put", "captured">>, <<"put", "kept">>}
        \cup ({"advance"} \X States)
Marking   == {<<"put", "captured">>, <<"put", "kept">>} \cup ({"advance"} \X States)
Deleting  == ({"drop"} \X SUBSET Stores) \cup ({"others", "forget", "invalidate"} \X {{}})
Searching == {"get", "retrieve", "put?", "store"} \X {{}}
Reading   == {"transcript", "refetch"} \X {{}}
Reviewing == {<<"add", {"review"}>>}
Moving    == {"to"} \X States

Calls(n) ==
    CASE n[1] \in {"video", "page"} -> Refilling
      [] n[1] = "read"   -> Reading
      [] n[1] = "to"     -> Moving
      [] n[1] = "delete" -> Deleting
      [] n[1] = "mark"   -> Marking
      [] n[1] = "review" -> Reviewing
      [] n[1] = "search" -> Searching

(* The states of a memory.                                                 *)
LEMMA StatesHave ==
    /\ "captured" \in States /\ "enriched" \in States /\ "embedded" \in States
    /\ "connected" \in States /\ "verified" \in States /\ "trusted" \in States
    /\ "merged" \in States /\ "archived" \in States /\ "revived" \in States
    /\ "none" \notin States /\ "kept" \notin States
    /\ Len(Pipeline) = 7 /\ \A k \in 1..7 : Pipeline[k] \in States
<1>1. Len(Pipeline) = 7
  BY DEF Pipeline
<1>2. States = {"captured", "parsed", "enriched", "embedded", "connected", "verified",
                "trusted", "merged", "archived", "revived"}
  BY <1>1 DEF States, Pipeline
<1>3. \A k \in 1..7 : Pipeline[k] \in States
  BY <1>1 DEF States
<1> QED BY <1>1, <1>2, <1>3

(* finalize_ingest, like every part of an ingest's plan,                   *)
LEMMA FinalizeRefills ==
    ASSUME NEW trusted \in BOOLEAN
    PROVE  Finalize(trusted) \in Seq(Refilling)
<1> DEFINE head == <<<<"put", "captured">>, <<"advance", "enriched">>, <<"put", "kept">>,
      <<"advance", "embedded">>, <<"add", {"links"}>>, <<"put", "kept">>,
      <<"advance", "connected">>, <<"advance", "verified">>, <<"put", "kept">>>>
           mid == IF trusted THEN <<<<"advance", "trusted">>>> ELSE <<>>
           last == <<<<"add", {"topics"}>>>>
<1>1. /\ <<"put", "captured">> \in Refilling /\ <<"put", "kept">> \in Refilling
      /\ \A s \in States : <<"advance", s>> \in Refilling
      /\ <<"add", {"links"}>> \in Refilling /\ <<"add", {"topics"}>> \in Refilling
  BY DEF Refilling, Added, Stores
<1>2. head \in Seq(Refilling)
  BY <1>1, StatesHave
<1>3. mid \in Seq(Refilling)
  BY <1>1, StatesHave
<1>4. last \in Seq(Refilling)
  BY <1>1
<1>5. Finalize(trusted) = head \o mid \o last
  BY DEF Finalize
<1> HIDE DEF head, mid, last
<1> QED BY <1>2, <1>3, <1>4, <1>5

(* makes calls that fill the stores.                                       *)
LEMMA RefillsTyped ==
    ASSUME NEW local \in BOOLEAN, NEW trusted \in BOOLEAN
    PROVE  /\ VideoPlan(local, trusted) \in Seq(Refilling) /\ Len(VideoPlan(local, trusted)) > 0
           /\ PagePlan(local, trusted) \in Seq(Refilling) /\ Len(PagePlan(local, trusted)) > 0
<1>1. Replace \in Seq(Refilling) /\ Len(Replace) = 4
  <2>1. /\ <<"drop", {"vectors", "fts"}>> \in Refilling /\ <<"drop", {"chunks"}>> \in Refilling
        /\ <<"add", {"chunks"}>> \in Refilling
        /\ <<"add", {"vectors", "capsule", "fts"}>> \in Refilling
    BY DEF Refilling, Added, Stores
  <2> QED BY <2>1 DEF Replace
<1>2. Bump(local) \in Seq(Refilling)
  <2>1. <<"bump", {}>> \in Refilling /\ <<"wipe", {}>> \in Refilling
    BY DEF Refilling
  <2> QED BY <2>1 DEF Bump
<1>3. /\ <<<<"add", {"hash"}>>>> \in Seq(Refilling)
      /\ <<<<"add", {"registry"}>>>> \in Seq(Refilling)
      /\ <<<<"add", {"url"}>>>> \in Seq(Refilling)
  <2>1. /\ <<"add", {"hash"}>> \in Refilling /\ <<"add", {"registry"}>> \in Refilling
        /\ <<"add", {"url"}>> \in Refilling
    BY DEF Refilling, Added, Stores
  <2> QED BY <2>1
<1>4. Finalize(trusted) \in Seq(Refilling)
  BY FinalizeRefills
<1> DEFINE h == <<<<"add", {"hash"}>>>>
           r == <<<<"add", {"registry"}>>>>
           u == <<<<"add", {"url"}>>>>
           f == Finalize(trusted)
           b == Bump(local)
<1>5. VideoPlan(local, trusted) = Replace \o h \o b \o r \o f \o u
  BY DEF VideoPlan
<1>6. PagePlan(local, trusted) = Replace \o b \o r \o f \o u
  BY DEF PagePlan
<1>7. /\ h \in Seq(Refilling) /\ r \in Seq(Refilling) /\ u \in Seq(Refilling)
      /\ f \in Seq(Refilling) /\ b \in Seq(Refilling)
  BY <1>2, <1>3, <1>4
<1> HIDE DEF h, r, u, f, b
<1>8. \A x, y \in Seq(Refilling) : x \o y \in Seq(Refilling) /\ Len(x \o y) = Len(x) + Len(y)
  OBVIOUS
<1>9. \A x \in Seq(Refilling) : Len(x) \in Nat
  OBVIOUS
<1> DEFINE vh == Replace \o h
           vb == vh \o b
           vr == vb \o r
           vf == vr \o f
           pb == Replace \o b
           pr == pb \o r
           pf == pr \o f
<1>10. vh \in Seq(Refilling) /\ Len(vh) >= 4
  <2>1. vh \in Seq(Refilling)
    BY <1>1, <1>7
  <2>2. Len(vh) = Len(Replace) + Len(h)
    BY <1>1, <1>7, ConcatProperties, Zenon
  <2>3. Len(h) \in Nat
    BY <1>7
  <2> QED BY <1>1, <2>1, <2>2, <2>3
<1>11. pb \in Seq(Refilling) /\ Len(pb) >= 4
  <2>1. pb \in Seq(Refilling)
    BY <1>1, <1>7
  <2>2. Len(pb) = Len(Replace) + Len(b)
    BY <1>1, <1>7, ConcatProperties, Zenon
  <2>3. Len(b) \in Nat
    BY <1>7
  <2> QED BY <1>1, <2>1, <2>2, <2>3
<1>12. VideoPlan(local, trusted) = vf \o u /\ PagePlan(local, trusted) = pf \o u
  BY <1>5, <1>6
<1> HIDE DEF vh, pb
<1>13. vb \in Seq(Refilling) /\ Len(vb) >= 4
  BY <1>7, <1>8, <1>9, <1>10
<1>14. pr \in Seq(Refilling) /\ Len(pr) >= 4
  BY <1>7, <1>8, <1>9, <1>11
<1> HIDE DEF vb, pr
<1>15. vr \in Seq(Refilling) /\ Len(vr) >= 4
  BY <1>7, <1>8, <1>9, <1>13
<1>16. pf \in Seq(Refilling) /\ Len(pf) >= 4
  BY <1>7, <1>8, <1>9, <1>14
<1> HIDE DEF vr, pf
<1>17. vf \in Seq(Refilling) /\ Len(vf) >= 4
  BY <1>7, <1>8, <1>9, <1>15
<1> HIDE DEF vf
<1> QED BY <1>7, <1>8, <1>9, <1>12, <1>16, <1>17

(* The plan of a deletion, call by call.                                   *)
PageDeletion(p) ==
    /\ Len(p) = 10
    /\ p[1] = <<"drop", {"chunks"}>> /\ p[2] = <<"others", {}>> /\ p[3] = <<"drop", {"fts"}>>
    /\ p[4] = <<"drop", {"vectors", "capsule"}>> /\ p[5] = <<"drop", {"review"}>>
    /\ p[6] = <<"drop", {"registry"}>> /\ p[7] = <<"drop", {"url"}>>
    /\ p[8] = <<"drop", {"links", "topics"}>> /\ p[9] = <<"forget", {}>>
    /\ p[10] = <<"invalidate", {}>>
VideoDeletion(p) ==
    /\ Len(p) = 11
    /\ p[1] = <<"drop", {"chunks"}>> /\ p[2] = <<"others", {}>> /\ p[3] = <<"drop", {"fts"}>>
    /\ p[4] = <<"drop", {"vectors", "capsule"}>> /\ p[5] = <<"drop", {"review"}>>
    /\ p[6] = <<"drop", {"registry"}>> /\ p[7] = <<"drop", {"url"}>> /\ p[8] = <<"drop", {"yt"}>>
    /\ p[9] = <<"drop", {"links", "topics"}>> /\ p[10] = <<"forget", {}>>
    /\ p[11] = <<"invalidate", {}>>

(* The deletion of a page,                                                 *)
LEMMA PageDeletionIs == PageDeletion(DeletionPlan(TRUE))
<1> DEFINE p == DeletionPlan(TRUE)
<1>1. /\ Len(p) = 10 /\ p[1] = <<"drop", {"chunks"}>> /\ p[2] = <<"others", {}>>
      /\ p[3] = <<"drop", {"fts"}>> /\ p[4] = <<"drop", {"vectors", "capsule"}>>
      /\ p[5] = <<"drop", {"review"}>> /\ p[6] = <<"drop", {"registry"}>>
      /\ p[7] = <<"drop", {"url"}>> /\ p[8] = <<"drop", {"links", "topics"}>>
      /\ p[9] = <<"forget", {}>> /\ p[10] = <<"invalidate", {}>>
  BY DEF DeletionPlan, Removals, Links
<1> HIDE DEF p
<1>2. PageDeletion(p)
  BY <1>1 DEF PageDeletion
<1> QED BY <1>2 DEF p

(* and that of a video, whose metadata go too.                             *)
LEMMA VideoDeletionIs == VideoDeletion(DeletionPlan(FALSE))
<1> DEFINE p == DeletionPlan(FALSE)
<1>1. /\ Len(p) = 11 /\ p[1] = <<"drop", {"chunks"}>> /\ p[2] = <<"others", {}>>
      /\ p[3] = <<"drop", {"fts"}>> /\ p[4] = <<"drop", {"vectors", "capsule"}>>
      /\ p[5] = <<"drop", {"review"}>> /\ p[6] = <<"drop", {"registry"}>>
      /\ p[7] = <<"drop", {"url"}>> /\ p[8] = <<"drop", {"yt"}>>
      /\ p[9] = <<"drop", {"links", "topics"}>>
      /\ p[10] = <<"forget", {}>> /\ p[11] = <<"invalidate", {}>>
  BY DEF DeletionPlan, Removals, Links
<1> HIDE DEF p
<1>2. VideoDeletion(p)
  BY <1>1 DEF VideoDeletion
<1> QED BY <1>2 DEF p

(* A deletion's calls drop, forget and invalidate.                         *)
LEMMA DeletionTyped ==
    ASSUME NEW page \in BOOLEAN
    PROVE  DeletionPlan(page) \in Seq(Deleting)
<1>1. /\ <<"drop", {"chunks"}>> \in Deleting /\ <<"others", {}>> \in Deleting
      /\ <<"drop", {"fts"}>> \in Deleting /\ <<"drop", {"vectors", "capsule"}>> \in Deleting
      /\ <<"drop", {"review"}>> \in Deleting /\ <<"drop", {"registry"}>> \in Deleting
      /\ <<"drop", {"url"}>> \in Deleting /\ <<"drop", {"yt"}>> \in Deleting
      /\ Links \in Deleting /\ <<"forget", {}>> \in Deleting /\ <<"invalidate", {}>> \in Deleting
  BY DEF Deleting, Stores, Links
<1> DEFINE head == <<<<"drop", {"chunks"}>>, <<"others", {}>>, <<"drop", {"fts"}>>,
      <<"drop", {"vectors", "capsule"}>>, <<"drop", {"review"}>>, <<"drop", {"registry"}>>,
      <<"drop", {"url"}>>>>
           mid == IF page THEN <<>> ELSE <<<<"drop", {"yt"}>>>>
           last == <<Links, <<"forget", {}>>, <<"invalidate", {}>>>>
<1>2. head \in Seq(Deleting) /\ mid \in Seq(Deleting) /\ last \in Seq(Deleting)
  BY <1>1
<1>3. DeletionPlan(page) = head \o mid \o last
  BY DEF DeletionPlan, Removals
<1> HIDE DEF head, mid, last
<1> QED BY <1>2, <1>3

(* The names of the plans are these,                                       *)
LEMMA NamesAre ==
    ASSUME NEW n \in Names
    PROVE  \/ \E l, tr \in BOOLEAN : n = <<"video", l, tr>>
           \/ \E l, tr \in BOOLEAN : n = <<"page", l, tr>>
           \/ n = <<"read", "transcript">> \/ n = <<"read", "refetch">>
           \/ \E pg \in BOOLEAN : n = <<"delete", pg>>
           \/ \E s \in {"archived", "revived", "merged"} : n = <<"to", s>>
           \/ n = <<"mark">> \/ n = <<"review">> \/ n = <<"search">>
BY DEF Names

(* and these are names of plans.                                           *)
LEMMA NamesHave ==
    /\ \A l, tr \in BOOLEAN : <<"video", l, tr>> \in Names /\ <<"page", l, tr>> \in Names
    /\ <<"read", "transcript">> \in Names /\ <<"read", "refetch">> \in Names
    /\ \A pg \in BOOLEAN : <<"delete", pg>> \in Names
    /\ \A s \in {"archived", "revived", "merged"} : <<"to", s>> \in Names
    /\ <<"mark">> \in Names /\ <<"review">> \in Names /\ <<"search">> \in Names
BY DEF Names

(* The plan of each name.                                                  *)
LEMMA PlansAre ==
    /\ \A l, tr \in BOOLEAN : Plan[<<"video", l, tr>>] = VideoPlan(l, tr)
    /\ \A l, tr \in BOOLEAN : Plan[<<"page", l, tr>>] = PagePlan(l, tr)
    /\ Plan[<<"read", "transcript">>] = <<<<"transcript", {}>>>>
    /\ Plan[<<"read", "refetch">>] = <<<<"refetch", {}>>>>
    /\ \A pg \in BOOLEAN : Plan[<<"delete", pg>>] = DeletionPlan(pg)
    /\ \A s \in {"archived", "revived", "merged"} : Plan[<<"to", s>>] = <<<<"to", s>>>>
    /\ Plan[<<"mark">>] = MarkPlan
    /\ Plan[<<"review">>] = <<<<"add", {"review"}>>>>
    /\ Plan[<<"search">>] = SearchPlan
<1>1. \A l, tr \in BOOLEAN : Plan[<<"video", l, tr>>] = VideoPlan(l, tr)
  BY NamesHave DEF Plan
<1>2. \A l, tr \in BOOLEAN : Plan[<<"page", l, tr>>] = PagePlan(l, tr)
  BY NamesHave DEF Plan
<1>3. Plan[<<"read", "transcript">>] = <<<<"transcript", {}>>>>
  BY NamesHave DEF Plan
<1>4. Plan[<<"read", "refetch">>] = <<<<"refetch", {}>>>>
  BY NamesHave DEF Plan
<1>5. \A pg \in BOOLEAN : Plan[<<"delete", pg>>] = DeletionPlan(pg)
  BY NamesHave DEF Plan
<1>6. \A s \in {"archived", "revived", "merged"} : Plan[<<"to", s>>] = <<<<"to", s>>>>
  BY NamesHave DEF Plan
<1>7. Plan[<<"mark">>] = MarkPlan
  BY NamesHave DEF Plan
<1>8. Plan[<<"review">>] = <<<<"add", {"review"}>>>>
  BY NamesHave DEF Plan
<1>9. Plan[<<"search">>] = SearchPlan
  BY NamesHave DEF Plan
<1> QED BY <1>1, <1>2, <1>3, <1>4, <1>5, <1>6, <1>7, <1>8, <1>9

(* The plans of a mark and of a search.                                    *)
LEMMA ShortPlans ==
    /\ MarkPlan \in Seq(Marking) /\ Len(MarkPlan) = 3
    /\ SearchPlan \in Seq(Searching) /\ Len(SearchPlan) = 4
    /\ SearchPlan[1] = <<"get", {}>> /\ SearchPlan[2] = <<"retrieve", {}>>
    /\ SearchPlan[3] = <<"put?", {}>> /\ SearchPlan[4] = <<"store", {}>>
<1>1. MarkPlan \in Seq(Marking) /\ Len(MarkPlan) = 3
  <2>1. /\ <<"put", "captured">> \in Marking /\ <<"put", "kept">> \in Marking
        /\ <<"advance", "trusted">> \in Marking
    BY StatesHave DEF Marking
  <2> QED BY <2>1 DEF MarkPlan
<1>2. SearchPlan \in Seq(Searching) /\ Len(SearchPlan) = 4
  <2>1. /\ <<"get", {}>> \in Searching /\ <<"retrieve", {}>> \in Searching
        /\ <<"put?", {}>> \in Searching /\ <<"store", {}>> \in Searching
    BY DEF Searching
  <2> QED BY <2>1 DEF SearchPlan
<1>3. /\ SearchPlan[1] = <<"get", {}>> /\ SearchPlan[2] = <<"retrieve", {}>>
      /\ SearchPlan[3] = <<"put?", {}>> /\ SearchPlan[4] = <<"store", {}>>
  BY DEF SearchPlan
<1> QED BY <1>1, <1>2, <1>3

(* Every plan is a sequence of the calls of its kind.                      *)
LEMMA PlansTyped ==
    ASSUME NEW n \in Names
    PROVE  Plan[n] \in Seq(Calls(n)) /\ Len(Plan[n]) > 0
<1>1. CASE \E l, tr \in BOOLEAN : n = <<"video", l, tr>>
  <2>1. Calls(n) = Refilling
    BY <1>1 DEF Calls
  <2> QED BY <1>1, <2>1, PlansAre, RefillsTyped
<1>2. CASE \E l, tr \in BOOLEAN : n = <<"page", l, tr>>
  <2>1. Calls(n) = Refilling
    BY <1>2 DEF Calls
  <2> QED BY <1>2, <2>1, PlansAre, RefillsTyped
<1>3. CASE n = <<"read", "transcript">>
  <2>1. Calls(n) = Reading /\ <<"transcript", {}>> \in Reading
    BY <1>3 DEF Calls, Reading
  <2> QED BY <1>3, <2>1, PlansAre
<1>4. CASE n = <<"read", "refetch">>
  <2>1. Calls(n) = Reading /\ <<"refetch", {}>> \in Reading
    BY <1>4 DEF Calls, Reading
  <2> QED BY <1>4, <2>1, PlansAre
<1>5. CASE \E pg \in BOOLEAN : n = <<"delete", pg>>
  <2>1. PICK pg \in BOOLEAN : n = <<"delete", pg>>
    BY <1>5
  <2>2. Calls(n) = Deleting
    BY <2>1 DEF Calls
  <2>3. Len(DeletionPlan(pg)) > 0
    <3>1. Len(DeletionPlan(TRUE)) > 0
      <4>1. Len(DeletionPlan(TRUE)) = 10
        BY PageDeletionIs, Zenon DEF PageDeletion
      <4>2. 10 > 0
        OBVIOUS
      <4> QED BY <4>1, <4>2, Zenon
    <3>2. Len(DeletionPlan(FALSE)) > 0
      <4>1. Len(DeletionPlan(FALSE)) = 11
        BY VideoDeletionIs, Zenon DEF VideoDeletion
      <4>2. 11 > 0
        OBVIOUS
      <4> QED BY <4>1, <4>2, Zenon
    <3>3. pg = TRUE \/ pg = FALSE
      OBVIOUS
    <3> QED BY <3>1, <3>2, <3>3, Zenon
  <2> QED BY <2>1, <2>2, <2>3, PlansAre, DeletionTyped
<1>6. CASE \E s \in {"archived", "revived", "merged"} : n = <<"to", s>>
  <2>1. PICK s \in {"archived", "revived", "merged"} : n = <<"to", s>>
    BY <1>6
  <2>2. Calls(n) = Moving /\ <<"to", s>> \in Moving
    BY <2>1, StatesHave DEF Calls, Moving
  <2>3. Plan[n] = <<<<"to", s>>>>
    BY <2>1, PlansAre
  <2> QED BY <2>2, <2>3
<1>7. CASE n = <<"mark">>
  <2>1. Calls(n) = Marking
    BY <1>7 DEF Calls
  <2> QED BY <1>7, <2>1, PlansAre, ShortPlans
<1>8. CASE n = <<"review">>
  <2>1. Calls(n) = Reviewing /\ <<"add", {"review"}>> \in Reviewing
    BY <1>8 DEF Calls, Reviewing
  <2> QED BY <1>8, <2>1, PlansAre
<1>9. CASE n = <<"search">>
  <2>1. Calls(n) = Searching
    BY <1>9 DEF Calls
  <2> QED BY <1>9, <2>1, PlansAre, ShortPlans
<1> QED BY <1>1, <1>2, <1>3, <1>4, <1>5, <1>6, <1>7, <1>8, <1>9, NamesAre

-----------------------------------------------------------------------------
(* The jobs of the threads.                                                *)

Ops == {"idle", "ingest", "mark", "delete", "review", "search", "state"}
RecordType == [id : Nat, state : States \cup {"none"}]
JobType ==
    [op : Ops, item : Items \cup {None}, plan : Names \cup {<<>>}, at : Nat,
     path : Seq(Moving), mid : Nat, read : BOOLEAN, seen : RecordType, shared : BOOLEAN,
     alone : BOOLEAN, missed : SUBSET Stores, late : BOOLEAN, ver : Nat, began : Nat,
     ans : SUBSET Items]

PlanFits(op, i, n) ==
    /\ op = "delete" => n = <<"delete", Source[i] \in Pages>>
    /\ op = "mark" => n = <<"mark">>
    /\ op = "review" => n = <<"review">>
    /\ op = "search" => n = <<"search">>
    /\ op = "state" => n[1] = "to"
    /\ op = "ingest" => n[1] \in {"video", "page", "read"}

Busy(j) ==
    /\ j.op # "idle" /\ j.item \in Items /\ j.plan \in Names
    /\ j.at \in 1..Len(Plan[j.plan])
    /\ PlanFits(j.op, j.item, j.plan)
    /\ j.path # <<>> => Plan[j.plan][j.at][1] = "advance"

JobOk(j) == j \in JobType /\ (j = Idle \/ Busy(j))

(* A thread without a job.                                                 *)
LEMMA IdleOk == JobOk(Idle) /\ Idle.op = "idle" /\ Idle.plan = <<>> /\ Idle.path = <<>>
  /\ Idle.ver = 0 /\ Idle.began = 0 /\ Idle.ans = {} /\ Idle.alone = FALSE /\ Idle.item = None
  /\ Idle.missed = {}
<1>1. Absent \in RecordType
  BY DEF Absent, RecordType
<1>2. Idle \in JobType
  BY <1>1 DEF Idle, JobType, Ops
<1> QED BY <1>2 DEF JobOk, Idle

(* The call a job is at: a transition of its path, or its plan's.          *)
LEMMA CallTyped ==
    ASSUME NEW j, JobOk(j), j # Idle
    PROVE  /\ j.path # <<>> => Call(j) = Head(j.path) /\ Call(j) \in Moving
           /\ j.path = <<>> => Call(j) = Plan[j.plan][j.at] /\ Call(j) \in Calls(j.plan)
<1>1. j \in JobType /\ Busy(j)
  BY DEF JobOk
<1>2. Plan[j.plan] \in Seq(Calls(j.plan)) /\ Len(Plan[j.plan]) > 0 /\ j.at \in 1..Len(Plan[j.plan])
  BY <1>1, PlansTyped DEF Busy
<1>3. j.path = <<>> => Call(j) = Plan[j.plan][j.at]
  BY DEF Call
<1>4. Plan[j.plan][j.at] \in Calls(j.plan)
  BY <1>2
<1>5. j.path # <<>> => Call(j) = Head(j.path) /\ Head(j.path) \in Moving
  <2>1. j.path \in Seq(Moving)
    BY <1>1 DEF JobType
  <2> QED BY <2>1 DEF Call
<1> QED BY <1>3, <1>4, <1>5

Kinds(op) ==
    CASE op = "ingest" ->
            {"drop", "add", "bump", "wipe", "put", "advance", "transcript", "refetch", "to"}
      [] op = "mark" -> {"put", "advance", "to"}
      [] op = "delete" -> {"drop", "others", "forget", "invalidate"}
      [] op = "review" -> {"add"}
      [] op = "search" -> {"get", "retrieve", "put?", "store"}
      [] op = "state" -> {"to"}

CallFacts(c) ==
    /\ c[1] = "add" => c[2] \subseteq Added
    /\ c[1] = "drop" => c[2] \subseteq Stores
    /\ c[1] = "put" => c[2] \in {"captured", "kept"}
    /\ c[1] \in {"advance", "to"} => c[2] \in States

(* What the calls of a plan may be, kind by kind,                          *)
LEMMA KindsAre ==
    /\ \A c \in Refilling :
          c[1] \in {"drop", "add", "bump", "wipe", "put", "advance"} /\ CallFacts(c)
    /\ \A c \in Marking : c[1] \in {"put", "advance"} /\ CallFacts(c)
    /\ \A c \in Deleting : c[1] \in {"drop", "others", "forget", "invalidate"} /\ CallFacts(c)
    /\ \A c \in Searching : c[1] \in {"get", "retrieve", "put?", "store"} /\ CallFacts(c)
    /\ \A c \in Reading : c[1] \in {"transcript", "refetch"} /\ CallFacts(c)
    /\ \A c \in Reviewing : c[1] = "add" /\ c[2] = {"review"} /\ CallFacts(c)
    /\ \A c \in Moving : c[1] = "to" /\ CallFacts(c)
<1>1. \A c \in Refilling :
          c[1] \in {"drop", "add", "bump", "wipe", "put", "advance"} /\ CallFacts(c)
  BY DEF Refilling, CallFacts
<1>2. \A c \in Marking : c[1] \in {"put", "advance"} /\ CallFacts(c)
  BY DEF Marking, CallFacts
<1>3. \A c \in Deleting : c[1] \in {"drop", "others", "forget", "invalidate"} /\ CallFacts(c)
  BY DEF Deleting, CallFacts
<1>4. \A c \in Searching : c[1] \in {"get", "retrieve", "put?", "store"} /\ CallFacts(c)
  BY DEF Searching, CallFacts
<1>5. \A c \in Reading : c[1] \in {"transcript", "refetch"} /\ CallFacts(c)
  BY DEF Reading, CallFacts
<1>6. \A c \in Reviewing : c[1] = "add" /\ c[2] = {"review"} /\ CallFacts(c)
  BY DEF Reviewing, CallFacts, Added, Stores
<1>7. \A c \in Moving : c[1] = "to" /\ CallFacts(c)
  BY DEF Moving, CallFacts
<1> QED BY <1>1, <1>2, <1>3, <1>4, <1>5, <1>6, <1>7

(* and those of a job, by its operation.                                   *)
LEMMA CallIs ==
    ASSUME NEW j, JobOk(j), j # Idle
    PROVE  /\ Call(j)[1] \in Kinds(j.op) /\ CallFacts(Call(j))
           /\ Call(j)[1] # "to" => j.path = <<>> /\ Call(j) = Plan[j.plan][j.at]
           /\ j.path # <<>> => Call(j)[1] = "to" /\ j.op \in {"ingest", "mark"}
<1>1. Busy(j) /\ j \in JobType /\ j.op \in Ops \ {"idle"} /\ PlanFits(j.op, j.item, j.plan)
  BY DEF JobOk, Busy, JobType
<1>2. \A c \in Calls(j.plan) : c[1] \in Kinds(j.op) /\ CallFacts(c)
  <2>3. CASE j.op = "ingest"
    BY <1>1, <2>3, KindsAre DEF PlanFits, Calls, Kinds
  <2>4. CASE j.op = "mark"
    BY <1>1, <2>4, KindsAre DEF PlanFits, Calls, Kinds
  <2>5. CASE j.op = "delete"
    BY <1>1, <2>5, KindsAre DEF PlanFits, Calls, Kinds
  <2>6. CASE j.op = "review"
    BY <1>1, <2>6, KindsAre DEF PlanFits, Calls, Kinds
  <2>7. CASE j.op = "search"
    BY <1>1, <2>7, KindsAre DEF PlanFits, Calls, Kinds
  <2>8. CASE j.op = "state"
    BY <1>1, <2>8, KindsAre DEF PlanFits, Calls, Kinds
  <2> QED BY <1>1, <2>3, <2>4, <2>5, <2>6, <2>7, <2>8 DEF Ops
<1>3. Plan[j.plan][j.at] \in Calls(j.plan)
  BY <1>1, PlansTyped DEF Busy
<1>4. CASE j.path = <<>>
  <2>1. Call(j) = Plan[j.plan][j.at] /\ Call(j) \in Calls(j.plan)
    BY <1>4, CallTyped
  <2> QED BY <1>2, <1>4, <2>1
<1>5. CASE j.path # <<>>
  <2>1. Call(j)[1] = "to" /\ CallFacts(Call(j))
    BY <1>5, CallTyped, KindsAre
  <2>2. "advance" \in Kinds(j.op)
    <3>1. Plan[j.plan][j.at][1] = "advance"
      BY <1>1, <1>5 DEF Busy
    <3> QED BY <1>2, <1>3, <3>1
  <2>3. j.op \in {"ingest", "mark"}
    BY <1>1, <2>2 DEF Kinds, Ops
  <2>4. "to" \in Kinds(j.op)
    BY <2>3 DEF Kinds
  <2> QED BY <1>5, <2>1, <2>3, <2>4
<1> QED BY <1>4, <1>5

(* Fields that are set together are set one after the other.               *)
LEMMA AllTogether ==
    ASSUME NEW j
    PROVE  /\ \A n, s, b, r : [j EXCEPT !.at = n, !.path = s, !.read = b, !.seen = r]
                = [[[[j EXCEPT !.at = n] EXCEPT !.path = s] EXCEPT !.read = b] EXCEPT !.seen = r]
           /\ \A s, b : [j EXCEPT !.path = s, !.read = b]
                = [[j EXCEPT !.path = s] EXCEPT !.read = b]
OBVIOUS

Same(j, k) == /\ k.op = j.op /\ k.item = j.item /\ k.plan = j.plan /\ k.mid = j.mid
              /\ k.shared = j.shared /\ k.alone = j.alone /\ k.late = j.late
              /\ k.ver = j.ver /\ k.began = j.began /\ k.ans = j.ans /\ k.missed = j.missed

(* The job after a call: it goes on by one transition or by one call.      *)
LEMMA SteppedIs ==
    ASSUME NEW j, JobOk(j), j # Idle
    PROVE  /\ JobOk(Stepped(j))
           /\ LastCall(j) => Stepped(j) = Idle
           /\ ~LastCall(j) => Stepped(j) # Idle /\ Same(j, Stepped(j)) /\ ~Stepped(j).read
           /\ ~LastCall(j) /\ Len(j.path) > 1 =>
                Stepped(j).at = j.at /\ Stepped(j).path = Tail(j.path)
           /\ ~LastCall(j) /\ Len(j.path) <= 1 => Stepped(j).at = j.at + 1 /\ Stepped(j).path = <<>>
<1>1. Busy(j) /\ j \in JobType
  BY DEF JobOk
<1>2. j.at \in Nat /\ Len(Plan[j.plan]) \in Nat /\ j.path \in Seq(Moving)
      /\ j.at \in 1..Len(Plan[j.plan])
  BY <1>1, PlansTyped DEF Busy, JobType
<1>3. CASE LastCall(j)
  BY <1>3, IdleOk DEF Stepped
<1>4. CASE ~LastCall(j) /\ Len(j.path) > 1
  <2> DEFINE k == [[j EXCEPT !.path = Tail(j.path)] EXCEPT !.read = FALSE]
  <2>1. Stepped(j) = k
    BY <1>4, AllTogether DEF Stepped
  <2>2. Tail(j.path) \in Seq(Moving) /\ j.path # <<>>
    BY <1>2, <1>4
  <2>3. k \in JobType /\ Same(j, k) /\ ~k.read /\ k.at = j.at /\ k.path = Tail(j.path)
    BY <1>1, <2>2 DEF JobType, Same
  <2>4. Busy(k)
    BY <1>1, <2>2, <2>3 DEF Busy, Same
  <2>5. k # Idle
    BY <2>4, IdleOk DEF Busy
  <2> HIDE DEF k
  <2> QED BY <1>4, <2>1, <2>3, <2>4, <2>5 DEF JobOk
<1>5. CASE ~LastCall(j) /\ ~(Len(j.path) > 1)
  <2> DEFINE k == [[[[j EXCEPT !.at = j.at + 1] EXCEPT !.path = <<>>] EXCEPT !.read = FALSE]
                       EXCEPT !.seen = Absent]
  <2>1. Stepped(j) = k
    BY <1>5, AllTogether DEF Stepped
  <2>2. Len(j.path) <= 1 /\ j.at # Len(Plan[j.plan]) /\ j.at + 1 \in 1..Len(Plan[j.plan])
    BY <1>2, <1>5 DEF LastCall
  <2>3. Absent \in RecordType
    BY DEF Absent, RecordType
  <2>4. k \in JobType /\ Same(j, k) /\ ~k.read /\ k.at = j.at + 1 /\ k.path = <<>>
    <3> DEFINE k1 == [[j EXCEPT !.at = j.at + 1] EXCEPT !.path = <<>>]
    <3>1. k = [[k1 EXCEPT !.read = FALSE] EXCEPT !.seen = Absent]
      OBVIOUS
    <3>2. k1 \in JobType /\ Same(j, k1) /\ k1.at = j.at + 1 /\ k1.path = <<>>
      <4>1. <<>> \in Seq(Moving) /\ j.at + 1 \in Nat
        BY <1>2
      <4>2. k1 \in JobType
        BY <1>1, <4>1 DEF JobType
      <4>3. Same(j, k1)
        BY <1>1 DEF JobType, Same
      <4>4. k1.at = j.at + 1
        BY <1>1 DEF JobType
      <4>5. k1.path = <<>>
        BY <1>1 DEF JobType
      <4> QED BY <4>2, <4>3, <4>4, <4>5
    <3> HIDE DEF k1, k
    <3> QED BY <2>3, <3>1, <3>2 DEF JobType, Same
  <2>5. Busy(k)
    BY <1>1, <2>2, <2>4 DEF Busy, Same
  <2>6. k # Idle
    BY <2>5, IdleOk DEF Busy
  <2> HIDE DEF k
  <2> QED BY <1>2, <1>5, <2>1, <2>2, <2>4, <2>5, <2>6 DEF JobOk
<1> QED BY <1>3, <1>4, <1>5

-----------------------------------------------------------------------------
(* The types.                                                              *)

EntryType == [ver : Nat, began : Nat, ans : SUBSET Items, late : BOOLEAN]
JobsOk(f) == f \in [Threads -> JobType] /\ \A t \in Threads : JobOk(f[t])

TypeInv ==
    /\ record \in [Items -> RecordType]
    /\ nextId \in Nat \ {0} /\ ops \in 0..MaxOps /\ faults \in 0..MaxFaults
    /\ JobsOk(job)
    /\ sqlite \in BOOLEAN
    /\ rows \subseteq Stores \X (Items \cup {Source[i] : i \in Items})
    /\ version \in Nat /\ muddled \subseteq Items
    /\ cache \in [Users -> EntryType]

(* The jobs stay well formed when one of them changes.                     *)
LEMMA JobChanged ==
    ASSUME JobsOk(job), NEW t \in Threads, NEW k, JobOk(k), job' = [job EXCEPT ![t] = k]
    PROVE  JobsOk(job')
BY DEF JobsOk, JobOk

(* A thread with a plan is busy.                                           *)
LEMMA BusyThread ==
    ASSUME JobsOk(job), NEW t \in Threads, job[t].plan # <<>>
    PROVE  job[t] # Idle /\ JobOk(job[t]) /\ Busy(job[t]) /\ Of(t) \in Items
<1>1. job[t] # Idle
  BY IdleOk
<1>2. JobOk(job[t]) /\ Busy(job[t])
  BY <1>1 DEF JobsOk, JobOk
<1> QED BY <1>1, <1>2 DEF Busy, Of

(* What a thread that is doing something is at.                            *)
LEMMA DoingIs ==
    ASSUME JobsOk(job), NEW t \in Threads, NEW kind, Doing(t, kind)
    PROVE  /\ job[t] # Idle /\ JobOk(job[t]) /\ Busy(job[t]) /\ Of(t) \in Items
           /\ kind \in Kinds(job[t].op)
           /\ CallFacts(Call(job[t])) /\ Argument(t) = Call(job[t])[2]
           /\ kind # "to" => job[t].path = <<>> /\ Call(job[t]) = Plan[job[t].plan][job[t].at]
           /\ Call(job[t])[1] = kind
BY BusyThread, CallIs DEF Doing, Argument

(* The jobs stay well formed when a thread goes on,                        *)
LEMMA AdvancesOk ==
    ASSUME JobsOk(job), NEW t \in Threads, NEW kind, Doing(t, kind)
    PROVE  Advances(t) => JobsOk(job')
<1>1. job[t] # Idle /\ JobOk(job[t])
  BY DoingIs
<1>2. JobOk(Stepped(job[t]))
  BY <1>1, SteppedIs
<1> QED BY <1>2, JobChanged DEF Advances

(* and when it gives up.                                                   *)
LEMMA RaisesOk ==
    ASSUME JobsOk(job), NEW t \in Threads
    PROVE  Raises(t) => JobsOk(job')
BY IdleOk, JobChanged DEF Raises

(* Fields of a job that may be set on their own.                           *)
LEMMA FieldsSet ==
    ASSUME NEW j, JobOk(j), j # Idle
    PROVE  /\ \A b \in BOOLEAN : JobOk([j EXCEPT !.read = b]) /\ [j EXCEPT !.read = b] # Idle
           /\ \A b \in BOOLEAN : JobOk([j EXCEPT !.shared = b]) /\ [j EXCEPT !.shared = b] # Idle
           /\ \A b \in BOOLEAN : JobOk([j EXCEPT !.alone = b]) /\ [j EXCEPT !.alone = b] # Idle
           /\ \A b \in BOOLEAN : JobOk([j EXCEPT !.late = b]) /\ [j EXCEPT !.late = b] # Idle
           /\ \A n \in Nat : JobOk([j EXCEPT !.ver = n]) /\ [j EXCEPT !.ver = n] # Idle
           /\ \A n \in Nat : JobOk([j EXCEPT !.began = n]) /\ [j EXCEPT !.began = n] # Idle
           /\ \A n \in Nat : JobOk([j EXCEPT !.mid = n]) /\ [j EXCEPT !.mid = n] # Idle
           /\ \A a \in SUBSET Items : JobOk([j EXCEPT !.ans = a]) /\ [j EXCEPT !.ans = a] # Idle
           /\ \A r \in RecordType : JobOk([j EXCEPT !.seen = r]) /\ [j EXCEPT !.seen = r] # Idle
           /\ \A m \in SUBSET Stores :
                 JobOk([j EXCEPT !.missed = m]) /\ [j EXCEPT !.missed = m] # Idle
<1>1. j \in JobType /\ Busy(j)
  BY DEF JobOk
<1>2. \A k : Busy(k) => k # Idle
  BY IdleOk DEF Busy
<1>3. \A b \in BOOLEAN : [j EXCEPT !.read = b] \in JobType /\ Busy([j EXCEPT !.read = b])
  BY <1>1 DEF JobType, Busy
<1>4. \A b \in BOOLEAN : [j EXCEPT !.shared = b] \in JobType /\ Busy([j EXCEPT !.shared = b])
  BY <1>1 DEF JobType, Busy
<1>5. \A b \in BOOLEAN : [j EXCEPT !.alone = b] \in JobType /\ Busy([j EXCEPT !.alone = b])
  BY <1>1 DEF JobType, Busy
<1>6. \A b \in BOOLEAN : [j EXCEPT !.late = b] \in JobType /\ Busy([j EXCEPT !.late = b])
  BY <1>1 DEF JobType, Busy
<1>7. \A n \in Nat : [j EXCEPT !.ver = n] \in JobType /\ Busy([j EXCEPT !.ver = n])
  BY <1>1 DEF JobType, Busy
<1>8. \A n \in Nat : [j EXCEPT !.mid = n] \in JobType /\ Busy([j EXCEPT !.mid = n])
  BY <1>1 DEF JobType, Busy
<1>9. \A a \in SUBSET Items : [j EXCEPT !.ans = a] \in JobType /\ Busy([j EXCEPT !.ans = a])
  BY <1>1 DEF JobType, Busy
<1>10. \A r \in RecordType : [j EXCEPT !.seen = r] \in JobType /\ Busy([j EXCEPT !.seen = r])
  BY <1>1 DEF JobType, Busy
<1>11. \A n \in Nat : [j EXCEPT !.began = n] \in JobType /\ Busy([j EXCEPT !.began = n])
  BY <1>1 DEF JobType, Busy
<1>12. \A m \in SUBSET Stores :
          [j EXCEPT !.missed = m] \in JobType /\ Busy([j EXCEPT !.missed = m])
  BY <1>1 DEF JobType, Busy
<1> QED BY <1>2, <1>3, <1>4, <1>5, <1>6, <1>7, <1>8, <1>9, <1>10, <1>11, <1>12 DEF JobOk

(* A request or a job begins. *)
Begun(op, i, plan) ==
    [[[[Idle EXCEPT !.op = op] EXCEPT !.item = i] EXCEPT !.plan = plan] EXCEPT !.at = 1]

Fresh(j, op, i, plan) ==
    /\ JobOk(j) /\ j # Idle /\ j.op = op /\ j.item = i /\ j.plan = plan /\ j.at = 1
    /\ j.path = <<>> /\ j.mid = 0 /\ j.alone = FALSE /\ j.ver = 0 /\ j.began = 0
    /\ j.ans = {} /\ j.read = FALSE /\ j.late = FALSE /\ j.shared = FALSE /\ j.missed = {}

(* A job that has begun,                                                   *)
LEMMA BegunOk ==
    ASSUME NEW op \in Ops \ {"idle"}, NEW i \in Items, NEW plan \in Names, PlanFits(op, i, plan)
    PROVE  Fresh(Begun(op, i, plan), op, i, plan)
<1> DEFINE j == Begun(op, i, plan)
           a == [Idle EXCEPT !.op = op]
           b == [a EXCEPT !.item = i]
           c == [b EXCEPT !.plan = plan]
           d == [c EXCEPT !.at = 1]
<1>1. Idle \in JobType
  BY IdleOk DEF JobOk
<1>2. /\ Idle.path = <<>> /\ Idle.mid = 0 /\ Idle.alone = FALSE /\ Idle.ver = 0 /\ Idle.began = 0
      /\ Idle.ans = {} /\ Idle.read = FALSE /\ Idle.late = FALSE /\ Idle.shared = FALSE
      /\ Idle.missed = {}
  BY DEF Idle
<1>3. a \in JobType /\ a.op = op /\ a.path = Idle.path /\ a.mid = Idle.mid
      /\ a.alone = Idle.alone /\ a.ver = Idle.ver /\ a.began = Idle.began /\ a.ans = Idle.ans
      /\ a.read = Idle.read /\ a.late = Idle.late /\ a.shared = Idle.shared
      /\ a.missed = Idle.missed
  BY <1>1 DEF JobType
<1> HIDE DEF a
<1>4. b \in JobType /\ b.op = a.op /\ b.item = i /\ b.path = a.path /\ b.mid = a.mid
      /\ b.alone = a.alone /\ b.ver = a.ver /\ b.began = a.began /\ b.ans = a.ans
      /\ b.read = a.read /\ b.late = a.late /\ b.shared = a.shared /\ b.missed = a.missed
  BY <1>3 DEF JobType
<1> HIDE DEF b
<1>5. c \in JobType /\ c.op = b.op /\ c.item = b.item /\ c.plan = plan /\ c.path = b.path
      /\ c.mid = b.mid /\ c.alone = b.alone /\ c.ver = b.ver /\ c.began = b.began
      /\ c.ans = b.ans /\ c.read = b.read /\ c.late = b.late /\ c.shared = b.shared
      /\ c.missed = b.missed
  BY <1>4 DEF JobType
<1> HIDE DEF c
<1>6. d \in JobType /\ d.op = c.op /\ d.item = c.item /\ d.plan = c.plan /\ d.at = 1
      /\ d.path = c.path /\ d.mid = c.mid /\ d.alone = c.alone /\ d.ver = c.ver
      /\ d.began = c.began /\ d.ans = c.ans /\ d.read = c.read /\ d.late = c.late
      /\ d.shared = c.shared /\ d.missed = c.missed
  BY <1>5 DEF JobType
<1>7. j = d
  BY DEF Begun, a, b, c
<1> HIDE DEF d, j
<1>8. 1 \in 1..Len(Plan[plan])
  BY PlansTyped
<1>9. Busy(j)
  BY <1>2, <1>3, <1>4, <1>5, <1>6, <1>7, <1>8 DEF Busy
<1>10. JobOk(j) /\ j # Idle
  BY <1>6, <1>7, <1>9, IdleOk DEF JobOk, Busy
<1>11. Fresh(j, op, i, plan)
  BY <1>2, <1>3, <1>4, <1>5, <1>6, <1>7, <1>10 DEF Fresh
<1> QED BY <1>11 DEF j

(* as the requests write it.                                               *)
LEMMA BegunIs ==
    ASSUME NEW op, NEW i, NEW plan, NEW mid, NEW alone, NEW ver, NEW began
    PROVE  /\ [Idle EXCEPT !.op = op, !.item = i, !.plan = plan, !.at = 1, !.mid = mid,
                           !.alone = alone]
                = [[Begun(op, i, plan) EXCEPT !.mid = mid] EXCEPT !.alone = alone]
           /\ [Idle EXCEPT !.op = op, !.item = i, !.plan = plan, !.at = 1, !.mid = mid]
                = [Begun(op, i, plan) EXCEPT !.mid = mid]
           /\ [Idle EXCEPT !.op = op, !.item = i, !.plan = plan, !.at = 1, !.ver = ver,
                           !.began = began]
                = [[Begun(op, i, plan) EXCEPT !.ver = ver] EXCEPT !.began = began]
BY DEF Begun

(* The transitions of an advance are transitions.                          *)
LEMMA PlaceIs ==
    /\ \A s : Place(s) \in 0..7
    /\ \A s, u : Transitions(s, u) \in Seq(Moving)
<1>1. ASSUME NEW s PROVE Place(s) \in 0..7
  <2> DEFINE P(k) == IF \E n \in 1..7 : Pipeline[n] = s THEN k > 0 /\ Pipeline[k] = s ELSE k = 0
  <2>1. \E k \in 0..7 : P(k)
    <3>1. CASE \E n \in 1..7 : Pipeline[n] = s
      <4>1. PICK n \in 1..7 : Pipeline[n] = s
        BY <3>1
      <4>2. n \in 0..7 /\ n > 0
        OBVIOUS
      <4> QED BY <3>1, <4>1, <4>2
    <3>2. CASE ~\E n \in 1..7 : Pipeline[n] = s
      BY <3>2
    <3> QED BY <3>1, <3>2
  <2>2. Place(s) = CHOOSE k \in 0..7 : P(k)
    BY DEF Place
  <2> HIDE DEF P
  <2> QED BY <2>1, <2>2
<1>2. ASSUME NEW s, NEW u PROVE Transitions(s, u) \in Seq(Moving)
  <2> DEFINE n == IF Place(u) > Place(s) THEN Place(u) - Place(s) ELSE 0
  <2>1. n \in Nat /\ \A k \in 1..n : Place(s) + k \in 1..7
    BY <1>1
  <2>2. \A k \in 1..n : <<"to", Pipeline[Place(s) + k]>> \in Moving
    BY <2>1, StatesHave DEF Moving
  <2>3. Transitions(s, u) = [k \in 1..n |-> <<"to", Pipeline[Place(s) + k]>>]
    BY DEF Transitions
  <2> HIDE DEF n
  <2>4. Transitions(s, u) \in [1..n -> Moving]
    BY <2>2, <2>3
  <2> QED BY <2>1, <2>4, SeqDef
<1> QED BY <1>1, <1>2

(* The counts of operations and of faults keep to their bounds.            *)
LEMMA CountsUp ==
    ASSUME ops \in 0..MaxOps, faults \in 0..MaxFaults
    PROVE  /\ ops < MaxOps /\ ops' = ops + 1 => ops' \in 0..MaxOps
           /\ Fault => faults' \in 0..MaxFaults
BY BoundsAssumption DEF Fault

(* The steps of the records keep the types.                                *)
LEMMA RecordStepOk ==
    ASSUME TypeInv, NEW t \in Threads, RecordStep(t)
    PROVE  JobsOk(job') /\ record' \in [Items -> RecordType] /\ nextId' \in Nat \ {0}
<1> USE DEF TypeInv
<1>1. CASE PutReads(t)
  <2>1. job[t] # Idle /\ JobOk(job[t]) /\ Of(t) \in Items
    BY <1>1, DoingIs DEF PutReads
  <2> DEFINE k == [[job[t] EXCEPT !.read = TRUE] EXCEPT !.seen = record[Of(t)]]
  <2>2. job' = [job EXCEPT ![t] = k]
    BY <1>1 DEF PutReads, JobsOk
  <2>3. JobOk(k)
    BY <2>1, FieldsSet
  <2> HIDE DEF k
  <2> QED BY <1>1, <2>2, <2>3, JobChanged DEF PutReads
<1>2. CASE PutConflicts(t)
  BY <1>2, RaisesOk DEF PutConflicts
<1>3. CASE PutWrites(t)
  <2> DEFINE j == job[t]
             id == IF j.seen.id = 0 THEN nextId ELSE j.seen.id
             k == IF LastCall(j) THEN Idle ELSE [Stepped(j) EXCEPT !.mid = id]
  <2>1. j # Idle /\ JobOk(j) /\ Of(t) \in Items /\ CallFacts(Call(j)) /\ Call(j)[1] = "put"
    BY <1>3, DoingIs DEF PutWrites
  <2>2. j.seen \in RecordType
    BY <2>1 DEF JobOk, JobType
  <2>3. id \in Nat \ {0} /\ id \in Nat
    BY <2>2 DEF RecordType
  <2>4. PutState(j) \in States \cup {"none"}
    BY <2>1, <2>2, StatesHave DEF PutState, CallFacts, RecordType
  <2>5. /\ record' = [record EXCEPT ![Of(t)] = [id |-> id, state |-> PutState(j)]]
        /\ nextId' = IF j.seen.id = 0 THEN nextId + 1 ELSE nextId
        /\ job' = [job EXCEPT ![t] = k]
    BY <1>3 DEF PutWrites
  <2>6. record' \in [Items -> RecordType]
    BY <2>3, <2>4, <2>5 DEF RecordType
  <2>7. nextId' \in Nat \ {0}
    BY <2>5
  <2>8. JobOk(k)
    BY <2>1, <2>3, SteppedIs, FieldsSet, IdleOk
  <2> HIDE DEF k
  <2> QED BY <2>5, <2>6, <2>7, <2>8, JobChanged
<1>4. CASE AdvanceReads(t)
  <2> DEFINE path == Transitions(record[Of(t)].state, Argument(t))
             j == job[t]
             k == IF path = <<>> THEN Stepped(j) ELSE [j EXCEPT !.path = path]
  <2>1. /\ j # Idle /\ JobOk(j) /\ Busy(j) /\ Call(j)[1] = "advance"
        /\ Call(j) = Plan[j.plan][j.at]
    BY <1>4, DoingIs DEF AdvanceReads
  <2>2. path \in Seq(Moving)
    BY PlaceIs
  <2>3. job' = [job EXCEPT ![t] = k]
    BY <1>4 DEF AdvanceReads, JobsOk
  <2> HIDE DEF path
  <2>4. JobOk([j EXCEPT !.path = path])
    <3>1. [j EXCEPT !.path = path] \in JobType
      BY <2>1, <2>2 DEF JobOk, JobType
    <3>2. Busy([j EXCEPT !.path = path])
      BY <2>1, <2>2 DEF JobOk, JobType, Busy
    <3> QED BY <3>1, <3>2 DEF JobOk
  <2>5. JobOk(k)
    BY <2>1, <2>4, SteppedIs
  <2> HIDE DEF k
  <2> QED BY <1>4, <2>3, <2>5, JobChanged DEF AdvanceReads
<1>5. CASE Missing(t)
  BY <1>5, RaisesOk DEF Missing
<1>6. CASE TransitionReads(t)
  <2>1. job[t] # Idle /\ JobOk(job[t])
    BY <1>6, DoingIs DEF TransitionReads
  <2>2. \/ Raises(t) \/ Advances(t)
        \/ job' = [job EXCEPT ![t] = [job[t] EXCEPT !.read = TRUE]]
    BY <1>6 DEF TransitionReads, JobsOk
  <2>3. JobOk([job[t] EXCEPT !.read = TRUE])
    BY <2>1, FieldsSet
  <2>4. JobsOk(job')
    BY <1>6, <2>2, <2>3, JobChanged, RaisesOk, AdvancesOk DEF TransitionReads
  <2> QED BY <1>6, <2>4 DEF TransitionReads
<1>7. CASE TransitionWrites(t)
  <2>1. /\ Of(t) \in Items /\ CallFacts(Call(job[t])) /\ Call(job[t])[1] = "to"
        /\ Argument(t) = Call(job[t])[2]
    BY <1>7, DoingIs DEF TransitionWrites
  <2>2. Argument(t) \in States
    BY <2>1 DEF CallFacts
  <2>3. record' \in [Items -> RecordType]
    BY <1>7, <2>1, <2>2 DEF TransitionWrites, RecordType
  <2> QED BY <1>7, <2>3, AdvancesOk DEF TransitionWrites
<1> QED BY <1>1, <1>2, <1>3, <1>4, <1>5, <1>6, <1>7 DEF RecordStep

(* Items that share rows share them with each other.                       *)
LEMMA TouchingIs ==
    /\ \A i : Touching(i) \subseteq Items
    /\ \A i \in Items : i \in Touching(i)
    /\ \A i, j \in Items : j \in Touching(i) <=> i \in Touching(j)
BY DEF Touching

StartsAs(t, op, i, plan) ==
    /\ job'[t] # Idle /\ job'[t].op = op /\ job'[t].item = i /\ job'[t].plan = plan
    /\ job'[t].at = 1 /\ job'[t].path = <<>> /\ ~job'[t].shared /\ job'[t].began = 0
    /\ job'[t].ans = {} /\ ~job'[t].read /\ job'[t].missed = {}
    /\ job'[t].mid = IF op = "delete" THEN record[i].id ELSE 0
    /\ job'[t].alone = (Beside(t, i) = {})
    /\ muddled \subseteq muddled'
    /\ \A x \in Threads \ {t} :
          job'[x] = IF x \in Beside(t, i) THEN [job[x] EXCEPT !.alone = FALSE] ELSE job[x]

(* What the start of an ingest, a deletion or a review makes of the jobs.  *)
LEMMA StartsOk ==
    ASSUME TypeInv, NEW t \in Threads, job[t] = Idle,
           NEW op \in {"ingest", "mark", "delete", "review"},
           NEW i \in Items, NEW plan \in Names, PlanFits(op, i, plan),
           StartsRewriting(t, op, i, plan)
    PROVE  JobsOk(job') /\ muddled' \subseteq Items /\ StartsAs(t, op, i, plan)
<1> DEFINE b == Begun(op, i, plan)
           mid == IF op = "delete" THEN record[i].id ELSE 0
           al == (Beside(t, i) = {})
           m == [b EXCEPT !.mid = mid]
           k == [m EXCEPT !.alone = al]
<1>b. b = Begun(op, i, plan)
  OBVIOUS
<1>0. Fresh(Begun(op, i, plan), op, i, plan)
  <2>1. op \in Ops \ {"idle"}
    BY DEF Ops
  <2> QED BY <2>1, BegunOk
<1> HIDE DEF b
<1>1. /\ JobOk(b) /\ b # Idle /\ b.op = op /\ b.item = i /\ b.plan = plan /\ b.at = 1
      /\ b.path = <<>> /\ b.began = 0 /\ b.ans = {} /\ b.read = FALSE /\ b.shared = FALSE
      /\ b.missed = {}
  BY <1>0, <1>b DEF Fresh
<1>2. mid \in Nat /\ al \in BOOLEAN
  BY DEF TypeInv, RecordType
<1> HIDE DEF mid, al
<1>3. k = [Idle EXCEPT !.op = op, !.item = i, !.plan = plan, !.at = 1, !.mid = mid, !.alone = al]
  BY <1>b DEF Begun
<1>a. job' = [x \in Threads |-> CASE x = t -> k
                                 [] x \in Beside(t, i) -> [job[x] EXCEPT !.alone = FALSE]
                                 [] OTHER -> job[x]]
  <2> DEFINE raw == [Idle EXCEPT !.op = op, !.item = i, !.plan = plan, !.at = 1,
                            !.mid = IF op = "delete" THEN record[i].id ELSE 0,
                            !.alone = Beside(t, i) = {}]
  <2>1. job' = [x \in Threads |-> CASE x = t -> raw
                                   [] x \in Beside(t, i) -> [job[x] EXCEPT !.alone = FALSE]
                                   [] OTHER -> job[x]]
    BY Zenon DEF StartsRewriting
  <2>2. raw = k
    BY <1>3 DEF mid, al
  <2> HIDE DEF raw
  <2> QED BY <2>1, <2>2
<1>4. /\ JobOk(m) /\ m # Idle /\ m.op = b.op /\ m.item = b.item /\ m.plan = b.plan /\ m.at = b.at
      /\ m.path = b.path /\ m.began = b.began /\ m.ans = b.ans /\ m.read = b.read
      /\ m.shared = b.shared /\ m.missed = b.missed /\ m.mid = mid
  <2>1. b \in JobType
    BY <1>1 DEF JobOk
  <2> QED BY <1>1, <1>2, <2>1, FieldsSet DEF JobType
<1> HIDE DEF m
<1>5. /\ JobOk(k) /\ k # Idle /\ k.op = m.op /\ k.item = m.item /\ k.plan = m.plan /\ k.at = m.at
      /\ k.path = m.path /\ k.began = m.began /\ k.ans = m.ans /\ k.read = m.read
      /\ k.shared = m.shared /\ k.mid = m.mid /\ k.missed = m.missed /\ k.alone = al
  <2>1. m \in JobType
    BY <1>4 DEF JobOk
  <2> QED BY <1>4, <1>2, <2>1, FieldsSet DEF JobType
<1> HIDE DEF k
<1>6. job' = [x \in Threads |-> IF x = t THEN k
                                ELSE IF x \in Beside(t, i) THEN [job[x] EXCEPT !.alone = FALSE]
                                ELSE job[x]]
  <2>1. t \notin Beside(t, i)
    BY DEF Beside
  <2> QED BY <1>a, <2>1
<1>7. \A x \in Threads : x \in Beside(t, i) => JobOk([job[x] EXCEPT !.alone = FALSE])
  <2> TAKE x \in Threads
  <2> HAVE x \in Beside(t, i)
  <2>1. job[x] # Idle /\ JobOk(job[x])
    BY IdleOk DEF Beside, Rewriting, TypeInv, JobsOk
  <2> QED BY <2>1, FieldsSet
<1>8. JobsOk(job')
  <2>1. \A x \in Threads : JobOk(job'[x])
    BY <1>5, <1>6, <1>7 DEF TypeInv, JobsOk
  <2>2. \A x \in Threads : job'[x] \in JobType
    BY <2>1 DEF JobOk
  <2> QED BY <1>6, <2>1, <2>2 DEF JobsOk
<1>9. muddled' \subseteq Items /\ muddled \subseteq muddled'
  BY TouchingIs DEF StartsRewriting, MixUp, TypeInv
<1>10. /\ job'[t] = k
       /\ \A x \in Threads \ {t} :
             job'[x] = IF x \in Beside(t, i) THEN [job[x] EXCEPT !.alone = FALSE] ELSE job[x]
  BY <1>6
<1>11. /\ job'[t] # Idle /\ job'[t].op = op /\ job'[t].item = i /\ job'[t].plan = plan
       /\ job'[t].at = 1 /\ job'[t].path = <<>> /\ ~job'[t].shared /\ job'[t].began = 0
       /\ job'[t].ans = {} /\ ~job'[t].read /\ job'[t].missed = {}
       /\ job'[t].mid = mid /\ job'[t].alone = al
  BY <1>1, <1>4, <1>5, <1>10
<1>12. StartsAs(t, op, i, plan)
  <2>1. /\ job'[t].mid = IF op = "delete" THEN record[i].id ELSE 0
        /\ job'[t].alone = (Beside(t, i) = {})
    BY <1>11 DEF mid, al
  <2> QED BY <1>9, <1>10, <1>11, <2>1 DEF StartsAs
<1> QED BY <1>8, <1>9, <1>12

(* The rows of an item are rows.                                           *)
LEMMA RowsTyped ==
    ASSUME NEW i \in Items, NEW s \in Stores
    PROVE  Row(s, i) \in Stores \X (Items \cup {Source[x] : x \in Items})
BY DEF Row

(* A thread that begins was idle.                                          *)
LEMMA BeginsIs ==
    ASSUME TypeInv, NEW t \in Threads, Begins(t)
    PROVE  job[t] = Idle /\ ops' \in 0..MaxOps
BY BoundsAssumption DEF Begins, TypeInv

(* The requests to ingest keep the types;                                  *)
LEMMA IngestRequestOk ==
    ASSUME TypeInv, NEW t \in Threads, IngestRequest(t)
    PROVE  TypeInv'
<1>1. PICK i \in Items, force \in BOOLEAN : IngestVideo(t, i, force) \/ IngestPage(t, i, force)
  BY DEF IngestRequest
<1>2. CASE IngestVideo(t, i, force)
  <2>1. job[t] = Idle /\ ops' \in 0..MaxOps
    BY <1>2, BeginsIs DEF IngestVideo
  <2>2. /\ PlanFits("mark", i, <<"mark">>) /\ PlanFits("ingest", i, <<"read", "refetch">>)
        /\ PlanFits("ingest", i, <<"read", "transcript">>)
    BY DEF PlanFits
  <2>3. JobsOk(job') /\ muddled' \subseteq Items
    <3>1. CASE StartsRewriting(t, "mark", i, <<"mark">>)
      BY <2>1, <2>2, <3>1, StartsOk, NamesHave
    <3>2. CASE StartsRewriting(t, "ingest", i, <<"read", "refetch">>)
      BY <2>1, <2>2, <3>2, StartsOk, NamesHave
    <3>3. CASE StartsRewriting(t, "ingest", i, <<"read", "transcript">>)
      BY <2>1, <2>2, <3>3, StartsOk, NamesHave
    <3> QED BY <1>2, <3>1, <3>2, <3>3 DEF IngestVideo
  <2>4. rows' \subseteq Stores \X (Items \cup {Source[x] : x \in Items})
    <3>1. "yt" \in Stores
      BY DEF Stores
    <3>2. rows' = rows \/ rows' = rows \cup {Row("yt", i)}
      BY <1>2 DEF IngestVideo
    <3> QED BY <3>1, <3>2, RowsTyped DEF TypeInv
  <2> QED BY <1>2, <2>1, <2>3, <2>4 DEF IngestVideo, TypeInv
<1>3. CASE IngestPage(t, i, force)
  <2>1. job[t] = Idle /\ ops' \in 0..MaxOps
    BY <1>3, BeginsIs DEF IngestPage
  <2>2. PICK trusted \in BOOLEAN : StartsRewriting(t, "ingest", i, <<"page", sqlite, trusted>>)
    BY <1>3 DEF IngestPage
  <2>3. PlanFits("ingest", i, <<"page", sqlite, trusted>>) /\ <<"page", sqlite, trusted>> \in Names
    BY NamesHave DEF PlanFits, TypeInv
  <2>4. JobsOk(job') /\ muddled' \subseteq Items
    BY <2>1, <2>2, <2>3, StartsOk
  <2> QED BY <1>3, <2>1, <2>4 DEF IngestPage, TypeInv
<1> QED BY <1>1, <1>2, <1>3

(* so do those of the users.                                               *)
LEMMA UserRequestOk ==
    ASSUME TypeInv, NEW t \in Threads, UserRequest(t)
    PROVE  TypeInv'
<1>1. PICK i \in Items :
         \/ archive(t, i) /\ UNCHANGED storeVars
         \/ revive(t, i) /\ UNCHANGED storeVars
         \/ merge(t, i) /\ UNCHANGED storeVars
         \/ Search(t, i) \/ DeleteMemory(t, i) \/ RecordReview(t, i)
  BY DEF UserRequest
<1>2. ASSUME NEW s \in {"archived", "revived", "merged"}, Asks(t, "state", i, <<"to", s>>),
             UNCHANGED storeVars
      PROVE  TypeInv'
  <2>1. job[t] = Idle /\ ops' \in 0..MaxOps
    BY <1>2, BeginsIs DEF Asks
  <2> DEFINE b == Begun("state", i, <<"to", s>>)
             k == [b EXCEPT !.mid = record[i].id]
  <2>2. PlanFits("state", i, <<"to", s>>) /\ <<"to", s>> \in Names
    BY NamesHave DEF PlanFits
  <2>a. b = Begun("state", i, <<"to", s>>)
    OBVIOUS
  <2>b. Fresh(Begun("state", i, <<"to", s>>), "state", i, <<"to", s>>)
    <3>1. "state" \in Ops \ {"idle"}
      BY DEF Ops
    <3> QED BY <2>2, <3>1, BegunOk
  <2> HIDE DEF b
  <2>3. JobOk(b) /\ b # Idle
    BY <2>a, <2>b DEF Fresh
  <2>4. record[i].id \in Nat
    BY DEF TypeInv, RecordType
  <2>5. JobOk(k)
    BY <2>3, <2>4, FieldsSet
  <2>6. job' = [job EXCEPT ![t] = k]
    BY <1>2, <2>a DEF Asks, Begun
  <2> HIDE DEF k
  <2>7. JobsOk(job')
    BY <2>5, <2>6, JobChanged DEF TypeInv
  <2> QED BY <1>2, <2>1, <2>7 DEF Asks, TypeInv, storeVars
<1>3. CASE Search(t, i)
  <2>1. job[t] = Idle /\ ops' \in 0..MaxOps
    BY <1>3, BeginsIs DEF Search
  <2> DEFINE b == Begun("search", i, <<"search">>)
             m == [b EXCEPT !.ver = version]
             k == [m EXCEPT !.began = version]
  <2>2. PlanFits("search", i, <<"search">>) /\ <<"search">> \in Names
    BY NamesHave DEF PlanFits
  <2>a. b = Begun("search", i, <<"search">>)
    OBVIOUS
  <2>b. Fresh(Begun("search", i, <<"search">>), "search", i, <<"search">>)
    <3>1. "search" \in Ops \ {"idle"}
      BY DEF Ops
    <3> QED BY <2>2, <3>1, BegunOk
  <2> HIDE DEF b
  <2>3. JobOk(b) /\ b # Idle
    BY <2>a, <2>b DEF Fresh
  <2>4. JobOk(m) /\ m # Idle
    BY <2>3, FieldsSet DEF TypeInv
  <2>5. job' = [job EXCEPT ![t] = k]
    BY <1>3, <2>a DEF Search, Begun
  <2> HIDE DEF m
  <2>6. JobOk(k)
    BY <2>4, FieldsSet DEF TypeInv
  <2> HIDE DEF k
  <2>7. JobsOk(job')
    BY <2>5, <2>6, JobChanged DEF TypeInv
  <2> QED BY <1>3, <2>1, <2>7 DEF Search, TypeInv
<1>4. CASE DeleteMemory(t, i)
  <2>1. job[t] = Idle /\ ops' \in 0..MaxOps
    BY <1>4, BeginsIs DEF DeleteMemory
  <2>2. PlanFits("delete", i, <<"delete", Source[i] \in Pages>>)
          /\ <<"delete", Source[i] \in Pages>> \in Names
    <3>1. (Source[i] \in Pages) \in BOOLEAN
      OBVIOUS
    <3> QED BY <3>1, NamesHave, Zenon DEF PlanFits
  <2>3. JobsOk(job') /\ muddled' \subseteq Items
    BY <1>4, <2>1, <2>2, StartsOk DEF DeleteMemory
  <2> QED BY <1>4, <2>1, <2>3 DEF DeleteMemory, TypeInv
<1>5. CASE RecordReview(t, i)
  <2>1. job[t] = Idle /\ ops' \in 0..MaxOps
    BY <1>5, BeginsIs DEF RecordReview
  <2>2. PlanFits("review", i, <<"review">>) /\ <<"review">> \in Names
    BY NamesHave DEF PlanFits
  <2>3. JobsOk(job') /\ muddled' \subseteq Items
    BY <1>5, <2>1, <2>2, StartsOk DEF RecordReview
  <2> QED BY <1>5, <2>1, <2>3 DEF RecordReview, TypeInv
<1> QED BY <1>1, <1>2, <1>3, <1>4, <1>5 DEF archive, revive, merge

(* The calls of a page's deletion, place by place,                         *)
LEMMA PageDeletionKinds ==
    ASSUME NEW p, PageDeletion(p), NEW k \in 1..Len(p)
    PROVE  /\ k \in 1..10
           /\ p[k][1] = "invalidate" <=> k = 10
           /\ p[k][1] = "forget" <=> k = 9
           /\ p[k][1] = "others" <=> k = 2
           /\ p[k][1] = "drop" <=> k \in {1, 3, 4, 5, 6, 7, 8}
<1>1. /\ k \in 1..10 /\ p[1][1] = "drop" /\ p[2][1] = "others" /\ p[3][1] = "drop"
      /\ p[4][1] = "drop"
      /\ p[5][1] = "drop" /\ p[6][1] = "drop" /\ p[7][1] = "drop" /\ p[8][1] = "drop"
      /\ p[9][1] = "forget" /\ p[10][1] = "invalidate"
  BY DEF PageDeletion
<1>2. k = 1 \/ k = 2 \/ k = 3 \/ k = 4 \/ k = 5 \/ k = 6 \/ k = 7 \/ k = 8 \/ k = 9 \/ k = 10
  BY <1>1
<1> QED BY <1>1, <1>2

(* and those of a video's.                                                 *)
LEMMA VideoDeletionKinds ==
    ASSUME NEW p, VideoDeletion(p), NEW k \in 1..Len(p)
    PROVE  /\ k \in 1..11
           /\ p[k][1] = "invalidate" <=> k = 11
           /\ p[k][1] = "forget" <=> k = 10
           /\ p[k][1] = "others" <=> k = 2
           /\ p[k][1] = "drop" <=> k \in {1, 3, 4, 5, 6, 7, 8, 9}
<1>1. /\ k \in 1..11 /\ p[1][1] = "drop" /\ p[2][1] = "others" /\ p[3][1] = "drop"
      /\ p[4][1] = "drop"
      /\ p[5][1] = "drop" /\ p[6][1] = "drop" /\ p[7][1] = "drop" /\ p[8][1] = "drop"
      /\ p[9][1] = "drop" /\ p[10][1] = "forget" /\ p[11][1] = "invalidate"
  BY DEF VideoDeletion
<1>2. \/ k = 1 \/ k = 2 \/ k = 3 \/ k = 4 \/ k = 5 \/ k = 6 \/ k = 7 \/ k = 8 \/ k = 9
      \/ k = 10 \/ k = 11
  BY <1>1
<1> QED BY <1>1, <1>2

(* A deletion's plan is the one of its source,                             *)
LEMMA DeletionIs ==
    ASSUME NEW j, Busy(j), j.op = "delete"
    PROVE  IF Source[j.item] \in Pages THEN PageDeletion(Plan[j.plan])
           ELSE VideoDeletion(Plan[j.plan])
<1>1. j.plan = <<"delete", Source[j.item] \in Pages>>
  BY Zenon DEF Busy, PlanFits
<1>2. CASE Source[j.item] \in Pages
  <2>1. j.plan = <<"delete", TRUE>>
    <3>1. (Source[j.item] \in Pages) = TRUE
      BY <1>2
    <3> QED BY <1>1, <3>1, Zenon
  <2>2. Plan[<<"delete", TRUE>>] = DeletionPlan(TRUE)
    BY PlansAre
  <2> QED BY <1>2, <2>1, <2>2, PageDeletionIs, Zenon
<1>3. CASE Source[j.item] \notin Pages
  <2>1. j.plan = <<"delete", FALSE>>
    <3>1. (Source[j.item] \in Pages) = FALSE
      BY <1>3
    <3> QED BY <1>1, <3>1, Zenon
  <2>2. Plan[<<"delete", FALSE>>] = DeletionPlan(FALSE)
    BY PlansAre
  <2> QED BY <1>3, <2>1, <2>2, VideoDeletionIs, Zenon
<1> QED BY <1>2, <1>3

(* and ends with the invalidation.                                         *)
LEMMA DeletionEnds ==
    ASSUME NEW j, Busy(j), j.op = "delete"
    PROVE  Plan[j.plan][j.at][1] = "invalidate" <=> j.at = Len(Plan[j.plan])
<1>1. j.at \in 1..Len(Plan[j.plan])
  BY DEF Busy
<1>2. CASE PageDeletion(Plan[j.plan])
  <2>1. Len(Plan[j.plan]) = 10
    BY <1>2 DEF PageDeletion
  <2> QED BY <1>1, <1>2, <2>1, PageDeletionKinds
<1>3. CASE VideoDeletion(Plan[j.plan])
  <2>1. Len(Plan[j.plan]) = 11
    BY <1>3 DEF VideoDeletion
  <2> QED BY <1>1, <1>3, <2>1, VideoDeletionKinds
<1> QED BY <1>2, <1>3, DeletionIs

(* A deletion has more to do after it looked for others or dropped rows; a *)
(* search goes on after its retrieval.                                     *)
LEMMA NotLast ==
    ASSUME JobsOk(job), NEW t \in Threads, NEW kind, Doing(t, kind)
    PROVE  /\ job[t].op = "delete" /\ kind # "invalidate" => ~LastCall(job[t])
           /\ kind \in {"get", "retrieve", "put?"} => ~LastCall(job[t])
           /\ kind = "store" => LastCall(job[t])
           /\ kind = "invalidate" => LastCall(job[t])
<1> DEFINE j == job[t]
<1>1. /\ j # Idle /\ JobOk(j) /\ Busy(j) /\ kind \in Kinds(j.op)
      /\ kind # "to" => j.path = <<>> /\ Call(j) = Plan[j.plan][j.at]
      /\ Call(j)[1] = kind /\ j.op \in Ops \ {"idle"}
  BY DoingIs DEF JobOk, Busy, JobType
<1> HIDE DEF j
<1>2. j.op = "delete" /\ kind # "invalidate" => ~LastCall(j)
  <2> HAVE j.op = "delete" /\ kind # "invalidate"
  <2>1. kind # "to"
    BY <1>1 DEF Kinds
  <2> QED BY <1>1, <2>1, DeletionEnds DEF LastCall
<1>3. kind \in {"get", "retrieve", "put?", "store"} =>
         j.op = "search" /\ j.plan = <<"search">> /\ j.at \in 1..4 /\ Len(Plan[j.plan]) = 4
           /\ SearchPlan[j.at][1] = kind /\ j.path = <<>>
  <2> HAVE kind \in {"get", "retrieve", "put?", "store"}
  <2>1. j.op = "search"
    BY <1>1 DEF Kinds, Ops
  <2>2. j.plan = <<"search">>
    BY <1>1, <2>1 DEF Busy, PlanFits
  <2>3. Plan[j.plan] = SearchPlan
    BY <2>2, PlansAre
  <2> QED BY <1>1, <2>1, <2>2, <2>3, ShortPlans DEF Busy
<1>4. kind \in {"get", "retrieve", "put?"} => ~LastCall(j)
  <2> HAVE kind \in {"get", "retrieve", "put?"}
  <2>1. j.at # 4
    BY <1>3, ShortPlans
  <2> QED BY <1>3, <2>1 DEF LastCall
<1>5. kind = "store" => LastCall(j)
  <2> HAVE kind = "store"
  <2>1. j.at = 4
    BY <1>3, ShortPlans
  <2> QED BY <1>3, <2>1 DEF LastCall
<1>6. kind = "invalidate" => LastCall(j)
  <2> HAVE kind = "invalidate"
  <2>1. j.op = "delete" /\ j.path = <<>> /\ Plan[j.plan][j.at][1] = "invalidate"
    BY <1>1 DEF Kinds, Ops
  <2> QED BY <1>1, <2>1, DeletionEnds DEF LastCall
<1> QED BY <1>2, <1>4, <1>5, <1>6 DEF j

(* The calls on the stores keep the types,                                 *)
LEMMA StoreStepOk ==
    ASSUME TypeInv, NEW t \in Threads, Adds(t) \/ AddsNothing(t) \/ Drops(t) \/ Wipes(t)
    PROVE  TypeInv'
<1> USE DEF TypeInv
<1>1. CASE Adds(t)
  <2>1. /\ JobsOk(job') /\ Of(t) \in Items /\ CallFacts(Call(job[t])) /\ Call(job[t])[1] = "add"
        /\ Argument(t) = Call(job[t])[2]
    BY <1>1, DoingIs, AdvancesOk DEF Adds
  <2>2. Argument(t) \subseteq Stores
    BY <2>1 DEF CallFacts, Added
  <2>3. rows' \subseteq Stores \X (Items \cup {Source[i] : i \in Items})
    BY <1>1, <2>1, <2>2, RowsTyped DEF Adds
  <2> QED BY <1>1, <2>1, <2>3 DEF Adds
<1>2. CASE AddsNothing(t)
  <2>1. JobsOk(job')
    BY <1>2, AdvancesOk DEF AddsNothing
  <2> QED BY <1>2, <2>1 DEF AddsNothing
<1>3. CASE Drops(t)
  <2>1. JobsOk(job')
    BY <1>3, AdvancesOk DEF Drops
  <2> QED BY <1>3, <2>1 DEF Drops
<1>4. CASE Wipes(t)
  <2>1. JobsOk(job')
    BY <1>4, AdvancesOk DEF Wipes
  <2>2. NoAnswer \in EntryType
    BY DEF NoAnswer, EntryType
  <2> QED BY <1>4, <2>1, <2>2 DEF Wipes
<1> QED BY <1>1, <1>2, <1>3, <1>4

(* as do the index version's,                                              *)
LEMMA BumpsOk ==
    ASSUME TypeInv, NEW t \in Threads, Bumps(t)
    PROVE  TypeInv'
<1> USE DEF TypeInv
<1>1. job[t] # Idle /\ JobOk(job[t])
  BY DoingIs DEF Bumps
<1>2. CASE sqlite /\ ~job[t].read
  <2> DEFINE m == [job[t] EXCEPT !.read = TRUE]
             k == [m EXCEPT !.ver = version]
  <2>1. job' = [job EXCEPT ![t] = k]
    BY <1>2 DEF Bumps, JobsOk
  <2>2. JobOk(m) /\ m # Idle
    BY <1>1, FieldsSet
  <2> HIDE DEF m
  <2>3. JobOk(k)
    BY <2>2, FieldsSet
  <2> HIDE DEF k
  <2>4. JobsOk(job')
    BY <2>1, <2>3, JobChanged
  <2> QED BY <1>2, <2>4 DEF Bumps
<1>3. CASE sqlite /\ job[t].read
  <2>1. JobsOk(job')
    BY <1>3, AdvancesOk DEF Bumps
  <2>2. version' \in Nat
    BY <1>1, <1>3 DEF Bumps, JobOk, JobType
  <2> QED BY <1>3, <2>1, <2>2 DEF Bumps
<1>4. CASE ~sqlite
  <2>1. JobsOk(job')
    BY <1>4, AdvancesOk DEF Bumps
  <2>2. NoAnswer \in EntryType
    BY DEF NoAnswer, EntryType
  <2> QED BY <1>4, <2>1, <2>2 DEF Bumps
<1> QED BY <1>2, <1>3, <1>4

(* all the calls of an ingest,                                             *)
LEMMA PipelineStepOk ==
    ASSUME TypeInv, NEW t \in Threads, PipelineStep(t)
    PROVE  TypeInv'
<1>1. CASE RecordStep(t) /\ UNCHANGED <<storeVars, ops, faults>>
  <2>1. JobsOk(job') /\ record' \in [Items -> RecordType] /\ nextId' \in Nat \ {0}
    BY <1>1, RecordStepOk
  <2> QED BY <1>1, <2>1 DEF TypeInv, storeVars
<1> QED BY <1>1, StoreStepOk, BumpsOk DEF PipelineStep

(* the reading of a transcript,                                            *)
LEMMA ReadTranscriptOk ==
    ASSUME TypeInv, NEW t \in Threads, ReadTranscript(t)
    PROVE  TypeInv'
<1> DEFINE j == job[t]
<1>1. PICK kind \in {"transcript", "refetch"} : Doing(t, kind)
  BY DEF ReadTranscript
<1>2. /\ j # Idle /\ JobOk(j) /\ Busy(j) /\ kind \in Kinds(j.op) /\ j.path = <<>>
      /\ Plan[j.plan][j.at][1] = kind /\ j.item \in Items
  BY <1>1, DoingIs DEF TypeInv, Of
<1>3. j.op = "ingest"
  BY <1>2 DEF Kinds, JobOk, JobType, Ops, Busy
<1>4. j \in JobType
  BY <1>2 DEF JobOk
<1>5. j.at \in Nat /\ j.at = 1
  <2>1. j.plan[1] \in {"video", "page", "read"} /\ j.plan \in Names
    BY <1>2, <1>3 DEF Busy, PlanFits
  <2>2. Plan[j.plan][j.at] \in Calls(j.plan)
    BY <1>2, PlansTyped DEF Busy
  <2>3. Calls(j.plan) # Refilling
    BY <1>2, <2>2, KindsAre
  <2>4. j.plan[1] = "read"
    BY <2>1, <2>3 DEF Calls
  <2>5. j.plan = <<"read", "transcript">> \/ j.plan = <<"read", "refetch">>
    BY <2>1, <2>4, NamesAre
  <2>6. Len(Plan[j.plan]) = 1
    BY <2>5, PlansAre
  <2> QED BY <1>2, <2>6 DEF Busy
<1>6. CASE Raises(t)
  <2>1. JobsOk(job')
    BY <1>6, RaisesOk DEF TypeInv
  <2> QED BY <2>1 DEF ReadTranscript, TypeInv
<1>7. CASE job' = [job EXCEPT ![t] = IF Marked(Of(t)) THEN Idle
                                     ELSE [@ EXCEPT !.op = "mark", !.plan = <<"mark">>]]
  <2> DEFINE m == [j EXCEPT !.op = "mark"]
             k == [m EXCEPT !.plan = <<"mark">>]
             n == IF Marked(Of(t)) THEN Idle ELSE k
  <2>1. job' = [job EXCEPT ![t] = n]
    BY <1>7 DEF TypeInv, JobsOk
  <2>2. m \in JobType /\ m.op = "mark" /\ m.item = j.item /\ m.at = j.at /\ m.path = j.path
    BY <1>4 DEF JobType, Ops
  <2> HIDE DEF m
  <2>3. /\ k \in JobType /\ k.op = m.op /\ k.item = m.item /\ k.at = m.at /\ k.path = m.path
        /\ k.plan = <<"mark">>
    BY <2>2, NamesHave DEF JobType
  <2> HIDE DEF k
  <2>4. 1 \in 1..Len(Plan[<<"mark">>]) /\ <<"mark">> \in Names
    BY NamesHave, PlansAre, ShortPlans
  <2>5. Busy(k)
    BY <1>2, <1>5, <2>2, <2>3, <2>4 DEF Busy, PlanFits
  <2>6. JobOk(n)
    BY <2>3, <2>5, IdleOk DEF JobOk
  <2> HIDE DEF n
  <2>7. JobsOk(job')
    BY <2>1, <2>6, JobChanged DEF TypeInv
  <2> QED BY <2>7 DEF ReadTranscript, TypeInv
<1>8. CASE \E trusted \in BOOLEAN : job' = [job EXCEPT ![t].plan = <<"video", sqlite, trusted>>]
  <2>1. PICK trusted \in BOOLEAN : job' = [job EXCEPT ![t].plan = <<"video", sqlite, trusted>>]
    BY <1>8
  <2> DEFINE n == <<"video", sqlite, trusted>>
             k == [j EXCEPT !.plan = n]
  <2>2. n \in Names /\ PlanFits("ingest", j.item, n) /\ 1 \in 1..Len(Plan[n])
    <3>1. n \in Names
      BY NamesHave DEF TypeInv
    <3> QED BY <3>1, PlansTyped DEF PlanFits
  <2>3. job' = [job EXCEPT ![t] = k]
    BY <2>1 DEF TypeInv, JobsOk
  <2> HIDE DEF n
  <2>4. /\ k \in JobType /\ k.op = j.op /\ k.item = j.item /\ k.at = j.at /\ k.path = j.path
        /\ k.plan = n
    BY <1>4, <2>2 DEF JobType
  <2> HIDE DEF k
  <2>5. Busy(k)
    BY <1>2, <1>3, <1>5, <2>2, <2>4 DEF Busy
  <2>6. JobsOk(job')
    BY <2>3, <2>4, <2>5, JobChanged DEF TypeInv, JobOk
  <2> QED BY <2>6 DEF ReadTranscript, TypeInv
<1> QED BY <1>6, <1>7, <1>8 DEF ReadTranscript

(* a search,                                                               *)
LEMMA SearchStepOk ==
    ASSUME TypeInv, NEW t \in Threads, SearchStep(t)
    PROVE  TypeInv'
<1> USE DEF TypeInv
<1>1. CASE CacheGet(t)
  <2>1. JobsOk(job')
    BY <1>1, RaisesOk, AdvancesOk DEF CacheGet
  <2> QED BY <1>1, <2>1 DEF CacheGet, SearchKeeps
<1>2. CASE Retrieve(t)
  <2> DEFINE k == [Stepped(job[t]) EXCEPT !.ans = Answers(t)]
  <2>1. job[t] # Idle /\ JobOk(job[t]) /\ ~LastCall(job[t])
    BY <1>2, DoingIs, NotLast DEF Retrieve
  <2>2. JobOk(Stepped(job[t])) /\ Stepped(job[t]) # Idle
    BY <2>1, SteppedIs
  <2>3. Answers(t) \in SUBSET Items
    BY DEF Answers
  <2>4. JobOk(k)
    BY <2>2, <2>3, FieldsSet
  <2>5. job' = [job EXCEPT ![t] = k]
    BY <1>2 DEF Retrieve, JobsOk
  <2> HIDE DEF k
  <2>6. JobsOk(job')
    BY <2>4, <2>5, JobChanged
  <2> QED BY <1>2, <2>6 DEF Retrieve, SearchKeeps
<1>3. CASE ReadVersions(t)
  <2> DEFINE k == IF job[t].ans = {} THEN Idle ELSE [Stepped(job[t]) EXCEPT !.ver = version]
  <2>1. job[t] # Idle /\ JobOk(job[t]) /\ ~LastCall(job[t])
    BY <1>3, DoingIs, NotLast DEF ReadVersions
  <2>2. JobOk(Stepped(job[t])) /\ Stepped(job[t]) # Idle
    BY <2>1, SteppedIs
  <2>4. JobOk(k)
    BY <2>2, FieldsSet, IdleOk
  <2>5. job' = [job EXCEPT ![t] = k]
    BY <1>3 DEF ReadVersions, JobsOk
  <2> HIDE DEF k
  <2>6. JobsOk(job')
    BY <2>4, <2>5, JobChanged
  <2> QED BY <1>3, <2>6 DEF ReadVersions, SearchKeeps
<1>4. CASE CachePut(t)
  <2>1. JobOk(job[t]) /\ Of(t) \in Items
    BY <1>4, DoingIs DEF CachePut
  <2> DEFINE e == [ver |-> job[t].ver, began |-> job[t].began, ans |-> job[t].ans,
                   late |-> job[t].late]
  <2>2. e \in EntryType
    BY <2>1 DEF JobOk, JobType, EntryType
  <2>3. cache' = [cache EXCEPT ![Asker(t)] = e]
    BY <1>4 DEF CachePut
  <2> HIDE DEF e
  <2>4. cache' \in [Users -> EntryType]
    BY <2>2, <2>3
  <2>5. JobsOk(job')
    BY <1>4, RaisesOk DEF CachePut
  <2> QED BY <1>4, <2>4, <2>5 DEF CachePut, SearchKeeps
<1> QED BY <1>1, <1>2, <1>3, <1>4 DEF SearchStep

(* a deletion,                                                             *)
LEMMA DeletionStepOk ==
    ASSUME TypeInv, NEW t \in Threads, DeletionStep(t)
    PROVE  TypeInv'
<1> USE DEF TypeInv
<1>1. CASE LooksForOthers(t)
  <2> DEFINE found == \E j \in Items : /\ Source[j] = Source[Of(t)] /\ Owner[j] # Owner[Of(t)]
                                       /\ Has("registry", j) \/ record[j] # Absent
             k == [Stepped(job[t]) EXCEPT !.shared = found]
  <2>1. job[t] # Idle /\ JobOk(job[t]) /\ ~LastCall(job[t])
    <3>1. "others" \in Kinds(job[t].op) /\ job[t].op \in Ops \ {"idle"}
      BY <1>1, DoingIs DEF LooksForOthers, JobOk, Busy, JobType
    <3>2. job[t].op = "delete"
      BY <3>1 DEF Kinds, Ops
    <3> QED BY <1>1, <3>2, DoingIs, NotLast DEF LooksForOthers
  <2>2. JobOk(Stepped(job[t])) /\ Stepped(job[t]) # Idle
    BY <2>1, SteppedIs
  <2>3. job' = [job EXCEPT ![t] = k]
    BY <1>1 DEF LooksForOthers, JobsOk
  <2>4. found \in BOOLEAN
    OBVIOUS
  <2> HIDE DEF found
  <2>5. JobOk(k)
    BY <2>2, <2>4, FieldsSet
  <2> HIDE DEF k
  <2>6. JobsOk(job')
    BY <2>3, <2>5, JobChanged
  <2> QED BY <1>1, <2>6 DEF LooksForOthers
<1>2. CASE Forgets(t)
  <2>1. JobsOk(job')
    BY <1>2, AdvancesOk, RaisesOk DEF Forgets
  <2>2. Absent \in RecordType
    BY DEF Absent, RecordType
  <2>3. record' \in [Items -> RecordType]
    BY <1>2, <2>2 DEF Forgets
  <2> QED BY <1>2, <2>1, <2>3 DEF Forgets
<1>3. CASE Invalidates(t)
  <2> DEFINE u == Owner[Of(t)]
  <2>1. /\ cache' = [cache EXCEPT ![u] = NoAnswer]
        /\ job' = [x \in Threads |->
                     IF x = t THEN Idle
                     ELSE IF job[x].op = "search" /\ Asker(x) = u THEN [job[x] EXCEPT !.late = TRUE]
                     ELSE job[x]]
    BY <1>3 DEF Invalidates, Invalidated
  <2>2. NoAnswer \in EntryType
    BY DEF NoAnswer, EntryType
  <2>3. cache' \in [Users -> EntryType]
    BY <2>1, <2>2
  <2>4. \A x \in Threads : job[x].op = "search" => JobOk([job[x] EXCEPT !.late = TRUE])
    BY IdleOk, FieldsSet DEF JobsOk
  <2>5. \A x \in Threads : JobOk(job'[x])
    BY <2>1, <2>4, IdleOk DEF JobsOk
  <2>6. JobsOk(job')
    BY <2>1, <2>5 DEF JobsOk, JobOk
  <2> QED BY <1>3, <2>3, <2>6 DEF Invalidates
<1> QED BY <1>1, <1>2, <1>3 DEF DeletionStep

(* What a deletion has missed when it goes on after a drop that failed. *)
Misses(t) == job[t].missed \cup Argument(t)

(* It is more than it had missed before, and of the stores.                *)
LEMMA MissesMore ==
    ASSUME JobsOk(job), NEW t \in Threads, DropSwallowed(t)
    PROVE  /\ Misses(t) \in SUBSET Stores /\ job[t].missed \subseteq Misses(t)
           /\ Argument(t) \subseteq Misses(t) /\ Misses(t) # {}
           /\ job' = [job EXCEPT ![t] = [Stepped(job[t]) EXCEPT !.missed = Misses(t)]]
           /\ ~LastCall(job[t])
<1>1. job[t] # Idle /\ JobOk(job[t]) /\ ~LastCall(job[t])
  BY DoingIs, NotLast DEF DropSwallowed
<1>2. job[t].missed \subseteq Stores
  BY <1>1 DEF JobOk, JobType
<1>3. Argument(t) = {"chunks"} \/ Argument(t) = {"fts"}
  BY DEF DropSwallowed
<1>4. job' = [job EXCEPT ![t] = [Stepped(job[t]) EXCEPT !.missed = Misses(t)]]
  BY DEF DropSwallowed, JobsOk, Misses
<1>5. {"chunks", "fts"} \subseteq Stores
  BY DEF Stores
<1> QED BY <1>1, <1>2, <1>3, <1>4, <1>5 DEF Misses

(* a call that raises,                                                     *)
LEMMA FailuresOk ==
    ASSUME TypeInv, NEW t \in Threads, DropSwallowed(t) \/ CallRaises(t)
    PROVE  TypeInv'
<1> USE DEF TypeInv
<1>1. CASE DropSwallowed(t)
  <2> DEFINE k == [Stepped(job[t]) EXCEPT !.missed = Misses(t)]
  <2>1. job[t] # Idle /\ JobOk(job[t]) /\ ~LastCall(job[t])
    BY <1>1, DoingIs, NotLast DEF DropSwallowed
  <2>2. JobOk(Stepped(job[t])) /\ Stepped(job[t]) # Idle
    BY <2>1, SteppedIs
  <2>3. job' = [job EXCEPT ![t] = k] /\ Misses(t) \in SUBSET Stores
    BY <1>1, MissesMore
  <2>4. JobOk(k)
    BY <2>2, <2>3, FieldsSet
  <2> HIDE DEF k
  <2>5. JobsOk(job')
    BY <2>3, <2>4, JobChanged
  <2>6. muddled' \subseteq Items
    BY <1>1, TouchingIs DEF DropSwallowed
  <2>7. faults' \in 0..MaxFaults
    BY <1>1, CountsUp DEF DropSwallowed
  <2> QED BY <1>1, <2>5, <2>6, <2>7 DEF DropSwallowed
<1>2. CASE CallRaises(t)
  <2>1. JobsOk(job')
    BY <1>2, RaisesOk DEF CallRaises
  <2>2. muddled' \subseteq Items
    BY <1>2, TouchingIs DEF CallRaises
  <2>3. faults' \in 0..MaxFaults
    BY <1>2, CountsUp DEF CallRaises
  <2> QED BY <1>2, <2>1, <2>2, <2>3 DEF CallRaises
<1> QED BY <1>1, <1>2

(* and a crash.                                                            *)
LEMMA CrashOk == TypeInv /\ Crash => TypeInv'
<1> SUFFICES ASSUME TypeInv, Crash PROVE TypeInv'
  OBVIOUS
<1>1. JobsOk(job')
  BY IdleOk DEF Crash, JobsOk, JobOk
<1>2. muddled' \subseteq Items
  BY TouchingIs DEF Crash, TypeInv
<1>3. faults' \in 0..MaxFaults
  BY CountsUp DEF Crash, TypeInv
<1> QED BY <1>1, <1>2, <1>3 DEF TypeInv, Crash

(* The types hold at the start,                                            *)
LEMMA TypeInit == Init => TypeInv
<1> SUFFICES ASSUME NEW saved \in Starts, RecordsInit(saved), StoresInit(saved) PROVE TypeInv
  BY DEF Init
<1>1. saved \subseteq Items
  BY StartsAssumption
<1>2. record \in [Items -> RecordType]
  BY StatesHave DEF RecordsInit, RecordType, Absent
<1>3. nextId \in Nat \ {0} /\ ops \in 0..MaxOps /\ faults \in 0..MaxFaults
  BY BoundsAssumption DEF RecordsInit
<1>4. JobsOk(job)
  BY IdleOk DEF RecordsInit, JobsOk, JobOk
<1>5. rows \subseteq Stores \X (Items \cup {Source[i] : i \in Items})
  <2> DEFINE V == {x \in saved : Source[x] \notin Pages}
             P == {x \in saved : Source[x] \in Pages}
  <2>1. rows = {Row(s, i) : s \in Stores \ {"review"}, i \in V}
                 \cup {Row(s, i) : s \in Stores \ {"review", "yt", "hash"}, i \in P}
    BY DEF StoresInit
  <2>2. V \subseteq Items /\ P \subseteq Items
    BY <1>1
  <2> HIDE DEF V, P
  <2> QED BY <2>1, <2>2, RowsTyped
<1>6. cache \in [Users -> EntryType]
  BY DEF StoresInit, NoAnswer, EntryType
<1> QED BY <1>2, <1>3, <1>4, <1>5, <1>6 DEF TypeInv, StoresInit

(* are kept by every step,                                                 *)
LEMMA TypeStep == TypeInv /\ [Next]_vars => TypeInv'
<1> SUFFICES ASSUME TypeInv, [Next]_vars PROVE TypeInv'
  OBVIOUS
<1>1. CASE UNCHANGED vars
  BY <1>1 DEF vars, recordVars, storeVars, TypeInv
<1>2. CASE Crash
  BY <1>2, CrashOk
<1>3. ASSUME NEW t \in Threads,
             \/ UserRequest(t) \/ IngestRequest(t)
             \/ PipelineStep(t) \/ ReadTranscript(t)
             \/ SearchStep(t) \/ DeletionStep(t) \/ DropSwallowed(t) \/ CallRaises(t)
      PROVE  TypeInv'
  BY <1>3, UserRequestOk, IngestRequestOk, PipelineStepOk, ReadTranscriptOk, SearchStepOk,
     DeletionStepOk, FailuresOk
<1> QED BY <1>1, <1>2, <1>3 DEF Next

(* and are those the runs check.                                           *)
LEMMA TypeInvTypes == TypeInv => TypeOK
<1> SUFFICES ASSUME TypeInv PROVE TypeOK
  OBVIOUS
<1> USE DEF TypeInv
<1>1. ASSUME NEW t \in Threads
      PROVE  /\ DOMAIN job[t] = DOMAIN Idle
             /\ job[t].op \in {"idle", "ingest", "mark", "delete", "review", "search", "state"}
             /\ IF job[t] = Idle THEN job[t].op = "idle"
                ELSE job[t].plan \in Names /\ job[t].at \in DOMAIN Plan[job[t].plan]
             /\ \A k \in DOMAIN job[t].path : job[t].path[k] \in {"to"} \X States
  <2>1. JobOk(job[t]) /\ job[t] \in JobType /\ Idle \in JobType
    BY IdleOk DEF JobsOk, JobOk
  <2>2. DOMAIN job[t] = DOMAIN Idle
    BY <2>1 DEF JobType
  <2>3. job[t].op \in Ops
    BY <2>1 DEF JobType
  <2>4. job[t] # Idle => job[t].plan \in Names /\ job[t].at \in DOMAIN Plan[job[t].plan]
    <3> HAVE job[t] # Idle
    <3>1. job[t].plan \in Names /\ job[t].at \in 1..Len(Plan[job[t].plan])
      BY <2>1 DEF JobOk, Busy
    <3>2. Plan[job[t].plan] \in Seq(Calls(job[t].plan))
      BY <3>1, PlansTyped
    <3> QED BY <3>1, <3>2
  <2>5. job[t].path \in Seq(Moving)
    BY <2>1 DEF JobType
  <2>6. \A k \in DOMAIN job[t].path : job[t].path[k] \in {"to"} \X States
    BY <2>5 DEF Moving
  <2> QED BY <2>2, <2>3, <2>4, <2>6, IdleOk DEF Ops
<1>2. record \in [Items -> [id : Nat, state : States \cup {"none"}]]
  BY DEF RecordType
<1>3. cache \in [Users -> [ver : Nat, began : Nat, ans : SUBSET Items, late : BOOLEAN]]
  BY DEF EntryType
<1> QED BY <1>1, <1>2, <1>3 DEF TypeOK

-----------------------------------------------------------------------------
(* What the work of a thread leaves of the jobs.                           *)

Rewrites == {"ingest", "mark", "delete", "review"}

(* What the work of another thread leaves of a job. *)
Alike(j, k) ==
    /\ k.op = j.op /\ k.item = j.item /\ k.plan = j.plan /\ k.at = j.at /\ k.path = j.path
    /\ k.mid = j.mid /\ k.shared = j.shared /\ k.alone = j.alone /\ k.missed = j.missed

(* What its own work makes of it. *)
Goes(j, k) ==
    \/ k = Idle
    \/ /\ k.op = j.op \/ (j.op = "ingest" /\ k.op = "mark")
       /\ k.item = j.item
       /\ k.alone = TRUE => j.alone = TRUE
       /\ j.missed \subseteq k.missed
       /\ k.op = "delete" => k.plan = j.plan /\ k.at = j.at + 1

Worked(t) ==
    /\ job[t] # Idle /\ sqlite' = sqlite
    /\ Goes(job[t], job'[t])
    /\ \A x \in Threads \ {t} : Alike(job[x], job'[x])

(* A job that goes on is one that goes;                                    *)
LEMMA SteppedGoes ==
    ASSUME NEW j, JobOk(j), j # Idle
    PROVE  /\ Goes(j, Stepped(j))
           /\ \A n : Goes(j, [Stepped(j) EXCEPT !.mid = n]) \/ LastCall(j)
           /\ \A n : Goes(j, [Stepped(j) EXCEPT !.ver = n]) \/ LastCall(j)
           /\ \A n : Goes(j, [Stepped(j) EXCEPT !.ans = n]) \/ LastCall(j)
           /\ \A b : Goes(j, [Stepped(j) EXCEPT !.shared = b]) \/ LastCall(j)
           /\ \A m : j.missed \subseteq m => Goes(j, [Stepped(j) EXCEPT !.missed = m]) \/ LastCall(j)
<1>1. CASE LastCall(j)
  BY <1>1, SteppedIs DEF Goes
<1>2. CASE ~LastCall(j)
  <2> DEFINE k == Stepped(j)
  <2>1. /\ k # Idle /\ k.op = j.op /\ k.item = j.item /\ k.plan = j.plan /\ k.alone = j.alone
        /\ k.missed = j.missed /\ k \in JobType
    BY <1>2, SteppedIs DEF Same, JobOk
  <2>2. j.op = "delete" => k.at = j.at + 1
    <3> HAVE j.op = "delete"
    <3>1. Len(j.path) <= 1
      <4>1. j.path = <<>>
        BY CallIs
      <4> QED BY <4>1
    <3> QED BY <1>2, <3>1, SteppedIs
  <2> HIDE DEF k
  <2>3. Goes(j, k)
    BY <2>1, <2>2 DEF Goes
  <2>4. /\ \A n : Goes(j, [k EXCEPT !.mid = n])
        /\ \A n : Goes(j, [k EXCEPT !.ver = n])
        /\ \A n : Goes(j, [k EXCEPT !.ans = n])
        /\ \A b : Goes(j, [k EXCEPT !.shared = b])
        /\ \A m : j.missed \subseteq m => Goes(j, [k EXCEPT !.missed = m])
    BY <2>1, <2>2 DEF Goes, JobType
  <2> QED BY <2>3, <2>4 DEF k
<1> QED BY <1>1, <1>2

(* so is one whose fields are set.                                         *)
LEMMA FieldsGo ==
    ASSUME NEW j, JobOk(j), j.op # "delete"
    PROVE  /\ \A b, r : Goes(j, [[j EXCEPT !.read = b] EXCEPT !.seen = r])
           /\ \A b : Goes(j, [j EXCEPT !.read = b])
           /\ \A b, n : Goes(j, [[j EXCEPT !.read = b] EXCEPT !.ver = n])
           /\ \A p : Goes(j, [j EXCEPT !.path = p])
           /\ \A n : Goes(j, [j EXCEPT !.plan = n])
           /\ j.op = "ingest" => \A n : Goes(j, [[j EXCEPT !.op = "mark"] EXCEPT !.plan = n])
<1>1. j \in JobType
  BY DEF JobOk
<1> QED BY <1>1 DEF Goes, JobType

(* A step of one thread leaves the other jobs alone.                       *)
LEMMA OthersAlike ==
    ASSUME JobsOk(job), NEW t \in Threads, NEW k, job' = [job EXCEPT ![t] = k]
    PROVE  job'[t] = k /\ \A x \in Threads \ {t} : Alike(job[x], job'[x])
BY DEF JobsOk, Alike

(* A thread whose job goes has worked:                                     *)
LEMMA OneGoes ==
    ASSUME TypeInv, NEW t \in Threads, NEW k, job' = [job EXCEPT ![t] = k], job[t] # Idle,
           sqlite' = sqlite, Goes(job[t], k)
    PROVE  Worked(t)
BY OthersAlike DEF TypeInv, Worked

(* when it gives up,                                                       *)
LEMMA RaisesWork ==
    ASSUME TypeInv, NEW t \in Threads, job[t] # Idle, sqlite' = sqlite, Raises(t)
    PROVE  Worked(t)
BY OneGoes DEF Raises, Goes

(* when it goes on,                                                        *)
LEMMA AdvancesWork ==
    ASSUME TypeInv, NEW t \in Threads, NEW kind, Doing(t, kind), sqlite' = sqlite, Advances(t)
    PROVE  Worked(t)
<1>1. job[t] # Idle /\ JobOk(job[t])
  BY DoingIs DEF TypeInv
<1> QED BY <1>1, OneGoes, SteppedGoes DEF Advances

(* at a step of the records,                                               *)
LEMMA RecordStepWorks ==
    ASSUME TypeInv, NEW t \in Threads, RecordStep(t), sqlite' = sqlite
    PROVE  Worked(t)
<1> DEFINE j == job[t]
<1>0. PICK kind \in {"put", "advance", "to"} : Doing(t, kind)
  BY DEF RecordStep, PutReads, PutConflicts, PutWrites, AdvanceReads, Missing, TransitionReads,
         TransitionWrites
<1>1. job[t] # Idle /\ JobOk(job[t]) /\ job[t].op # "delete"
  BY <1>0, DoingIs DEF TypeInv, Kinds
<1>2. CASE PutReads(t)
  <2>1. job' = [job EXCEPT ![t] = [[job[t] EXCEPT !.read = TRUE] EXCEPT !.seen = record[Of(t)]]]
    BY <1>2 DEF PutReads, TypeInv, JobsOk
  <2> QED BY <1>1, <2>1, FieldsGo, OneGoes
<1>3. CASE PutConflicts(t)
  BY <1>1, <1>3, RaisesWork DEF PutConflicts
<1>4. CASE PutWrites(t)
  <2> DEFINE id == IF job[t].seen.id = 0 THEN nextId ELSE job[t].seen.id
             k == IF LastCall(job[t]) THEN Idle ELSE [Stepped(job[t]) EXCEPT !.mid = id]
  <2>1. job' = [job EXCEPT ![t] = k]
    BY <1>4 DEF PutWrites
  <2>2. Goes(job[t], k)
    <3>1. Goes(job[t], Idle)
      BY DEF Goes
    <3>2. k = Idle \/ (k = [Stepped(job[t]) EXCEPT !.mid = id] /\ ~LastCall(job[t]))
      OBVIOUS
    <3> HIDE DEF k, id
    <3>3. LastCall(job[t]) \/ Goes(job[t], [Stepped(job[t]) EXCEPT !.mid = id])
      BY <1>1, SteppedGoes
    <3> QED BY <3>1, <3>2, <3>3, Zenon
  <2> HIDE DEF k
  <2> QED BY <1>1, <2>1, <2>2, OneGoes
<1>5. CASE AdvanceReads(t)
  <2> DEFINE path == Transitions(record[Of(t)].state, Argument(t))
             k == IF path = <<>> THEN Stepped(job[t]) ELSE [job[t] EXCEPT !.path = path]
  <2>1. job' = [job EXCEPT ![t] = k]
    BY <1>5 DEF AdvanceReads, TypeInv, JobsOk
  <2> HIDE DEF path
  <2>2. Goes(job[t], k)
    BY <1>1, SteppedGoes, FieldsGo
  <2> HIDE DEF k
  <2> QED BY <1>1, <2>1, <2>2, OneGoes
<1>6. CASE Missing(t)
  BY <1>1, <1>6, RaisesWork DEF Missing
<1>7. CASE TransitionReads(t)
  <2>1. \/ Raises(t) \/ Advances(t)
        \/ job' = [job EXCEPT ![t] = [job[t] EXCEPT !.read = TRUE]]
    BY <1>7 DEF TransitionReads, TypeInv, JobsOk
  <2>2. CASE Raises(t)
    BY <1>1, <2>2, RaisesWork
  <2>3. CASE Advances(t)
    BY <1>0, <2>3, AdvancesWork
  <2>4. CASE job' = [job EXCEPT ![t] = [job[t] EXCEPT !.read = TRUE]]
    <3>1. Goes(job[t], [job[t] EXCEPT !.read = TRUE])
      BY <1>1, FieldsGo
    <3> QED BY <1>1, <2>4, <3>1, OneGoes
  <2> QED BY <2>1, <2>2, <2>3, <2>4
<1>8. CASE TransitionWrites(t)
  BY <1>0, <1>8, AdvancesWork DEF TransitionWrites
<1> QED BY <1>2, <1>3, <1>4, <1>5, <1>6, <1>7, <1>8 DEF RecordStep

(* of an ingest,                                                           *)
LEMMA PipelineWorks ==
    ASSUME TypeInv, NEW t \in Threads, PipelineStep(t)
    PROVE  Worked(t)
<1>1. CASE Adds(t)
  BY <1>1, AdvancesWork DEF Adds
<1>2. CASE AddsNothing(t)
  BY <1>2, AdvancesWork DEF AddsNothing
<1>3. CASE Drops(t)
  BY <1>3, AdvancesWork DEF Drops
<1>4. CASE Wipes(t)
  BY <1>4, AdvancesWork DEF Wipes
<1>5. CASE Bumps(t)
  <2>1. job[t] # Idle /\ JobOk(job[t]) /\ job[t].op # "delete"
    BY <1>5, DoingIs DEF Bumps, TypeInv, Kinds
  <2>2. \/ Advances(t)
        \/ job' = [job EXCEPT ![t] = [[job[t] EXCEPT !.read = TRUE] EXCEPT !.ver = version]]
    BY <1>5 DEF Bumps, TypeInv, JobsOk
  <2>3. sqlite' = sqlite /\ Doing(t, "bump")
    BY <1>5 DEF Bumps
  <2>4. Goes(job[t], [[job[t] EXCEPT !.read = TRUE] EXCEPT !.ver = version])
    BY <2>1, FieldsGo
  <2>5. CASE Advances(t)
    BY <2>3, <2>5, AdvancesWork
  <2>6. CASE job' = [job EXCEPT ![t] = [[job[t] EXCEPT !.read = TRUE] EXCEPT !.ver = version]]
    BY <2>1, <2>3, <2>4, <2>6, OneGoes
  <2> QED BY <2>2, <2>5, <2>6
<1>6. CASE RecordStep(t) /\ UNCHANGED <<storeVars, ops, faults>>
  BY <1>6, RecordStepWorks DEF storeVars
<1> QED BY <1>1, <1>2, <1>3, <1>4, <1>5, <1>6 DEF PipelineStep

(* of the reading of a transcript,                                         *)
LEMMA ReadTranscriptWorks ==
    ASSUME TypeInv, NEW t \in Threads, ReadTranscript(t)
    PROVE  Worked(t)
<1>1. PICK kind \in {"transcript", "refetch"} : Doing(t, kind)
  BY DEF ReadTranscript
<1>2. job[t] # Idle /\ JobOk(job[t]) /\ job[t].op = "ingest"
  BY <1>1, DoingIs DEF TypeInv, Kinds, JobOk, JobType, Ops, Busy
<1>3. sqlite' = sqlite
  BY DEF ReadTranscript
<1>4. CASE Raises(t)
  BY <1>2, <1>3, <1>4, RaisesWork
<1>5. CASE job' = [job EXCEPT ![t] = IF Marked(Of(t)) THEN Idle
                                     ELSE [@ EXCEPT !.op = "mark", !.plan = <<"mark">>]]
  <2> DEFINE k == IF Marked(Of(t)) THEN Idle
                  ELSE [[job[t] EXCEPT !.op = "mark"] EXCEPT !.plan = <<"mark">>]
  <2>1. job' = [job EXCEPT ![t] = k]
    BY <1>5 DEF TypeInv, JobsOk
  <2>2. Goes(job[t], k)
    <3>1. /\ Goes(job[t], Idle)
          /\ Goes(job[t], [[job[t] EXCEPT !.op = "mark"] EXCEPT !.plan = <<"mark">>])
      <4>1. Goes(job[t], Idle)
        BY DEF Goes
      <4>2. job[t].op # "delete"
        BY <1>2
      <4> QED BY <1>2, <4>1, <4>2, FieldsGo
    <3>2. k = Idle \/ k = [[job[t] EXCEPT !.op = "mark"] EXCEPT !.plan = <<"mark">>]
      OBVIOUS
    <3> QED BY <3>1, <3>2, Zenon
  <2> HIDE DEF k
  <2> QED BY <1>2, <1>3, <2>1, <2>2, OneGoes
<1>6. CASE \E trusted \in BOOLEAN : job' = [job EXCEPT ![t].plan = <<"video", sqlite, trusted>>]
  <2>1. PICK trusted \in BOOLEAN : job' = [job EXCEPT ![t].plan = <<"video", sqlite, trusted>>]
    BY <1>6
  <2>2. job' = [job EXCEPT ![t] = [job[t] EXCEPT !.plan = <<"video", sqlite, trusted>>]]
    BY <2>1 DEF TypeInv, JobsOk
  <2> QED BY <1>2, <1>3, <2>2, FieldsGo, OneGoes
<1> QED BY <1>4, <1>5, <1>6 DEF ReadTranscript

(* of a search,                                                            *)
LEMMA SearchWorks ==
    ASSUME TypeInv, NEW t \in Threads, SearchStep(t)
    PROVE  Worked(t)
<1>0. PICK kind \in {"get", "retrieve", "put?", "store"} : Doing(t, kind)
  BY DEF SearchStep, CacheGet, Retrieve, ReadVersions, CachePut
<1>1. job[t] # Idle /\ JobOk(job[t]) /\ sqlite' = sqlite
  BY <1>0, DoingIs DEF TypeInv, SearchStep, CacheGet, Retrieve, ReadVersions, CachePut, SearchKeeps
<1>2. CASE CacheGet(t)
  BY <1>0, <1>1, <1>2, RaisesWork, AdvancesWork DEF CacheGet
<1>3. CASE Retrieve(t)
  <2>1. ~LastCall(job[t])
    BY <1>3, NotLast DEF Retrieve, TypeInv
  <2>2. job' = [job EXCEPT ![t] = [Stepped(job[t]) EXCEPT !.ans = Answers(t)]]
    BY <1>3 DEF Retrieve, TypeInv, JobsOk
  <2> QED BY <1>1, <2>1, <2>2, SteppedGoes, OneGoes
<1>4. CASE ReadVersions(t)
  <2> DEFINE k == IF job[t].ans = {} THEN Idle ELSE [Stepped(job[t]) EXCEPT !.ver = version]
  <2>1. ~LastCall(job[t])
    BY <1>4, NotLast DEF ReadVersions, TypeInv
  <2>2. job' = [job EXCEPT ![t] = k]
    BY <1>4 DEF ReadVersions, TypeInv, JobsOk
  <2>3. Goes(job[t], k)
    <3>1. Goes(job[t], Idle) /\ Goes(job[t], [Stepped(job[t]) EXCEPT !.ver = version])
      <4>1. Goes(job[t], Idle)
        BY DEF Goes
      <4> QED BY <1>1, <2>1, <4>1, SteppedGoes
    <3>2. k = Idle \/ k = [Stepped(job[t]) EXCEPT !.ver = version]
      OBVIOUS
    <3> QED BY <3>1, <3>2, Zenon
  <2> HIDE DEF k
  <2> QED BY <1>1, <2>2, <2>3, OneGoes
<1>5. CASE CachePut(t)
  BY <1>1, <1>5, RaisesWork DEF CachePut
<1> QED BY <1>2, <1>3, <1>4, <1>5 DEF SearchStep

(* of a deletion,                                                          *)
LEMMA DeletionWorks ==
    ASSUME TypeInv, NEW t \in Threads, DeletionStep(t) \/ DropSwallowed(t)
    PROVE  Worked(t)
<1>0. PICK kind \in {"others", "forget", "invalidate", "drop"} : Doing(t, kind)
  BY DEF DeletionStep, LooksForOthers, Forgets, Invalidates, DropSwallowed
<1>1. job[t] # Idle /\ JobOk(job[t]) /\ sqlite' = sqlite
  BY <1>0, DoingIs DEF TypeInv, DeletionStep, LooksForOthers, Forgets, Invalidates, DropSwallowed
<1>2. CASE LooksForOthers(t)
  <2> DEFINE found == \E j \in Items : /\ Source[j] = Source[Of(t)] /\ Owner[j] # Owner[Of(t)]
                                       /\ Has("registry", j) \/ record[j] # Absent
  <2>1. ~LastCall(job[t])
    <3>1. "others" \in Kinds(job[t].op) /\ job[t].op \in Ops \ {"idle"}
      BY <1>2, DoingIs DEF LooksForOthers, JobOk, Busy, JobType, TypeInv
    <3>2. job[t].op = "delete"
      BY <3>1 DEF Kinds, Ops
    <3> QED BY <1>2, <3>2, NotLast DEF LooksForOthers, TypeInv
  <2>2. job' = [job EXCEPT ![t] = [Stepped(job[t]) EXCEPT !.shared = found]]
    BY <1>2 DEF LooksForOthers, TypeInv, JobsOk
  <2> HIDE DEF found
  <2> QED BY <1>1, <2>1, <2>2, SteppedGoes, OneGoes
<1>3. CASE Forgets(t)
  BY <1>0, <1>1, <1>3, RaisesWork, AdvancesWork DEF Forgets
<1>4. CASE Invalidates(t)
  <2>1. \A x \in Threads \ {t} : Alike(job[x], job'[x])
    BY <1>4 DEF Invalidates, Alike, TypeInv, JobsOk, JobType
  <2>2. job'[t] = Idle
    BY <1>4 DEF Invalidates
  <2> QED BY <1>1, <2>1, <2>2 DEF Worked, Goes
<1>5. CASE DropSwallowed(t)
  <2>1. ~LastCall(job[t])
    BY <1>5, NotLast DEF DropSwallowed, TypeInv
  <2>2. /\ job' = [job EXCEPT ![t] = [Stepped(job[t]) EXCEPT !.missed = Misses(t)]]
        /\ job[t].missed \subseteq Misses(t)
    BY <1>5, MissesMore DEF TypeInv
  <2> QED BY <1>1, <2>1, <2>2, SteppedGoes, OneGoes
<1> QED BY <1>2, <1>3, <1>4, <1>5 DEF DeletionStep

(* or when a call raises.                                                  *)
LEMMA FailureWorks ==
    ASSUME TypeInv, NEW t \in Threads, CallRaises(t)
    PROVE  Worked(t)
<1>1. job[t] # Idle
  BY IdleOk DEF CallRaises
<1> QED BY <1>1, RaisesWork DEF CallRaises

Works(t) ==
    \/ PipelineStep(t) \/ ReadTranscript(t) \/ SearchStep(t) \/ DeletionStep(t)
    \/ DropSwallowed(t) \/ CallRaises(t)

(* Every step of a busy thread is work of that kind.                       *)
LEMMA WorkIs ==
    ASSUME TypeInv, NEW t \in Threads, Works(t)
    PROVE  Worked(t)
BY PipelineWorks, ReadTranscriptWorks, SearchWorks, DeletionWorks, FailureWorks DEF Works

(* Its only new rows are those an ingest or a review adds for its item.    *)
LEMMA WorkedRows ==
    ASSUME TypeInv, NEW t \in Threads, Works(t)
    PROVE  \/ rows' \subseteq rows
           \/ /\ job[t].op \in {"ingest", "review"}
              /\ \E S \in SUBSET Added : rows' = rows \cup {Row(s, Of(t)) : s \in S}
<1>1. CASE Adds(t)
  <2>1. Argument(t) = Call(job[t])[2] /\ CallFacts(Call(job[t])) /\ Call(job[t])[1] = "add"
    BY <1>1, DoingIs DEF TypeInv, Adds
  <2>2. Argument(t) \subseteq Added
    BY <2>1 DEF CallFacts
  <2>3. job[t].op \in {"ingest", "review"}
    <3>1. "add" \in Kinds(job[t].op) /\ job[t].op \in Ops \ {"idle"}
      BY <1>1, DoingIs DEF Adds, JobOk, Busy, JobType, TypeInv
    <3> QED BY <3>1 DEF Kinds, Ops
  <2> QED BY <1>1, <2>2, <2>3 DEF Adds
<1>2. CASE Drops(t)
  BY <1>2 DEF Drops
<1>3. CASE RecordStep(t) /\ UNCHANGED <<storeVars, ops, faults>>
  BY <1>3 DEF storeVars
<1>4. CASE AddsNothing(t) \/ Bumps(t) \/ Wipes(t) \/ ReadTranscript(t) \/ DropSwallowed(t)
             \/ CallRaises(t)
  BY <1>4 DEF AddsNothing, Bumps, Wipes, ReadTranscript, DropSwallowed, CallRaises
<1>5. CASE SearchStep(t)
  BY <1>5 DEF SearchStep, CacheGet, Retrieve, ReadVersions, CachePut, SearchKeeps
<1>6. CASE DeletionStep(t)
  BY <1>6 DEF DeletionStep, LooksForOthers, Forgets, Invalidates
<1> QED BY <1>1, <1>2, <1>3, <1>4, <1>5, <1>6 DEF Works, PipelineStep

(* Only the last call but one of a deletion gives up a record.             *)
LEMMA WorkedRecords ==
    ASSUME TypeInv, NEW t \in Threads, Works(t), NEW i \in Items,
           record[i] # Absent, record'[i] = Absent
    PROVE  Forgets(t) /\ Of(t) = i
<1>1. CASE RecordStep(t)
  <2>1. CASE PutWrites(t)
    <3> DEFINE id == IF job[t].seen.id = 0 THEN nextId ELSE job[t].seen.id
    <3>1. Of(t) \in Items /\ job[t].seen \in RecordType
      BY <2>1, DoingIs DEF PutWrites, TypeInv, JobOk, JobType
    <3>2. id # 0
      BY <3>1 DEF TypeInv, RecordType
    <3>3. record' = [record EXCEPT ![Of(t)] = [id |-> id, state |-> PutState(job[t])]]
      BY <2>1 DEF PutWrites
    <3>4. [id |-> id, state |-> PutState(job[t])] # Absent
      BY <3>2 DEF Absent
    <3> QED BY <3>1, <3>3, <3>4 DEF TypeInv
  <2>2. CASE TransitionWrites(t)
    <3>1. /\ Of(t) \in Items /\ CallFacts(Call(job[t])) /\ Call(job[t])[1] = "to"
          /\ Argument(t) = Call(job[t])[2]
      BY <2>2, DoingIs DEF TransitionWrites, TypeInv
    <3>2. Argument(t) \in States /\ "none" \notin States
      BY <3>1, StatesHave DEF CallFacts
    <3>3. record' = [record EXCEPT ![Of(t)].state = Argument(t)]
      BY <2>2 DEF TransitionWrites
    <3>4. record'[Of(t)].state = Argument(t)
      BY <3>1, <3>3 DEF TypeInv, RecordType
    <3>5. record'[Of(t)] # Absent
      BY <3>2, <3>4 DEF Absent
    <3> QED BY <3>1, <3>3, <3>5 DEF TypeInv
  <2>3. CASE PutReads(t) \/ PutConflicts(t) \/ AdvanceReads(t) \/ Missing(t) \/ TransitionReads(t)
    BY <2>3 DEF PutReads, PutConflicts, AdvanceReads, Missing, TransitionReads
  <2> QED BY <1>1, <2>1, <2>2, <2>3 DEF RecordStep
<1>2. CASE Adds(t) \/ Drops(t) \/ AddsNothing(t) \/ Bumps(t) \/ Wipes(t) \/ ReadTranscript(t)
             \/ DropSwallowed(t) \/ CallRaises(t)
  BY <1>2 DEF Adds, Drops, AddsNothing, Bumps, Wipes, ReadTranscript, DropSwallowed, CallRaises
<1>3. CASE SearchStep(t)
  BY <1>3 DEF SearchStep, CacheGet, Retrieve, ReadVersions, CachePut, SearchKeeps
<1>4. CASE Forgets(t)
  <2>1. Of(t) \in Items
    BY <1>4, DoingIs DEF Forgets, TypeInv
  <2> QED BY <1>4, <2>1 DEF Forgets, TypeInv
<1>5. CASE LooksForOthers(t) \/ Invalidates(t)
  BY <1>5 DEF LooksForOthers, Invalidates
<1> QED BY <1>1, <1>2, <1>3, <1>4, <1>5 DEF Works, PipelineStep, DeletionStep

(* What a request or a job does when it starts. *)
StartsAside(t) ==
    /\ job'[t].op \in {"state", "search"} /\ rows' = rows /\ muddled' = muddled
    /\ \A x \in Threads \ {t} : job'[x] = job[x]

StartsOn(t, i) ==
    /\ job'[t].op \in Rewrites /\ job'[t].item = i /\ job'[t].at = 1
    /\ job'[t].alone = (Beside(t, i) = {})
    /\ \A x \in Threads \ {t} :
          job'[x] = IF x \in Beside(t, i) THEN [job[x] EXCEPT !.alone = FALSE] ELSE job[x]
    /\ rows' = rows \/ (rows' = rows \cup {Row("yt", i)} /\ Source[i] \notin Pages)

Started(t) ==
    /\ job[t] = Idle /\ sqlite' = sqlite /\ record' = record
    /\ StartsAside(t) \/ \E i \in Items : StartsOn(t, i)

(* A start tells who is beside it,                                         *)
LEMMA StartsOnIs ==
    ASSUME TypeInv, NEW t \in Threads, job[t] = Idle, NEW op \in Rewrites,
           NEW i \in Items, NEW plan \in Names, PlanFits(op, i, plan),
           StartsRewriting(t, op, i, plan),
           rows' = rows \/ (rows' = rows \cup {Row("yt", i)} /\ Source[i] \notin Pages)
    PROVE  StartsOn(t, i)
<1>1. op \in {"ingest", "mark", "delete", "review"}
  BY DEF Rewrites
<1>2. StartsAs(t, op, i, plan)
  BY <1>1, StartsOk
<1> QED BY <1>2 DEF StartsOn, StartsAs

(* and every request is a start of one kind or the other.                  *)
LEMMA StartIs ==
    ASSUME TypeInv, NEW t \in Threads, UserRequest(t) \/ IngestRequest(t)
    PROVE  Started(t)
<1>1. CASE IngestRequest(t)
  <2>1. PICK i \in Items, force \in BOOLEAN : IngestVideo(t, i, force) \/ IngestPage(t, i, force)
    BY <1>1 DEF IngestRequest
  <2>2. CASE IngestVideo(t, i, force)
    <3>1. job[t] = Idle /\ sqlite' = sqlite /\ record' = record
      BY <2>2 DEF IngestVideo, Begins
    <3>2. /\ PlanFits("mark", i, <<"mark">>) /\ PlanFits("ingest", i, <<"read", "refetch">>)
          /\ PlanFits("ingest", i, <<"read", "transcript">>)
      BY DEF PlanFits
    <3>r. rows' = rows \/ (rows' = rows \cup {Row("yt", i)} /\ Source[i] \notin Pages)
      BY <2>2 DEF IngestVideo
    <3>3. StartsOn(t, i)
      <4>1. CASE StartsRewriting(t, "mark", i, <<"mark">>)
        <5>1. "mark" \in Rewrites /\ <<"mark">> \in Names
          BY NamesHave DEF Rewrites
        <5> QED BY <3>1, <3>2, <3>r, <4>1, <5>1, StartsOnIs
      <4>2. CASE StartsRewriting(t, "ingest", i, <<"read", "refetch">>)
        <5>1. "ingest" \in Rewrites /\ <<"read", "refetch">> \in Names
          BY NamesHave DEF Rewrites
        <5> QED BY <3>1, <3>2, <3>r, <4>2, <5>1, StartsOnIs
      <4>3. CASE StartsRewriting(t, "ingest", i, <<"read", "transcript">>)
        <5>1. "ingest" \in Rewrites /\ <<"read", "transcript">> \in Names
          BY NamesHave DEF Rewrites
        <5> QED BY <3>1, <3>2, <3>r, <4>3, <5>1, StartsOnIs
      <4> QED BY <2>2, <4>1, <4>2, <4>3 DEF IngestVideo
    <3> QED BY <3>1, <3>3 DEF Started
  <2>3. CASE IngestPage(t, i, force)
    <3>1. job[t] = Idle /\ sqlite' = sqlite /\ record' = record /\ rows' = rows
      BY <2>3 DEF IngestPage, Begins
    <3>2. PICK trusted \in BOOLEAN : StartsRewriting(t, "ingest", i, <<"page", sqlite, trusted>>)
      BY <2>3 DEF IngestPage
    <3>3. /\ PlanFits("ingest", i, <<"page", sqlite, trusted>>)
          /\ <<"page", sqlite, trusted>> \in Names
      BY NamesHave DEF PlanFits, TypeInv
    <3>4. "ingest" \in Rewrites
      BY DEF Rewrites
    <3>5. StartsOn(t, i)
      BY <3>1, <3>2, <3>3, <3>4, StartsOnIs
    <3> QED BY <3>1, <3>5 DEF Started
  <2> QED BY <2>1, <2>2, <2>3
<1>2. CASE UserRequest(t)
  <2>1. PICK i \in Items :
           \/ archive(t, i) /\ UNCHANGED storeVars
           \/ revive(t, i) /\ UNCHANGED storeVars
           \/ merge(t, i) /\ UNCHANGED storeVars
           \/ Search(t, i) \/ DeleteMemory(t, i) \/ RecordReview(t, i)
    BY <1>2 DEF UserRequest
  <2>2. ASSUME NEW s \in {"archived", "revived", "merged"}, Asks(t, "state", i, <<"to", s>>),
               UNCHANGED storeVars
        PROVE  Started(t)
    <3> DEFINE k == [Begun("state", i, <<"to", s>>) EXCEPT !.mid = record[i].id]
    <3>1. job[t] = Idle /\ job' = [job EXCEPT ![t] = k]
      BY <2>2 DEF Asks, Begins, Begun
    <3>2. k.op = "state"
      BY DEF Begun, Idle
    <3> HIDE DEF k
    <3>3. StartsAside(t)
      BY <2>2, <3>1, <3>2 DEF StartsAside, storeVars, TypeInv, JobsOk
    <3> QED BY <2>2, <3>1, <3>3 DEF Started, Asks, storeVars
  <2>3. CASE Search(t, i)
    <3> DEFINE k == [[Begun("search", i, <<"search">>) EXCEPT !.ver = version]
                       EXCEPT !.began = version]
    <3>1. job[t] = Idle /\ job' = [job EXCEPT ![t] = k]
      BY <2>3 DEF Search, Begins, Begun
    <3>2. k.op = "search"
      BY DEF Begun, Idle
    <3> HIDE DEF k
    <3>3. StartsAside(t)
      BY <2>3, <3>1, <3>2 DEF StartsAside, Search, TypeInv, JobsOk
    <3> QED BY <2>3, <3>1, <3>3 DEF Started, Search
  <2>4. CASE DeleteMemory(t, i)
    <3>1. job[t] = Idle /\ sqlite' = sqlite /\ record' = record /\ rows' = rows
      BY <2>4 DEF DeleteMemory, Begins
    <3>2. PlanFits("delete", i, <<"delete", Source[i] \in Pages>>)
            /\ <<"delete", Source[i] \in Pages>> \in Names
      <4>1. (Source[i] \in Pages) \in BOOLEAN
        OBVIOUS
      <4> QED BY <4>1, NamesHave, Zenon DEF PlanFits
    <3>3. "delete" \in Rewrites
      BY DEF Rewrites
    <3>4. StartsOn(t, i)
      BY <2>4, <3>1, <3>2, <3>3, StartsOnIs DEF DeleteMemory
    <3> QED BY <3>1, <3>4 DEF Started
  <2>5. CASE RecordReview(t, i)
    <3>1. job[t] = Idle /\ sqlite' = sqlite /\ record' = record /\ rows' = rows
      BY <2>5 DEF RecordReview, Begins
    <3>2. PlanFits("review", i, <<"review">>) /\ <<"review">> \in Names /\ "review" \in Rewrites
      BY NamesHave DEF PlanFits, Rewrites
    <3>4. StartsOn(t, i)
      BY <2>5, <3>1, <3>2, StartsOnIs DEF RecordReview
    <3> QED BY <3>1, <3>4 DEF Started
  <2> QED BY <2>1, <2>2, <2>3, <2>4, <2>5 DEF archive, revive, merge
<1> QED BY <1>1, <1>2

-----------------------------------------------------------------------------
(* What a deletion that is alone leaves behind.                            *)

(* What a deletion's plan has ahead of it. *)
DropsLater(p, n, s) == \E k \in n..Len(p) : p[k][1] = "drop" /\ s \in p[k][2]

AloneInv == \A t \in Threads : Rewriting(t) /\ job[t].alone = TRUE => Beside(t, Of(t)) = {}

PageRows == \A i \in Items : Source[i] \in Pages => ~Has("yt", i)

DeletesAll ==
    \A t \in Threads : job[t].op = "delete" /\ job[t].alone = TRUE =>
       \A s \in Stores \ ({"hash"} \cup job[t].missed) : ~Shared(s) =>
          DropsLater(Plan[job[t].plan], job[t].at, s) \/ ~Has(s, Of(t))

OwnInv == TypeInv /\ AloneInv /\ PageRows /\ DeletesAll

(* A deletion's plan drops the rows of every store but the hashes.         *)
LEMMA DeletionDrops ==
    ASSUME NEW p, NEW s \in Stores \ {"hash"},
           VideoDeletion(p) \/ (PageDeletion(p) /\ s # "yt")
    PROVE  DropsLater(p, 1, s)
<1>1. s \in {"yt", "chunks", "vectors", "capsule", "fts", "registry", "links", "topics",
             "review", "url"}
  BY DEF Stores
<1>2. CASE VideoDeletion(p)
  <2>1. /\ Len(p) = 11 /\ p[1] = <<"drop", {"chunks"}>> /\ p[3] = <<"drop", {"fts"}>>
        /\ p[4] = <<"drop", {"vectors", "capsule"}>> /\ p[5] = <<"drop", {"review"}>>
        /\ p[6] = <<"drop", {"registry"}>> /\ p[7] = <<"drop", {"url"}>>
        /\ p[8] = <<"drop", {"yt"}>> /\ p[9] = <<"drop", {"links", "topics"}>>
    BY <1>2 DEF VideoDeletion
  <2>2. \E k \in {1, 3, 4, 5, 6, 7, 8, 9} : p[k][1] = "drop" /\ s \in p[k][2]
    BY <1>1, <2>1
  <2>3. \A k \in {1, 3, 4, 5, 6, 7, 8, 9} : k \in 1..Len(p)
    BY <2>1
  <2> QED BY <2>2, <2>3 DEF DropsLater
<1>3. CASE PageDeletion(p) /\ s # "yt"
  <2>1. /\ Len(p) = 10 /\ p[1] = <<"drop", {"chunks"}>> /\ p[3] = <<"drop", {"fts"}>>
        /\ p[4] = <<"drop", {"vectors", "capsule"}>> /\ p[5] = <<"drop", {"review"}>>
        /\ p[6] = <<"drop", {"registry"}>> /\ p[7] = <<"drop", {"url"}>>
        /\ p[8] = <<"drop", {"links", "topics"}>>
    BY <1>3 DEF PageDeletion
  <2>2. \E k \in {1, 3, 4, 5, 6, 7, 8} : p[k][1] = "drop" /\ s \in p[k][2]
    BY <1>1, <1>3, <2>1
  <2>3. \A k \in {1, 3, 4, 5, 6, 7, 8} : k \in 1..Len(p)
    BY <2>1
  <2> QED BY <2>2, <2>3 DEF DropsLater
<1> QED BY <1>2, <1>3

(* Nothing is dropped after the record.                                    *)
LEMMA ForgetsLast ==
    ASSUME NEW j, Busy(j), j.op = "delete", Plan[j.plan][j.at][1] = "forget", NEW s
    PROVE  ~DropsLater(Plan[j.plan], j.at, s)
<1> DEFINE p == Plan[j.plan]
<1>1. j.at \in 1..Len(p)
  BY DEF Busy
<1>2. CASE PageDeletion(p)
  <2>1. Len(p) = 10
    BY <1>2 DEF PageDeletion
  <2>2. j.at = 9
    BY <1>1, <1>2, PageDeletionKinds
  <2>3. \A k \in 9..10 : p[k][1] # "drop"
    <3> TAKE k \in 9..10
    <3>1. k \in 1..Len(p) /\ k \notin {1, 3, 4, 5, 6, 7, 8}
      BY <2>1
    <3> QED BY <1>2, <3>1, PageDeletionKinds
  <2> QED BY <2>1, <2>2, <2>3 DEF DropsLater
<1>3. CASE VideoDeletion(p)
  <2>1. Len(p) = 11
    BY <1>3 DEF VideoDeletion
  <2>2. j.at = 10
    BY <1>1, <1>3, VideoDeletionKinds
  <2>3. \A k \in 10..11 : p[k][1] # "drop"
    <3> TAKE k \in 10..11
    <3>1. k \in 1..Len(p) /\ k \notin {1, 3, 4, 5, 6, 7, 8, 9}
      BY <2>1
    <3> QED BY <1>3, <3>1, VideoDeletionKinds
  <2> QED BY <2>1, <2>2, <2>3 DEF DropsLater
<1> QED BY <1>2, <1>3, DeletionIs

(* Threads that are beside each other.                                     *)
LEMMA BesideIs ==
    ASSUME TypeInv, NEW t \in Threads, NEW u \in Threads \ {t}, Rewriting(t), Rewriting(u)
    PROVE  /\ u \in Beside(t, Of(t)) <=> t \in Beside(u, Of(u))
           /\ Of(u) = Of(t) => u \in Beside(t, Of(t))
           /\ Of(t) \in Items /\ Of(u) \in Items
<1>1. Of(t) \in Items /\ Of(u) \in Items
  <2>1. \A x \in Threads : Rewriting(x) => Of(x) \in Items
    BY IdleOk DEF TypeInv, JobsOk, JobOk, Busy, Rewriting, Of
  <2> QED BY <2>1
<1> QED BY <1>1, TouchingIs DEF Beside

(* OwnInv holds at the start,                                              *)
LEMMA OwnInit == Init => OwnInv
<1> SUFFICES ASSUME NEW saved \in Starts, RecordsInit(saved), StoresInit(saved), TypeInv
             PROVE  OwnInv
  BY TypeInit DEF Init
<1>1. \A t \in Threads : ~Rewriting(t) /\ job[t].op # "delete"
  BY IdleOk DEF RecordsInit, Rewriting
<1>2. PageRows
  <2> SUFFICES ASSUME NEW i \in Items, Source[i] \in Pages, Has("yt", i) PROVE FALSE
    BY DEF PageRows
  <2>1. Row("yt", i) = <<"yt", i>>
    BY DEF Row, Shared
  <2> DEFINE V == {x \in saved : Source[x] \notin Pages}
             P == {x \in saved : Source[x] \in Pages}
  <2>2. rows = {Row(s, x) : s \in Stores \ {"review"}, x \in V}
                 \cup {Row(s, x) : s \in Stores \ {"review", "yt", "hash"}, x \in P}
    BY DEF StoresInit
  <2>3. \A s, x : Row(s, x) = <<"yt", i>> => s = "yt" /\ (x = i \/ Shared(s))
    BY DEF Row
  <2>4. <<"yt", i>> \in rows
    BY <2>1 DEF Has
  <2>5. i \notin V
    OBVIOUS
  <2> HIDE DEF V, P
  <2> QED BY <2>2, <2>3, <2>4, <2>5 DEF Shared
<1> QED BY <1>1, <1>2 DEF OwnInv, AloneInv, DeletesAll

(* and is kept by a start.                                                 *)
LEMMA OwnStart ==
    ASSUME OwnInv, TypeInv', NEW t \in Threads, Started(t)
    PROVE  OwnInv'
<1> USE DEF OwnInv
<1>0. job[t] = Idle /\ sqlite' = sqlite /\ ~Rewriting(t)
  BY IdleOk DEF Started, Rewriting
<1>1. CASE StartsAside(t)
  <2>1. ~(Rewriting(t)') /\ job'[t].op # "delete" /\ rows' = rows
    BY <1>1 DEF StartsAside, Rewriting
  <2>2. \A x \in Threads \ {t} : job'[x] = job[x]
    BY <1>1 DEF StartsAside
  <2>3. AloneInv'
    BY <1>0, <2>1, <2>2 DEF AloneInv, Rewriting, Beside, Of, Touching
  <2>4. PageRows'
    BY <1>0, <2>1 DEF PageRows, Has, Row, Shared
  <2>5. DeletesAll'
    BY <1>0, <2>1, <2>2 DEF DeletesAll, Has, Row, Shared, Of
  <2> QED BY <2>3, <2>4, <2>5
<1>2. CASE \E i \in Items : StartsOn(t, i)
  <2>1. PICK i \in Items : StartsOn(t, i)
    BY <1>2
  <2>2. /\ job'[t].op \in Rewrites /\ Of(t)' = i /\ job'[t].at = 1 /\ Rewriting(t)'
        /\ job'[t].alone = (Beside(t, i) = {})
        /\ rows' = rows \/ (rows' = rows \cup {Row("yt", i)} /\ Source[i] \notin Pages)
    BY <2>1 DEF StartsOn, Of, Rewriting, Rewrites
  <2>3. ASSUME NEW x \in Threads \ {t}
        PROVE  /\ Rewriting(x)' <=> Rewriting(x)
               /\ Of(x)' = Of(x) /\ job'[x].op = job[x].op /\ job'[x].plan = job[x].plan
               /\ job'[x].at = job[x].at /\ job'[x].missed = job[x].missed
               /\ job'[x].alone = TRUE => job[x].alone = TRUE /\ x \notin Beside(t, i)
    <3>1. job[x] \in JobType
      BY DEF TypeInv, JobsOk
    <3>2. job'[x] = IF x \in Beside(t, i) THEN [job[x] EXCEPT !.alone = FALSE] ELSE job[x]
      BY <2>1 DEF StartsOn
    <3> QED BY <3>1, <3>2 DEF Rewriting, Of, JobType
  <2>4. Touching(i)' = Touching(i) /\ \A x : Touching(x)' = Touching(x)
    BY <1>0 DEF Touching
  <2>5. AloneInv'
    <3> SUFFICES ASSUME NEW x \in Threads, Rewriting(x)', job'[x].alone = TRUE,
                        NEW u \in Threads \ {x}, Rewriting(u)', Of(u)' \in Touching(Of(x)')
                 PROVE  FALSE
      BY <2>4 DEF AloneInv, Beside
    <3>1. CASE x = t
      <4>1. Beside(t, i) = {}
        BY <2>2, <3>1
      <4>2. u # t /\ Rewriting(u) /\ Of(u) \in Touching(i)
        BY <2>2, <2>3, <3>1
      <4> QED BY <4>1, <4>2 DEF Beside
    <3>2. CASE x # t
      <4>1. /\ Rewriting(x) /\ job[x].alone = TRUE /\ Of(x)' = Of(x) /\ x \notin Beside(t, i)
            /\ Beside(x, Of(x)) = {}
        BY <2>3, <3>2 DEF AloneInv
      <4>2. CASE u = t
        <5>1. i \in Touching(Of(x)) /\ Of(x) \in Items
          <6>1. job[x] # Idle
            BY <4>1, IdleOk DEF Rewriting
          <6> QED BY <2>2, <4>1, <4>2, <6>1 DEF TypeInv, JobsOk, JobOk, Busy, Of
        <5>2. Of(x) \in Touching(i)
          BY <5>1, TouchingIs
        <5> QED BY <3>2, <4>1, <5>2 DEF Beside
      <4>3. CASE u # t
        <5>1. Rewriting(u) /\ Of(u) \in Touching(Of(x))
          BY <2>3, <4>1, <4>3
        <5> QED BY <4>1, <5>1 DEF Beside
      <4> QED BY <4>2, <4>3
    <3> QED BY <3>1, <3>2
  <2>6. \A s, x : Row(s, x)' = Row(s, x)
    BY <1>0 DEF Row, Shared
  <2>7. PageRows'
    BY <2>2, <2>6 DEF PageRows, Has, Row, Shared
  <2>8. DeletesAll'
    <3> SUFFICES ASSUME NEW x \in Threads, job'[x].op = "delete", job'[x].alone = TRUE,
                        NEW s \in Stores \ ({"hash"} \cup job'[x].missed), ~Shared(s), Has(s, Of(x))'
                 PROVE  DropsLater(Plan[job'[x].plan], job'[x].at, s)
      BY <1>0 DEF DeletesAll, Shared
    <3>1. CASE x = t
      <4>1. Busy(job'[t]) /\ job'[t].item = i
        <5>1. job'[t] # Idle
          BY <3>1, IdleOk
        <5> QED BY <2>2, <5>1 DEF TypeInv, JobsOk, JobOk, Of
      <4>2. s = "yt" => Source[i] \notin Pages
        BY <2>2, <2>7, <3>1 DEF PageRows
      <4>3. VideoDeletion(Plan[job'[t].plan]) \/ (PageDeletion(Plan[job'[t].plan]) /\ s # "yt")
        BY <3>1, <4>1, <4>2, DeletionIs
      <4> QED BY <2>2, <3>1, <4>3, DeletionDrops
    <3>2. CASE x # t
      <4>1. Has(s, Of(x))
        <5>1. Row(s, Of(x)) \in rows'
          BY <2>3, <2>6, <3>2 DEF Has
        <5>2. Of(x) # i
          <6>1. x \notin Beside(t, i) /\ Rewriting(x)
            BY <2>3, <3>2 DEF Rewriting
          <6> QED BY <3>2, <6>1, TouchingIs DEF Beside
        <5>3. Row(s, Of(x)) # Row("yt", i)
          BY <5>2 DEF Row, Shared
        <5> QED BY <2>2, <5>1, <5>3 DEF Has
      <4> QED BY <2>3, <3>2, <4>1 DEF DeletesAll
    <3> QED BY <3>1, <3>2
  <2> QED BY <2>5, <2>7, <2>8
<1> QED BY <1>1, <1>2 DEF Started

(* What the work of a thread leaves of the jobs that rewrite.              *)
LEMMA WorkedJobs ==
    ASSUME TypeInv, TypeInv', NEW t \in Threads, Worked(t), NEW x \in Threads
    PROVE  /\ Rewriting(x)' =>
                /\ Rewriting(x) /\ Of(x)' = Of(x)
                /\ job'[x].alone = TRUE => job[x].alone = TRUE
           /\ job'[x].op = "delete" => job[x].op = "delete" /\ job'[x].plan = job[x].plan
                /\ job[x].missed \subseteq job'[x].missed
                /\ job'[x].at = (IF x = t THEN job[x].at + 1 ELSE job[x].at)
<1>1. CASE x # t
  BY <1>1 DEF Worked, Alike, Rewriting, Of
<1>2. CASE x = t /\ job'[t] = Idle
  BY <1>2, IdleOk DEF Rewriting
<1>3. CASE x = t /\ job'[t] # Idle
  BY <1>3 DEF Worked, Goes, Rewriting, Of
<1> QED BY <1>1, <1>2, <1>3

(* OwnInv is kept by the work of a thread,                                 *)
LEMMA OwnWork ==
    ASSUME OwnInv, TypeInv', NEW t \in Threads, Works(t)
    PROVE  OwnInv'
<1> USE DEF OwnInv
<1>1. Worked(t) /\ sqlite' = sqlite
  BY WorkIs DEF Worked
<1>2. \A x : Touching(x)' = Touching(x)
  BY <1>1 DEF Touching
<1>3. \A s, x : Row(s, x)' = Row(s, x)
  BY <1>1 DEF Row, Shared
<1>4. AloneInv'
  <2> SUFFICES ASSUME NEW x \in Threads, Rewriting(x)', job'[x].alone = TRUE,
                      NEW u \in Threads \ {x}, Rewriting(u)', Of(u)' \in Touching(Of(x)')
               PROVE  FALSE
    BY <1>2 DEF AloneInv, Beside
  <2>1. Rewriting(x) /\ Of(x)' = Of(x) /\ job[x].alone = TRUE
    BY <1>1, WorkedJobs
  <2>2. Rewriting(u) /\ Of(u)' = Of(u)
    BY <1>1, WorkedJobs
  <2> QED BY <2>1, <2>2 DEF AloneInv, Beside
<1>5. PageRows'
  <2> SUFFICES ASSUME NEW i \in Items, Row("yt", i) \in rows' PROVE Row("yt", i) \in rows
    BY <1>3 DEF PageRows, Has
  <2>1. \A s \in Added : \A x : Row("yt", i) # Row(s, x)
    BY DEF Added, Row
  <2> QED BY <2>1, WorkedRows
<1>6. DeletesAll'
  <2> SUFFICES ASSUME NEW x \in Threads, job'[x].op = "delete", job'[x].alone = TRUE,
                      NEW s \in Stores \ ({"hash"} \cup job'[x].missed), ~Shared(s), Has(s, Of(x))'
               PROVE  DropsLater(Plan[job'[x].plan], job'[x].at, s)
    BY <1>1 DEF DeletesAll, Shared
  <2>1. /\ job[x].op = "delete" /\ job'[x].plan = job[x].plan
        /\ s \notin job[x].missed
        /\ job'[x].at = IF x = t THEN job[x].at + 1 ELSE job[x].at
    BY <1>1, WorkedJobs
  <2>2. Rewriting(x) /\ Of(x)' = Of(x) /\ job[x].alone = TRUE
    <3>1. Rewriting(x)'
      BY DEF Rewriting
    <3> QED BY <1>1, <3>1, WorkedJobs
  <2>3. Row(s, Of(x)) \in rows'
    BY <1>3, <2>2 DEF Has
  <2>4. Has(s, Of(x))
    <3>1. CASE rows' \subseteq rows
      BY <2>3, <3>1 DEF Has
    <3>2. CASE /\ job[t].op \in {"ingest", "review"}
               /\ \E S \in SUBSET Added : rows' = rows \cup {Row(z, Of(t)) : z \in S}
      <4>1. PICK S \in SUBSET Added : rows' = rows \cup {Row(z, Of(t)) : z \in S}
        BY <3>2
      <4>2. x # t /\ Rewriting(t)
        BY <2>1, <3>2 DEF Rewriting
      <4>3. Of(t) # Of(x)
        <5>1. Beside(x, Of(x)) = {}
          BY <2>2 DEF AloneInv
        <5> QED BY <2>2, <4>2, <5>1, BesideIs
      <4>4. \A z : Row(z, Of(t)) # Row(s, Of(x))
        BY <4>3 DEF Row, Shared
      <4> QED BY <2>3, <4>1, <4>4 DEF Has
    <3> QED BY <3>1, <3>2, WorkedRows
  <2>5. PICK k \in job[x].at..Len(Plan[job[x].plan]) :
           Plan[job[x].plan][k][1] = "drop" /\ s \in Plan[job[x].plan][k][2]
    BY <2>1, <2>2, <2>4 DEF DeletesAll, DropsLater
  <2>6. Busy(job[x]) /\ job[x].at \in Nat /\ Len(Plan[job[x].plan]) \in Nat
    <3>1. job[x] # Idle
      BY <2>1, IdleOk
    <3>2. Busy(job[x]) /\ job[x] \in JobType
      BY <3>1 DEF TypeInv, JobsOk, JobOk
    <3> QED BY <3>2, PlansTyped DEF Busy, JobType
  <2>7. CASE x # t
    BY <2>1, <2>5, <2>7 DEF DropsLater
  <2>8. CASE x = t /\ k # job[x].at
    BY <2>1, <2>5, <2>6, <2>8 DEF DropsLater
  <2>9. CASE x = t /\ k = job[x].at
    <3>1. job[t].path = <<>> /\ Call(job[t]) = Plan[job[t].plan][job[t].at] /\ job[t].plan # <<>>
      <4>1. job[t] # Idle /\ JobOk(job[t])
        BY <2>1, <2>9, IdleOk DEF TypeInv, JobsOk
      <4>2. Call(job[t])[1] # "to" /\ job[t].path = <<>>
        BY <2>1, <2>9, <4>1, CallIs DEF Kinds
      <4>3. job[t].plan # <<>>
        <5>1. job[t].plan \in Names
          BY <2>6, <2>9 DEF Busy
        <5>2. <<>> \notin Names
          BY DEF Names
        <5> QED BY <5>1, <5>2
      <4> QED BY <4>1, <4>2, <4>3, CallIs
    <3>2. Call(job[t])[1] = "drop" /\ s \in Argument(t)
      BY <2>5, <2>9, <3>1 DEF Argument
    <3>3. \A kind : Doing(t, kind) => kind = "drop"
      BY <3>2 DEF Doing
    <3>4. Drops(t) \/ DropSwallowed(t) \/ CallRaises(t)
      <4>1. ~Adds(t) /\ ~AddsNothing(t) /\ ~Bumps(t) /\ ~Wipes(t) /\ ~RecordStep(t)
        BY <3>3 DEF Adds, AddsNothing, Bumps, Wipes, RecordStep, PutReads, PutConflicts, PutWrites,
                    AdvanceReads, Missing, TransitionReads, TransitionWrites
      <4>2. ~ReadTranscript(t) /\ ~SearchStep(t) /\ ~DeletionStep(t)
        BY <3>3 DEF ReadTranscript, SearchStep, CacheGet, Retrieve, ReadVersions, CachePut,
                    DeletionStep, LooksForOthers, Forgets, Invalidates
      <4> QED BY <4>1, <4>2 DEF Works, PipelineStep
    <3>5. CASE Drops(t)
      <4>1. ~Kept(t, s)
        BY DEF Kept
      <4>2. Row(s, Of(t)) \notin rows'
        BY <3>2, <3>5, <4>1 DEF Drops
      <4> QED BY <2>3, <2>9, <4>2
    <3>6. CASE DropSwallowed(t)
      <4>1. /\ job'[t] = [Stepped(job[t]) EXCEPT !.missed = Misses(t)]
            /\ s \in Misses(t)
        BY <3>2, <3>6, MissesMore DEF TypeInv, JobsOk
      <4>2. Stepped(job[t]) \in JobType
        <5>1. job[t] # Idle /\ JobOk(job[t])
          BY <2>1, <2>9, IdleOk DEF TypeInv, JobsOk
        <5> QED BY <5>1, SteppedIs DEF JobOk
      <4>3. job'[t].missed = Misses(t)
        BY <4>1, <4>2 DEF JobType
      <4> QED BY <2>9, <4>1, <4>3
    <3>7. CASE CallRaises(t)
      <4>1. job'[t] = Idle
        BY <3>7 DEF CallRaises, Raises, TypeInv, JobsOk
      <4> QED BY <2>9, <4>1, IdleOk
    <3> QED BY <3>4, <3>5, <3>6, <3>7
  <2> QED BY <2>7, <2>8, <2>9
<1> QED BY <1>4, <1>5, <1>6

(* and so by every step.                                                   *)
LEMMA OwnStep == OwnInv /\ [Next]_vars => OwnInv'
<1> SUFFICES ASSUME OwnInv, [Next]_vars PROVE OwnInv'
  OBVIOUS
<1>0. TypeInv'
  BY TypeStep DEF OwnInv
<1>1. CASE UNCHANGED vars
  BY <1>0, <1>1 DEF vars, recordVars, storeVars, OwnInv, AloneInv, PageRows, DeletesAll, Rewriting,
                    Beside, Of, Touching, Has, Row, Shared
<1>2. CASE Crash
  <2>1. \A t \in Threads : ~(Rewriting(t)') /\ job'[t].op # "delete"
    BY <1>2, IdleOk DEF Crash, Rewriting
  <2>2. PageRows'
    BY <1>2 DEF Crash, OwnInv, PageRows, Has, Row, Shared
  <2> QED BY <1>0, <2>1, <2>2 DEF OwnInv, AloneInv, DeletesAll
<1>3. ASSUME NEW t \in Threads,
             \/ UserRequest(t) \/ IngestRequest(t)
             \/ PipelineStep(t) \/ ReadTranscript(t)
             \/ SearchStep(t) \/ DeletionStep(t) \/ DropSwallowed(t) \/ CallRaises(t)
      PROVE  OwnInv'
  <2>1. CASE UserRequest(t) \/ IngestRequest(t)
    BY <1>0, <2>1, StartIs, OwnStart DEF OwnInv
  <2>2. CASE Works(t)
    BY <1>0, <2>2, OwnWork
  <2> QED BY <1>3, <2>1, <2>2 DEF Works
<1> QED BY <1>1, <1>2, <1>3 DEF Next

(* A step that gives up the record of a deletion that is alone leaves      *)
(* nothing but what the deletion has missed.                               *)
LEMMA GivesUpLast ==
    OwnInv /\ [Next]_vars =>
       [\A t \in Threads, i \in Items :
          /\ job[t].op = "delete" /\ job[t].alone /\ Of(t) = i
          /\ record[i] # Absent /\ record'[i] = Absent
          => \A s \in Stores \ ({"hash"} \cup job[t].missed) : ~Shared(s) => ~Has(s, i)']_vars
<1> SUFFICES ASSUME OwnInv, [Next]_vars, ~UNCHANGED vars,
                    NEW t \in Threads, NEW i \in Items, job[t].op = "delete", job[t].alone = TRUE,
                    Of(t) = i, record[i] # Absent, record'[i] = Absent,
                    NEW s \in Stores \ ({"hash"} \cup job[t].missed), ~Shared(s)
             PROVE  ~Has(s, i)'
  OBVIOUS
<1>1. ~Crash
  BY DEF Crash
<1>2. PICK u \in Threads :
         \/ UserRequest(u) \/ IngestRequest(u)
         \/ PipelineStep(u) \/ ReadTranscript(u)
         \/ SearchStep(u) \/ DeletionStep(u) \/ DropSwallowed(u) \/ CallRaises(u)
  BY <1>1 DEF Next
<1>3. Works(u)
  <2>1. ~(UserRequest(u) \/ IngestRequest(u))
    BY StartIs DEF OwnInv, Started
  <2> QED BY <1>2, <2>1 DEF Works
<1>4. Forgets(u) /\ Of(u) = i
  BY <1>3, WorkedRecords DEF OwnInv
<1>5. /\ job[u] # Idle /\ Busy(job[u]) /\ job[u].op = "delete"
      /\ Plan[job[u].plan][job[u].at][1] = "forget"
  <2>1. /\ job[u] # Idle /\ JobOk(job[u]) /\ Busy(job[u]) /\ "forget" \in Kinds(job[u].op)
        /\ Call(job[u]) = Plan[job[u].plan][job[u].at] /\ Call(job[u])[1] = "forget"
    BY <1>4, DoingIs DEF Forgets, OwnInv, TypeInv
  <2> QED BY <2>1 DEF Kinds, JobOk, JobType, Ops, Busy
<1>6. u = t
  <2> SUFFICES ASSUME u # t PROVE FALSE
    OBVIOUS
  <2>1. Rewriting(u) /\ Rewriting(t)
    BY <1>5 DEF Rewriting
  <2>2. u \in Beside(t, Of(t))
    BY <1>4, <2>1, BesideIs DEF OwnInv
  <2> QED BY <2>1, <2>2 DEF OwnInv, AloneInv
<1>7. ~DropsLater(Plan[job[t].plan], job[t].at, s)
  BY <1>5, <1>6, ForgetsLast
<1>8. ~Has(s, i)
  BY <1>7 DEF OwnInv, DeletesAll
<1>9. rows' = rows /\ sqlite' = sqlite
  BY <1>4 DEF Forgets
<1> QED BY <1>8, <1>9 DEF Has, Row, Shared

(* The types hold, for any number of threads, items and failures.          *)
THEOREM MemoryTypes == Spec => []TypeOK
<1>1. TypeInv => TypeOK
  BY TypeInvTypes
<1>2. Init => TypeInv
  BY TypeInit
<1>3. TypeInv /\ [Next]_vars => TypeInv'
  BY TypeStep
<1> QED BY <1>1, <1>2, <1>3, PTL DEF Spec

(* A deletion that no ingest, review or other deletion runs beside, of what *)
(* its item shares, gives up the record only when every row it should      *)
(* remove is gone, whatever failed before; but for the rows whose removal  *)
(* failed without it noticing, in the stores of missed: delete_item and,   *)
(* in SQLite, the deletion of the lexical rows swallow the exception.      *)
THEOREM OwnershipIsLast == Spec => OwnershipGoesLast
<1>1. Init => OwnInv
  BY OwnInit
<1>2. OwnInv /\ [Next]_vars => OwnInv'
  BY OwnStep
<1>3. OwnInv /\ [Next]_vars =>
       [\A t \in Threads, i \in Items :
          /\ job[t].op = "delete" /\ job[t].alone /\ Of(t) = i
          /\ record[i] # Absent /\ record'[i] = Absent
          => \A s \in Stores \ ({"hash"} \cup job[t].missed) : ~Shared(s) => ~Has(s, i)']_vars
  BY GivesUpLast
<1> QED BY <1>1, <1>2, <1>3, PTL DEF Spec, OwnershipGoesLast

-----------------------------------------------------------------------------
(* The order of the calls in a plan.                                       *)

(* A filling plan p: rows are dropped and added again, the version is      *)
(* bumped, the item registered (its r-th call), its record put and         *)
(* finished.                                                               *)
Refills == {<<"add", {"hash"}>>, <<"bump", {}>>, <<"wipe", {}>>}
Finishes == {<<"put", "kept">>, <<"add", {"links"}>>, <<"add", {"topics"}>>, <<"add", {"url"}>>}
                \cup ({"advance"} \X States)
FillPlanAt(p, r) ==
    /\ p[1] = <<"drop", {"vectors", "fts"}>> /\ p[2] = <<"drop", {"chunks"}>>
    /\ p[3] = <<"add", {"chunks"}>> /\ p[4] = <<"add", {"vectors", "capsule", "fts"}>>
    /\ \A k \in 5..(r - 1) : p[k] \in Refills
    /\ \E k \in 5..(r - 1) : p[k] = <<"bump", {}>>
    /\ p[r] = <<"add", {"registry"}>> /\ p[r + 1] = <<"put", "captured">>
    /\ \A k \in (r + 2)..Len(p) : p[k] \in Finishes
    /\ p[Len(p)][1] = "add"
FillPlan(p) == Len(p) \in Nat /\ \E r \in 6..(Len(p) - 2) : FillPlanAt(p, r)

(* What may follow the put of a filling plan's record.                     *)
LEMMA FinishesAre ==
    /\ \A s \in States : <<"advance", s>> \in Finishes
    /\ <<"put", "kept">> \in Finishes /\ <<"add", {"links"}>> \in Finishes
    /\ <<"add", {"topics"}>> \in Finishes /\ <<"add", {"url"}>> \in Finishes
BY DEF Finishes

(* Concatenation, by its three facts. *)
Cat(x, y) == x \o y

Joins(w, x, y, S) ==
    /\ w \in Seq(S) /\ Len(w) = Len(x) + Len(y)
    /\ \A k \in 1..(Len(x) + Len(y)) : w[k] = IF k <= Len(x) THEN x[k] ELSE y[k - Len(x)]

(* Concatenation, by its three facts.                                      *)
LEMMA CatIs ==
    ASSUME NEW S, NEW x \in Seq(S), NEW y \in Seq(S)
    PROVE  Joins(Cat(x, y), x, y, S)
<1>1. /\ x \o y \in Seq(S) /\ Len(x \o y) = Len(x) + Len(y)
      /\ \A k \in 1..(Len(x) + Len(y)) :
            (x \o y)[k] = IF k <= Len(x) THEN x[k] ELSE y[k - Len(x)]
  BY ConcatProperties, Zenon
<1> QED BY <1>1, Zenon DEF Cat, Joins

(* Where the calls of a filling plan come from. *)
Middle(trusted) == Cat(Finalize(trusted), <<<<"add", {"url"}>>>>)

(* The middle of a filling plan: its record is put, then finished.         *)
LEMMA MiddleIs ==
    ASSUME NEW trusted \in BOOLEAN, NEW z, z = Middle(trusted)
    PROVE  /\ Len(z) \in Nat /\ Len(z) > 2 /\ z[1] = <<"put", "captured">>
           /\ \A k \in 2..Len(z) : z[k] \in Finishes
           /\ z[Len(z)] = <<"add", {"url"}>>
           /\ z \in Seq(Refilling)
<1> DEFINE f == Finalize(trusted)
           u == <<<<"add", {"url"}>>>>
<1>1. f \in Seq(Refilling)
  BY FinalizeRefills
<1>2. /\ Len(f) = 10 \/ Len(f) = 11
      /\ f[1] = <<"put", "captured">>
      /\ \A k \in 2..Len(f) : f[k] \in Finishes
  <2>1. CASE trusted = TRUE
    <3> DEFINE g == Finalize(TRUE)
    <3>1. /\ Len(g) = 11 /\ g[1] = <<"put", "captured">> /\ g[2] = <<"advance", "enriched">>
          /\ g[3] = <<"put", "kept">> /\ g[4] = <<"advance", "embedded">>
          /\ g[5] = <<"add", {"links"}>> /\ g[6] = <<"put", "kept">>
          /\ g[7] = <<"advance", "connected">> /\ g[8] = <<"advance", "verified">>
          /\ g[9] = <<"put", "kept">> /\ g[10] = <<"advance", "trusted">>
          /\ g[11] = <<"add", {"topics"}>>
      BY DEF Finalize
    <3>2. f = g
      BY <2>1
    <3> HIDE DEF g, f
    <3>3. \A k \in 2..11 : k = 2 \/ k = 3 \/ k = 4 \/ k = 5 \/ k = 6 \/ k = 7 \/ k = 8 \/ k = 9
                            \/ k = 10 \/ k = 11
      OBVIOUS
    <3>5. /\ g[2] \in Finishes /\ g[3] \in Finishes /\ g[4] \in Finishes /\ g[5] \in Finishes
          /\ g[6] \in Finishes
          /\ g[7] \in Finishes /\ g[8] \in Finishes /\ g[9] \in Finishes /\ g[10] \in Finishes
          /\ g[11] \in Finishes
      BY <3>1, FinishesAre, StatesHave
    <3>4. \A k \in 2..11 : g[k] \in Finishes
      BY <3>3, <3>5
    <3> QED BY <3>1, <3>2, <3>4
  <2>2. CASE trusted = FALSE
    <3> DEFINE g == Finalize(FALSE)
    <3>1. /\ Len(g) = 10 /\ g[1] = <<"put", "captured">> /\ g[2] = <<"advance", "enriched">>
          /\ g[3] = <<"put", "kept">> /\ g[4] = <<"advance", "embedded">>
          /\ g[5] = <<"add", {"links"}>> /\ g[6] = <<"put", "kept">>
          /\ g[7] = <<"advance", "connected">> /\ g[8] = <<"advance", "verified">>
          /\ g[9] = <<"put", "kept">> /\ g[10] = <<"add", {"topics"}>>
      BY DEF Finalize
    <3>2. f = g
      BY <2>2
    <3> HIDE DEF g, f
    <3>3. \A k \in 2..10 : k = 2 \/ k = 3 \/ k = 4 \/ k = 5 \/ k = 6 \/ k = 7 \/ k = 8 \/ k = 9
                            \/ k = 10
      OBVIOUS
    <3>5. /\ g[2] \in Finishes /\ g[3] \in Finishes /\ g[4] \in Finishes /\ g[5] \in Finishes
          /\ g[6] \in Finishes
          /\ g[7] \in Finishes /\ g[8] \in Finishes /\ g[9] \in Finishes /\ g[10] \in Finishes
      BY <3>1, FinishesAre, StatesHave
    <3>4. \A k \in 2..10 : g[k] \in Finishes
      BY <3>3, <3>5
    <3> QED BY <3>1, <3>2, <3>4
  <2> QED BY <2>1, <2>2
<1>3. u \in Seq(Refilling) /\ Len(u) = 1 /\ u[1] = <<"add", {"url"}>>
  <2>1. <<"add", {"url"}>> \in Refilling
    BY DEF Refilling, Added, Stores
  <2> QED BY <2>1
<1>4. z = Cat(f, u)
  BY DEF Middle
<1> HIDE DEF f, u
<1>5. /\ z \in Seq(Refilling) /\ Len(z) = Len(f) + Len(u)
      /\ \A k \in 1..(Len(f) + Len(u)) : z[k] = IF k <= Len(f) THEN f[k] ELSE u[k - Len(f)]
  <2>1. Joins(Cat(f, u), f, u, Refilling)
    BY <1>1, <1>3, <1>4, CatIs
  <2> QED BY <1>1, <1>3, <1>4, <2>1 DEF Joins
<1>6. z[1] = f[1] /\ z[Len(f) + 1] = u[1] /\ Len(z) = Len(f) + 1
      /\ \A k \in 2..Len(f) : z[k] = f[k]
  BY <1>2, <1>3, <1>5
<1>7. Len(z) \in Nat /\ Len(z) > 2 /\ Len(z) = Len(f) + 1
  <2>1. Len(z) = Len(f) + 1
    BY <1>6
  <2>2. Len(f) \in Nat /\ Len(f) > 2
    <3>1. Len(f) = 10 \/ Len(f) = 11
      BY <1>2
    <3>2. \A n : n = 10 \/ n = 11 => n \in Nat /\ n > 2
      OBVIOUS
    <3> QED BY <3>1, <3>2, Zenon
  <2> QED BY <2>1, <2>2
<1>8. z[1] = <<"put", "captured">> /\ z[Len(z)] = <<"add", {"url"}>>
  BY <1>2, <1>3, <1>6
<1>9. \A k \in 2..Len(z) : z[k] \in Finishes
  <2>1. \A k \in 2..Len(z) : k \in 2..Len(f) \/ k = Len(z)
    BY <1>2, <1>7
  <2>2. z[Len(z)] \in Finishes
    BY <1>8, FinishesAre
  <2> QED BY <1>2, <1>6, <2>1, <2>2
<1> QED BY <1>5, <1>7, <1>8, <1>9

(* A replacement, refills, the registration and the middle make a filling  *)
(* plan,                                                                   *)
LEMMA FilledFrom ==
    ASSUME NEW x \in Seq(Refilling), NEW trusted \in BOOLEAN, NEW p, Len(x) > 0,
           \A k \in 1..Len(x) : x[k] \in Refills,
           \E k \in 1..Len(x) : x[k] = <<"bump", {}>>,
           p = Cat(Cat(Cat(Replace, x), <<<<"add", {"registry"}>>>>), Middle(trusted))
    PROVE  FillPlan(p)
<1> DEFINE g == <<<<"add", {"registry"}>>>>
           z == Middle(trusted)
           a == Cat(Replace, x)
           b == Cat(a, g)
           r == Len(x) + 5
<1>1. /\ Replace \in Seq(Refilling) /\ Len(Replace) = 4
      /\ Replace[1] = <<"drop", {"vectors", "fts"}>> /\ Replace[2] = <<"drop", {"chunks"}>>
      /\ Replace[3] = <<"add", {"chunks"}>> /\ Replace[4] = <<"add", {"vectors", "capsule", "fts"}>>
  <2>1. /\ <<"drop", {"vectors", "fts"}>> \in Refilling /\ <<"drop", {"chunks"}>> \in Refilling
        /\ <<"add", {"chunks"}>> \in Refilling
        /\ <<"add", {"vectors", "capsule", "fts"}>> \in Refilling
    BY DEF Refilling, Added, Stores
  <2> QED BY <2>1 DEF Replace
<1>2. g \in Seq(Refilling) /\ Len(g) = 1 /\ g[1] = <<"add", {"registry"}>>
  <2>1. <<"add", {"registry"}>> \in Refilling
    BY DEF Refilling, Added, Stores
  <2> QED BY <2>1
<1>3. /\ Len(z) \in Nat /\ Len(z) > 2 /\ z[1] = <<"put", "captured">>
      /\ \A k \in 2..Len(z) : z[k] \in Finishes
      /\ z[Len(z)] = <<"add", {"url"}>> /\ z \in Seq(Refilling)
  BY MiddleIs
<1>4. p = Cat(b, z)
  OBVIOUS
<1>5. Len(x) \in Nat
  OBVIOUS
<1>19. a = Cat(Replace, x) /\ b = Cat(a, g)
  OBVIOUS
<1> HIDE DEF g, z, a, b
<1>6. /\ a \in Seq(Refilling) /\ Len(a) = 4 + Len(x)
      /\ \A k \in 1..(4 + Len(x)) : a[k] = IF k <= 4 THEN Replace[k] ELSE x[k - 4]
  <2>1. Joins(Cat(Replace, x), Replace, x, Refilling)
    BY <1>1, CatIs
  <2> QED BY <1>1, <1>19, <2>1 DEF Joins
<1>7. /\ b \in Seq(Refilling) /\ Len(b) = Len(a) + Len(g)
      /\ \A k \in 1..(Len(a) + Len(g)) : b[k] = IF k <= Len(a) THEN a[k] ELSE g[k - Len(a)]
  <2>1. Joins(Cat(a, g), a, g, Refilling)
    BY <1>2, <1>6, CatIs
  <2> QED BY <1>2, <1>6, <1>19, <2>1 DEF Joins
<1>8. /\ p \in Seq(Refilling) /\ Len(p) = Len(b) + Len(z)
      /\ \A k \in 1..(Len(b) + Len(z)) : p[k] = IF k <= Len(b) THEN b[k] ELSE z[k - Len(b)]
  <2>1. Joins(Cat(b, z), b, z, Refilling)
    BY <1>3, <1>4, <1>7, CatIs
  <2> QED BY <1>3, <1>4, <1>7, <2>1 DEF Joins
<1>9. Len(b) = r /\ Len(a) = r - 1 /\ Len(p) = r + Len(z) /\ r \in 6..(Len(p) - 2) /\ Len(p) \in Nat
  BY <1>2, <1>3, <1>5, <1>6, <1>7, <1>8
<1>20. \A k \in 1..r : p[k] = b[k]
  BY <1>3, <1>5, <1>8, <1>9
<1>21. \A k \in 1..(r - 1) : b[k] = a[k]
  BY <1>2, <1>5, <1>7, <1>9
<1>10. \A k \in 1..4 : p[k] = Replace[k]
  <2> SUFFICES ASSUME NEW k \in 1..4 PROVE p[k] = Replace[k]
    OBVIOUS
  <2>1. k \in 1..r /\ k \in 1..(r - 1) /\ k \in 1..(4 + Len(x)) /\ k <= 4
    BY <1>5
  <2>2. a[k] = Replace[k]
    BY <1>6, <2>1
  <2> QED BY <1>20, <1>21, <2>1, <2>2
<1>11. \A k \in 5..(r - 1) : p[k] = x[k - 4]
  <2> SUFFICES ASSUME NEW k \in 5..(r - 1) PROVE p[k] = x[k - 4]
    OBVIOUS
  <2>1. k \in 1..r /\ k \in 1..(r - 1) /\ k \in 1..(4 + Len(x)) /\ ~(k <= 4)
    BY <1>5
  <2>2. a[k] = x[k - 4]
    BY <1>6, <2>1
  <2> QED BY <1>20, <1>21, <2>1, <2>2
<1>12. p[r] = <<"add", {"registry"}>>
  <2>1. b[r] = g[1]
    BY <1>2, <1>5, <1>7, <1>9
  <2> QED BY <1>2, <1>5, <1>20, <2>1
<1>13. \A k \in (r + 1)..Len(p) : p[k] = z[k - r]
  BY <1>3, <1>5, <1>8, <1>9
<1> HIDE DEF r
<1>14. p[r + 1] = <<"put", "captured">> /\ \A k \in (r + 2)..Len(p) : p[k] \in Finishes
  <2>1. r + 1 \in (r + 1)..Len(p) /\ (r + 1) - r = 1
    BY <1>3, <1>9
  <2>2. \A k \in (r + 2)..Len(p) : k \in (r + 1)..Len(p) /\ k - r \in 2..Len(z)
    BY <1>3, <1>9
  <2>3. p[r + 1] = <<"put", "captured">>
    BY <1>3, <1>13, <2>1
  <2>4. \A k \in (r + 2)..Len(p) : p[k] \in Finishes
    BY <1>3, <1>13, <2>2
  <2> QED BY <2>3, <2>4
<1>15. p[Len(p)][1] = "add"
  <2>1. Len(p) \in (r + 1)..Len(p) /\ Len(p) - r = Len(z)
    BY <1>3, <1>9
  <2>2. p[Len(p)] = z[Len(z)]
    BY <1>13, <2>1
  <2> QED BY <1>3, <2>2
<1>16. \A k \in 5..(r - 1) : p[k] \in Refills
  BY <1>5, <1>11 DEF r
<1>17. \E k \in 5..(r - 1) : p[k] = <<"bump", {}>>
  <2>1. PICK k \in 1..Len(x) : x[k] = <<"bump", {}>>
    OBVIOUS
  <2>2. k + 4 \in 5..(r - 1) /\ (k + 4) - 4 = k
    BY <1>5 DEF r
  <2> QED BY <1>11, <2>1, <2>2
<1>18. FillPlanAt(p, r)
  <2>1. /\ p[1] = <<"drop", {"vectors", "fts"}>> /\ p[2] = <<"drop", {"chunks"}>>
        /\ p[3] = <<"add", {"chunks"}>> /\ p[4] = <<"add", {"vectors", "capsule", "fts"}>>
    BY <1>1, <1>10
  <2> QED BY <1>12, <1>14, <1>15, <1>16, <1>17, <2>1, Zenon DEF FillPlanAt
<1> QED BY <1>9, <1>18 DEF FillPlan

(* and every plan of an ingest is one.                                     *)
LEMMA FillsAre ==
    ASSUME NEW local \in BOOLEAN, NEW trusted \in BOOLEAN
    PROVE  FillPlan(VideoPlan(local, trusted)) /\ FillPlan(PagePlan(local, trusted))
<1> DEFINE h == <<<<"add", {"hash"}>>>>
           b == Bump(local)
           v == Cat(h, b)
<1>1. /\ Len(b) \in {1, 2} /\ b[1] = <<"bump", {}>> /\ b \in Seq(Refilling)
      /\ \A k \in 1..Len(b) : b[k] \in Refills
  <2>1. <<"bump", {}>> \in Refilling /\ <<"wipe", {}>> \in Refilling
    BY DEF Refilling
  <2>2. <<"bump", {}>> \in Refills /\ <<"wipe", {}>> \in Refills
    BY DEF Refills
  <2>3. CASE local
    <3>1. b = <<<<"bump", {}>>, <<"wipe", {}>>>>
      BY <2>3 DEF Bump
    <3> HIDE DEF b
    <3> QED BY <2>1, <2>2, <3>1
  <2>4. CASE ~local
    <3>1. b = <<<<"bump", {}>>>>
      BY <2>4 DEF Bump
    <3> HIDE DEF b
    <3> QED BY <2>1, <2>2, <3>1
  <2> QED BY <2>3, <2>4
<1>2. h \in Seq(Refilling) /\ Len(h) = 1 /\ h[1] = <<"add", {"hash"}>>
  <2>1. <<"add", {"hash"}>> \in Refilling
    BY DEF Refilling, Added, Stores
  <2> QED BY <2>1
<1>3. v = Cat(h, b)
  OBVIOUS
<1>4. VideoPlan(local, trusted)
        = Cat(Cat(Cat(Replace, v), <<<<"add", {"registry"}>>>>), Middle(trusted))
  BY DEF Cat, Middle, VideoPlan
<1>5. PagePlan(local, trusted)
        = Cat(Cat(Cat(Replace, b), <<<<"add", {"registry"}>>>>), Middle(trusted))
  BY DEF Cat, Middle, PagePlan
<1> HIDE DEF h, b, v
<1>6. /\ v \in Seq(Refilling) /\ Len(v) = Len(h) + Len(b)
      /\ \A k \in 1..(Len(h) + Len(b)) : v[k] = IF k <= Len(h) THEN h[k] ELSE b[k - Len(h)]
  <2>1. Joins(Cat(h, b), h, b, Refilling)
    BY <1>1, <1>2, CatIs
  <2> QED BY <1>3, <2>1 DEF Joins
<1>7. /\ Len(v) > 0 /\ (\A k \in 1..Len(v) : v[k] \in Refills) /\ v[2] = <<"bump", {}>>
      /\ 2 \in 1..Len(v)
  <2>1. <<"add", {"hash"}>> \in Refills
    BY DEF Refills
  <2>2. Len(v) = 1 + Len(b) /\ Len(b) \in Nat /\ Len(v) >= 2
    BY <1>1, <1>2, <1>6
  <2>3. \A k \in 1..Len(v) : v[k] = IF k <= 1 THEN h[k] ELSE b[k - 1]
    BY <1>2, <1>6, <2>2
  <2>4. v[1] = h[1] /\ v[2] = b[1]
    BY <2>2, <2>3
  <2>5. \A k \in 2..Len(v) : v[k] = b[k - 1] /\ k - 1 \in 1..Len(b)
    BY <2>2, <2>3
  <2>6. \A k \in 1..Len(v) : v[k] \in Refills
    <3> TAKE k \in 1..Len(v)
    <3>1. k = 1 \/ k \in 2..Len(v)
      BY <2>2
    <3>2. k = 1 => v[k] \in Refills
      BY <1>2, <2>1, <2>4
    <3>3. k \in 2..Len(v) => v[k] \in Refills
      BY <1>1, <2>5
    <3> QED BY <3>1, <3>2, <3>3
  <2>7. v[2] = <<"bump", {}>> /\ 2 \in 1..Len(v) /\ Len(v) > 0
    BY <1>1, <2>2, <2>4
  <2> QED BY <2>6, <2>7
<1>8. FillPlan(VideoPlan(local, trusted))
  BY <1>4, <1>6, <1>7, FilledFrom
<1>9. FillPlan(PagePlan(local, trusted))
  <2>1. Len(b) > 0 /\ 1 \in 1..Len(b)
    BY <1>1
  <2> QED BY <1>1, <1>5, <2>1, FilledFrom
<1> QED BY <1>8, <1>9

(* What is still to come in a plan p, from its k-th call on.               *)
AddsLater(p, k, s) == \E m \in k..Len(p) : p[m][1] = "add" /\ s \in p[m][2]
Later(p, k, what) == \E m \in k..Len(p) : p[m][1] = what
PutsLater(p, k) == \E m \in k..Len(p) : p[m] = <<"put", "captured">>

(* The kinds of the calls of a filling plan,                               *)
LEMMA FillKinds ==
    /\ \A c \in Refills : c[1] \in {"add", "bump", "wipe"} /\ (c[1] = "add" => c[2] = {"hash"})
    /\ \A c \in Finishes :
          /\ c[1] \in {"put", "add", "advance"} /\ (c[1] = "put" => c[2] = "kept")
          /\ c[1] = "add" => c[2] \in {{"links"}, {"topics"}, {"url"}}
          /\ c[1] = "advance" => c[2] \in States
          /\ c # <<"put", "captured">>
BY DEF Refills, Finishes

(* the calls by their places,                                              *)
LEMMA FillCalls ==
    ASSUME NEW p, Len(p) \in Nat, NEW r \in 6..(Len(p) - 2), FillPlanAt(p, r)
    PROVE  /\ \A k \in 1..Len(p) : \/ k = 1 \/ k = 2 \/ k = 3 \/ k = 4 \/ k \in 5..(r - 1)
                                   \/ k = r \/ k = r + 1 \/ k \in (r + 2)..Len(p)
           /\ p[1][1] = "drop" /\ p[1][2] = {"vectors", "fts"} /\ p[2][1] = "drop"
           /\ p[2][2] = {"chunks"}
           /\ p[3][1] = "add" /\ p[3][2] = {"chunks"}
           /\ p[4][1] = "add" /\ p[4][2] = {"vectors", "capsule", "fts"}
           /\ \A k \in 5..(r - 1) : p[k][1] \in {"add", "bump", "wipe"} /\ (p[k][1] = "add" => p[k][2] = {"hash"})
           /\ \E k \in 5..(r - 1) : p[k][1] = "bump"
           /\ p[r][1] = "add" /\ p[r][2] = {"registry"}
           /\ p[r + 1][1] = "put" /\ p[r + 1][2] = "captured"
           /\ \A k \in (r + 2)..Len(p) :
                 /\ p[k][1] \in {"put", "add", "advance"} /\ (p[k][1] = "put" => p[k][2] = "kept")
                 /\ p[k][1] = "add" => p[k][2] \in {{"links"}, {"topics"}, {"url"}}
                 /\ p[k][1] = "advance" => p[k][2] \in States
                 /\ p[k] # <<"put", "captured">>
           /\ p[Len(p)][1] = "add"
<1>1. \A k \in 1..Len(p) : \/ k = 1 \/ k = 2 \/ k = 3 \/ k = 4 \/ k \in 5..(r - 1)
                           \/ k = r \/ k = r + 1 \/ k \in (r + 2)..Len(p)
  OBVIOUS
<1>2. \E k \in 5..(r - 1) : p[k][1] = "bump"
  BY DEF FillPlanAt
<1>3. \A k \in 5..(r - 1) : p[k][1] \in {"add", "bump", "wipe"} /\ (p[k][1] = "add" => p[k][2] = {"hash"})
  BY FillKinds DEF FillPlanAt
<1>4. \A k \in (r + 2)..Len(p) :
                 /\ p[k][1] \in {"put", "add", "advance"} /\ (p[k][1] = "put" => p[k][2] = "kept")
                 /\ p[k][1] = "add" => p[k][2] \in {{"links"}, {"topics"}, {"url"}}
                 /\ p[k][1] = "advance" => p[k][2] \in States
                 /\ p[k] # <<"put", "captured">>
  BY FillKinds DEF FillPlanAt
<1>5. /\ p[1][1] = "drop" /\ p[1][2] = {"vectors", "fts"} /\ p[2][1] = "drop"
      /\ p[2][2] = {"chunks"}
      /\ p[3][1] = "add" /\ p[3][2] = {"chunks"}
      /\ p[4][1] = "add" /\ p[4][2] = {"vectors", "capsule", "fts"}
  <2>1. /\ p[1] = <<"drop", {"vectors", "fts"}>> /\ p[2] = <<"drop", {"chunks"}>>
        /\ p[3] = <<"add", {"chunks"}>> /\ p[4] = <<"add", {"vectors", "capsule", "fts"}>>
    BY Zenon DEF FillPlanAt
  <2> QED BY <2>1
<1>6. /\ p[r][1] = "add" /\ p[r][2] = {"registry"}
      /\ p[r + 1][1] = "put" /\ p[r + 1][2] = "captured"
  <2>1. p[r] = <<"add", {"registry"}>> /\ p[r + 1] = <<"put", "captured">>
    BY Zenon DEF FillPlanAt
  <2> QED BY <2>1
<1>7. p[Len(p)][1] = "add"
  BY Zenon DEF FillPlanAt
<1> QED BY <1>1, <1>2, <1>3, <1>4, <1>5, <1>6, <1>7

(* where it adds and where it drops,                                       *)
LEMMA FillAdds ==
    ASSUME NEW p, Len(p) \in Nat, NEW r \in 6..(Len(p) - 2), FillPlanAt(p, r),
           NEW m \in 1..Len(p)
    PROVE  /\ p[m][1] = "add" =>
                \/ m = 3 /\ p[m][2] = {"chunks"}
                \/ m = 4 /\ p[m][2] = {"vectors", "capsule", "fts"}
                \/ m \in 5..(r - 1) /\ p[m][2] = {"hash"}
                \/ m = r /\ p[m][2] = {"registry"}
                \/ m \in (r + 2)..Len(p) /\ p[m][2] \in {{"links"}, {"topics"}, {"url"}}
           /\ p[m][1] = "drop" =>
                \/ m = 1 /\ p[m][2] = {"vectors", "fts"}
                \/ m = 2 /\ p[m][2] = {"chunks"}
<1>1. \/ m = 1 \/ m = 2 \/ m = 3 \/ m = 4 \/ m \in 5..(r - 1)
      \/ m = r \/ m = r + 1 \/ m \in (r + 2)..Len(p)
  OBVIOUS
<1>2. CASE m \in {1, 2, 3, 4}
  BY <1>2, FillCalls
<1>3. CASE m \in 5..(r - 1)
  BY <1>3, FillCalls
<1>4. CASE m = r
  BY <1>4, FillCalls
<1>5. CASE m = r + 1
  BY <1>5, FillCalls
<1>6. CASE m \in (r + 2)..Len(p)
  BY <1>6, FillCalls
<1> QED BY <1>1, <1>2, <1>3, <1>4, <1>5, <1>6

(* what they are,                                                          *)
LEMMA FillCallIs ==
    ASSUME NEW p, Len(p) \in Nat, NEW r \in 6..(Len(p) - 2), FillPlanAt(p, r),
           NEW m \in 1..Len(p)
    PROVE  /\ p[m][1] \in {"drop", "add", "bump", "wipe", "put", "advance"}
           /\ p[m][1] = "put" => p[m][2] \in {"captured", "kept"}
           /\ p[m][1] = "advance" => p[m][2] \in States
<1>1. CASE m \in {1, 2, 3, 4}
  BY <1>1, FillCalls
<1>2. CASE m \in 5..(r - 1)
  BY <1>2, FillCalls
<1>3. CASE m \in {r, r + 1}
  BY <1>3, FillCalls
<1>4. CASE m \in (r + 2)..Len(p)
  BY <1>4, FillCalls
<1> QED BY <1>1, <1>2, <1>3, <1>4

(* what follows each of them: what is dropped is added again,              *)
LEMMA FillFacts ==
    ASSUME NEW p, FillPlan(p)
    PROVE  /\ Len(p) \in Nat /\ Len(p) > 0
           /\ \A s \in Content : AddsLater(p, 1, s)
           /\ \A k \in 1..Len(p) : p[k][1] \in {"drop", "add", "bump", "wipe", "put", "advance"}
           /\ \A k \in 1..Len(p) : p[k][1] # "add" => k < Len(p)
           /\ \A k \in 1..Len(p) : p[k][1] = "drop" =>
                 p[k][2] \subseteq Stores /\ \A s \in p[k][2] : AddsLater(p, k + 1, s)
           /\ \A k \in 1..Len(p) : p[k][1] = "add" => p[k][2] \subseteq Stores \ {"yt", "review"}
           /\ \A k \in 1..Len(p) : p[k][1] = "put" => p[k][2] \in {"captured", "kept"}
           /\ \A k \in 1..Len(p) : p[k][1] = "advance" => p[k][2] \in States
<1>1. Len(p) \in Nat
  BY DEF FillPlan
<1>2. PICK r \in 6..(Len(p) - 2) : FillPlanAt(p, r)
  BY DEF FillPlan
<1>3. \A s \in Content : AddsLater(p, 1, s)
  BY <1>1, <1>2, FillCalls DEF Content, AddsLater
<1>4. \A k \in 1..Len(p) : p[k][1] \in {"drop", "add", "bump", "wipe", "put", "advance"}
  BY <1>1, <1>2, FillCallIs
<1>5. \A k \in 1..Len(p) : p[k][1] # "add" => k < Len(p)
  BY <1>1, <1>2, FillCalls
<1>6. ASSUME NEW k \in 1..Len(p), p[k][1] = "drop"
      PROVE  p[k][2] \subseteq Stores /\ \A s \in p[k][2] : AddsLater(p, k + 1, s)
  <2>1. k = 1 \/ k = 2
    BY <1>1, <1>2, <1>6, FillAdds
  <2>2. AddsLater(p, 2, "vectors") /\ AddsLater(p, 2, "fts") /\ AddsLater(p, 3, "chunks")
    <3>1. /\ p[3][1] = "add" /\ p[3][2] = {"chunks"}
          /\ p[4][1] = "add" /\ p[4][2] = {"vectors", "capsule", "fts"}
      BY <1>1, <1>2, FillCalls
    <3>2. 4 \in 2..Len(p) /\ 3 \in 3..Len(p)
      BY <1>1, <1>2
    <3> QED BY <3>1, <3>2 DEF AddsLater
  <2>3. CASE k = 1
    <3>1. p[k][2] = {"vectors", "fts"}
      BY <1>1, <1>2, <1>6, <2>3, FillAdds
    <3>2. AddsLater(p, k + 1, "vectors") /\ AddsLater(p, k + 1, "fts")
      <4>1. k + 1 = 2
        BY <2>3
      <4> QED BY <2>2, <4>1
    <3> QED BY <3>1, <3>2 DEF Stores
  <2>4. CASE k = 2
    <3>1. p[k][2] = {"chunks"}
      BY <1>1, <1>2, <1>6, <2>4, FillAdds
    <3>2. AddsLater(p, k + 1, "chunks")
      <4>1. k + 1 = 3
        BY <2>4
      <4> QED BY <2>2, <4>1
    <3> QED BY <3>1, <3>2 DEF Stores
  <2> QED BY <2>1, <2>3, <2>4
<1>7. \A k \in 1..Len(p) : p[k][1] = "add" => p[k][2] \subseteq Stores \ {"yt", "review"}
  <2> SUFFICES ASSUME NEW k \in 1..Len(p), p[k][1] = "add"
               PROVE  p[k][2] \subseteq Stores \ {"yt", "review"}
    OBVIOUS
  <2>1. p[k][2] \in {{"chunks"}, {"vectors", "capsule", "fts"}, {"hash"}, {"registry"}, {"links"},
                     {"topics"}, {"url"}}
    BY <1>1, <1>2, FillAdds
  <2> QED BY <2>1 DEF Stores
<1>8. \A k \in 1..Len(p) : p[k][1] = "put" => p[k][2] \in {"captured", "kept"}
  BY <1>1, <1>2, FillCallIs
<1>9. \A k \in 1..Len(p) : p[k][1] = "advance" => p[k][2] \in States
  BY <1>1, <1>2, FillCallIs
<1> QED BY <1>1, <1>2, <1>3, <1>4, <1>5, <1>6, <1>7, <1>8, <1>9

(* and in which order: the version is raised before the registration, the  *)
(* content added before the record is put.                                 *)
LEMMA FillOrder ==
    ASSUME NEW p, FillPlan(p), NEW k \in 1..Len(p)
    PROVE  /\ AddsLater(p, k, "chunks") => Later(p, k, "bump")
           /\ p[k][1] \in {"put", "advance"} =>
                 ~Later(p, k, "bump") /\ \A s \in Content : ~AddsLater(p, k, s)
           /\ p[k][1] = "add" /\ "registry" \in p[k][2] => ~Later(p, k, "bump")
           /\ p[k][1] = "advance" \/ p[k] = <<"put", "kept">> => ~PutsLater(p, k)
           /\ k = Len(p) => ~PutsLater(p, k)
<1>1. Len(p) \in Nat
  BY DEF FillPlan
<1>2. PICK r \in 6..(Len(p) - 2) : FillPlanAt(p, r)
  BY DEF FillPlan
<1>3. AddsLater(p, k, "chunks") => Later(p, k, "bump")
  <2>1. AddsLater(p, k, "chunks") => k <= 3
    <3> HAVE AddsLater(p, k, "chunks")
    <3>1. PICK m \in k..Len(p) : p[m][1] = "add" /\ "chunks" \in p[m][2]
      BY DEF AddsLater
    <3>2. m \in 1..Len(p)
      BY <1>1
    <3>3. \/ m = 3 /\ p[m][2] = {"chunks"}
          \/ m = 4 /\ p[m][2] = {"vectors", "capsule", "fts"}
          \/ m \in 5..(r - 1) /\ p[m][2] = {"hash"}
          \/ m = r /\ p[m][2] = {"registry"}
          \/ m \in (r + 2)..Len(p) /\ p[m][2] \in {{"links"}, {"topics"}, {"url"}}
      BY <1>1, <1>2, <3>1, <3>2, FillAdds
    <3>4. m = 3
      <4>1. p[m][2] # {"vectors", "capsule", "fts"} /\ p[m][2] # {"hash"} /\ p[m][2] # {"registry"}
            /\ p[m][2] \notin {{"links"}, {"topics"}, {"url"}}
        BY <3>1
      <4> QED BY <3>3, <4>1
    <3> QED BY <1>1, <3>2, <3>4
  <2> QED BY <1>1, <1>2, <2>1, FillCalls DEF Later
<1>4. k >= r => ~Later(p, k, "bump")
  BY <1>1, <1>2, FillCalls DEF Later
<1>5. k > r => \A s \in Content : ~AddsLater(p, k, s)
  BY <1>1, <1>2, FillCalls DEF AddsLater, Content
<1>6. p[k][1] \in {"put", "advance"} => k > r
  BY <1>1, <1>2, FillCalls
<1>7. p[k][1] = "add" /\ "registry" \in p[k][2] => k = r
  <2> HAVE p[k][1] = "add" /\ "registry" \in p[k][2]
  <2>1. k = r \/ p[k][2] \in {{"chunks"}, {"vectors", "capsule", "fts"}, {"hash"}, {"links"}, {"topics"},
                             {"url"}}
    BY <1>1, <1>2, FillAdds
  <2> QED BY <2>1
<1>8. k > r + 1 => ~PutsLater(p, k)
  BY <1>1, <1>2, FillCalls DEF PutsLater
<1>9. p[k][1] = "advance" \/ p[k] = <<"put", "kept">> \/ k = Len(p) => k > r + 1
  <2>1. k # r + 1 \/ (p[k][1] # "advance" /\ p[k] # <<"put", "kept">> /\ k < Len(p))
    BY <1>1, <1>2, FillCalls
  <2> QED BY <1>1, <1>2, <2>1, FillCalls
<1> QED BY <1>3, <1>4, <1>5, <1>6, <1>7, <1>8, <1>9

(* In which order a deletion goes about it. *)
DeleteOrdered(p, k) ==
    /\ p[k][1] = "drop" => "hash" \notin p[k][2] /\ k < Len(p)
    /\ p[k][1] = "drop" /\ p[k][2] \cap {"fts", "capsule"} # {} => ~Later(p, k, "others")
    /\ p[k][1] = "others" => ~Later(p, k + 1, "others") /\ k < Len(p)
    /\ p[k][1] = "forget" =>
          /\ ~Later(p, k, "others") /\ ~Later(p, k + 1, "forget") /\ k < Len(p)
          /\ \A s : ~DropsLater(p, k, s)
    /\ p[k][1] = "invalidate" =>
          /\ ~Later(p, k, "others") /\ ~Later(p, k, "forget") /\ k = Len(p)
          /\ \A s : ~DropsLater(p, k, s)
    /\ k = 1 => Later(p, k, "others") /\ Later(p, k, "forget")

(* In which order a deletion goes about it.                                *)
LEMMA DeletionOrder ==
    ASSUME NEW p, PageDeletion(p) \/ VideoDeletion(p), NEW k \in 1..Len(p)
    PROVE  DeleteOrdered(p, k)
<1> DEFINE n == Len(p)
<1>1. /\ n \in {10, 11} /\ \A m \in 1..n : /\ p[m][1] = "invalidate" <=> m = n
                                           /\ p[m][1] = "forget" <=> m = n - 1
                                           /\ p[m][1] = "others" <=> m = 2
                                           /\ p[m][1] = "drop" <=> (m # 2 /\ m < n - 1)
  <2>1. CASE PageDeletion(p)
    <3>1. n = 10
      BY <2>1 DEF PageDeletion
    <3>2. ASSUME NEW m \in 1..10
          PROVE  /\ p[m][1] = "invalidate" <=> m = 10
                 /\ p[m][1] = "forget" <=> m = 9
                 /\ p[m][1] = "others" <=> m = 2
                 /\ p[m][1] = "drop" <=> m \in {1, 3, 4, 5, 6, 7, 8}
      <4>1. m \in 1..Len(p)
        BY <3>1
      <4> QED BY <2>1, <4>1, PageDeletionKinds
    <3> HIDE DEF n
    <3> QED BY <3>1, <3>2
  <2>2. CASE VideoDeletion(p)
    <3>1. n = 11
      BY <2>2 DEF VideoDeletion
    <3>2. ASSUME NEW m \in 1..11
          PROVE  /\ p[m][1] = "invalidate" <=> m = 11
                 /\ p[m][1] = "forget" <=> m = 10
                 /\ p[m][1] = "others" <=> m = 2
                 /\ p[m][1] = "drop" <=> m \in {1, 3, 4, 5, 6, 7, 8, 9}
      <4>1. m \in 1..Len(p)
        BY <3>1
      <4> QED BY <2>2, <4>1, VideoDeletionKinds
    <3> HIDE DEF n
    <3> QED BY <3>1, <3>2
  <2> QED BY <2>1, <2>2
<1>2. \A m \in 1..n : p[m][1] = "drop" => "hash" \notin p[m][2]
  <2>1. CASE PageDeletion(p)
    <3>1. \A m \in 1..10 : m = 1 \/ m = 2 \/ m = 3 \/ m = 4 \/ m = 5 \/ m = 6 \/ m = 7 \/ m = 8 \/ m = 9
                             \/ m = 10
      OBVIOUS
    <3> QED BY <2>1, <3>1 DEF PageDeletion
  <2>2. CASE VideoDeletion(p)
    <3>1. \A m \in 1..11 : m = 1 \/ m = 2 \/ m = 3 \/ m = 4 \/ m = 5 \/ m = 6 \/ m = 7 \/ m = 8 \/ m = 9
                             \/ m = 10 \/ m = 11
      OBVIOUS
    <3> QED BY <2>2, <3>1 DEF VideoDeletion
  <2> QED BY <2>1, <2>2
<1>3. p[1][2] = {"chunks"}
  <2>1. CASE PageDeletion(p)
    BY <2>1 DEF PageDeletion
  <2>2. CASE VideoDeletion(p)
    BY <2>2 DEF VideoDeletion
  <2> QED BY <2>1, <2>2
<1>4. k \in 1..n /\ n \in Nat
  BY <1>1
<1> HIDE DEF n
<1>5. p[k][1] = "drop" => "hash" \notin p[k][2] /\ k < n
  BY <1>1, <1>2, <1>4
<1>6. p[k][1] = "drop" /\ p[k][2] \cap {"fts", "capsule"} # {} => \A m \in k..n : p[m][1] # "others"
  <2> HAVE p[k][1] = "drop" /\ p[k][2] \cap {"fts", "capsule"} # {}
  <2>1. k # 1
    BY <1>3
  <2> QED BY <1>1, <1>4, <2>1
<1>7. p[k][1] = "others" => (\A m \in (k + 1)..n : p[m][1] # "others") /\ k < n
  BY <1>1, <1>4
<1>8. p[k][1] = "forget" =>
          /\ \A m \in k..n : p[m][1] # "others" /\ p[m][1] # "drop"
          /\ \A m \in (k + 1)..n : p[m][1] # "forget"
          /\ k < n
  BY <1>1, <1>4
<1>9. p[k][1] = "invalidate" =>
          /\ \A m \in k..n : p[m][1] # "others" /\ p[m][1] # "forget" /\ p[m][1] # "drop"
          /\ k = n
  BY <1>1, <1>4
<1>10. k = 1 => (\E m \in k..n : p[m][1] = "others") /\ (\E m \in k..n : p[m][1] = "forget")
  <2>1. 2 \in 1..n /\ n - 1 \in 1..n /\ p[2][1] = "others" /\ p[n - 1][1] = "forget"
    BY <1>1
  <2> QED BY <2>1
<1> QED BY <1>5, <1>6, <1>7, <1>8, <1>9, <1>10 DEF DeleteOrdered, Later, DropsLater, n

(* What is ahead of a job.                                                 *)
PlanOf(j) == Plan[j.plan]
Fl(j) == j.op = "ingest" /\ j.plan[1] \in {"video", "page"}
AddsAhead(j, s) == Fl(j) /\ AddsLater(PlanOf(j), j.at, s)
BumpAhead(j) == Fl(j) /\ Later(PlanOf(j), j.at, "bump")
PutAhead(j) == (Fl(j) \/ j.op = "mark") /\ PutsLater(PlanOf(j), j.at)
DropAhead(j, s) == j.op = "delete" /\ DropsLater(PlanOf(j), j.at, s)
OthersAhead(j) == j.op = "delete" /\ Later(PlanOf(j), j.at, "others")
ForgetAhead(j) == j.op = "delete" /\ Later(PlanOf(j), j.at, "forget")
RetrieveAhead(j) == j.op = "search" /\ Later(PlanOf(j), j.at, "retrieve")

(* The plan of a busy job, by its operation.                               *)
LEMMA PlanIs ==
    ASSUME NEW j, Busy(j)
    PROVE  /\ Fl(j) => FillPlan(PlanOf(j))
           /\ j.op = "delete" => PageDeletion(PlanOf(j)) \/ VideoDeletion(PlanOf(j))
           /\ j.op = "delete" => DeleteOrdered(PlanOf(j), j.at)
           /\ j.op = "mark" => PlanOf(j) = MarkPlan
           /\ j.op = "search" => PlanOf(j) = SearchPlan
           /\ j.op = "review" => PlanOf(j) = <<<<"add", {"review"}>>>>
           /\ j.op = "ingest" /\ ~Fl(j) => j.plan \in {<<"read", "transcript">>, <<"read", "refetch">>}
           /\ j.at \in 1..Len(PlanOf(j)) /\ j.at \in Nat /\ Len(PlanOf(j)) \in Nat
<1>1. j.plan \in Names /\ j.at \in 1..Len(PlanOf(j))
  BY DEF Busy, PlanOf
<1>2. j.at \in Nat /\ Len(PlanOf(j)) \in Nat
  BY <1>1, PlansTyped DEF PlanOf
<1>3. Fl(j) => FillPlan(PlanOf(j))
  <2> HAVE Fl(j)
  <2>1. \/ \E l, tr \in BOOLEAN : j.plan = <<"video", l, tr>>
        \/ \E l, tr \in BOOLEAN : j.plan = <<"page", l, tr>>
    BY <1>1, NamesAre DEF Fl
  <2>2. CASE \E l, tr \in BOOLEAN : j.plan = <<"video", l, tr>>
    <3>1. PICK l, tr \in BOOLEAN : j.plan = <<"video", l, tr>>
      BY <2>2
    <3>2. PlanOf(j) = VideoPlan(l, tr)
      BY <3>1, PlansAre DEF PlanOf
    <3> QED BY <3>2, FillsAre
  <2>3. CASE \E l, tr \in BOOLEAN : j.plan = <<"page", l, tr>>
    <3>1. PICK l, tr \in BOOLEAN : j.plan = <<"page", l, tr>>
      BY <2>3
    <3>2. PlanOf(j) = PagePlan(l, tr)
      BY <3>1, PlansAre DEF PlanOf
    <3> QED BY <3>2, FillsAre
  <2> QED BY <2>1, <2>2, <2>3
<1>4. j.op = "delete" => PageDeletion(PlanOf(j)) \/ VideoDeletion(PlanOf(j))
  BY DeletionIs DEF PlanOf
<1>5. j.op = "delete" => DeleteOrdered(PlanOf(j), j.at)
  BY <1>1, <1>4, DeletionOrder
<1>6. j.op = "mark" => PlanOf(j) = MarkPlan
  BY PlansAre DEF PlanOf, Busy, PlanFits
<1>7. j.op = "search" => PlanOf(j) = SearchPlan
  BY PlansAre DEF PlanOf, Busy, PlanFits
<1>8. j.op = "review" => PlanOf(j) = <<<<"add", {"review"}>>>>
  BY PlansAre DEF PlanOf, Busy, PlanFits
<1>9. j.op = "ingest" /\ ~Fl(j) => j.plan \in {<<"read", "transcript">>, <<"read", "refetch">>}
  BY <1>1, NamesAre DEF Fl, Busy, PlanFits
<1> QED BY <1>1, <1>2, <1>3, <1>4, <1>5, <1>6, <1>7, <1>8, <1>9

(* What a call takes of what is ahead.                                     *)
LEMMA LaterSteps ==
    ASSUME NEW p, Len(p) \in Nat, NEW k \in 1..Len(p)
    PROVE  /\ \A w : Later(p, k + 1, w) => Later(p, k, w)
           /\ \A w : Later(p, k, w) /\ p[k][1] # w => Later(p, k + 1, w)
           /\ \A s : AddsLater(p, k + 1, s) => AddsLater(p, k, s)
           /\ \A s : AddsLater(p, k, s) /\ ~(p[k][1] = "add" /\ s \in p[k][2]) => AddsLater(p, k + 1, s)
           /\ \A s : DropsLater(p, k + 1, s) => DropsLater(p, k, s)
           /\ \A s : DropsLater(p, k, s) /\ ~(p[k][1] = "drop" /\ s \in p[k][2]) => DropsLater(p, k + 1, s)
           /\ PutsLater(p, k + 1) => PutsLater(p, k)
           /\ PutsLater(p, k) /\ p[k] # <<"put", "captured">> => PutsLater(p, k + 1)
           /\ \A s : k = Len(p) /\ AddsLater(p, k, s) => p[k][1] = "add" /\ s \in p[k][2]
           /\ k = Len(p) /\ PutsLater(p, k) => p[k] = <<"put", "captured">>
           /\ \A w : k = Len(p) /\ Later(p, k, w) => p[k][1] = w
BY DEF Later, AddsLater, DropsLater, PutsLater

(* The calls of a mark,                                                    *)
LEMMA MarksPut ==
    /\ Len(MarkPlan) = 3 /\ MarkPlan[1] = <<"put", "captured">> /\ MarkPlan[2] = <<"put", "kept">>
    /\ MarkPlan[3] = <<"advance", "trusted">>
    /\ PutsLater(MarkPlan, 1) /\ ~PutsLater(MarkPlan, 2) /\ ~PutsLater(MarkPlan, 3)
<1>1. /\ Len(MarkPlan) = 3 /\ MarkPlan[1] = <<"put", "captured">> /\ MarkPlan[2] = <<"put", "kept">>
      /\ MarkPlan[3] = <<"advance", "trusted">>
  BY DEF MarkPlan
<1>2. MarkPlan[2] # <<"put", "captured">> /\ MarkPlan[3] # <<"put", "captured">>
  BY <1>1
<1>3. \A m \in 2..3 : m = 2 \/ m = 3
  OBVIOUS
<1> QED BY <1>1, <1>2, <1>3 DEF PutsLater

(* and of a search.                                                        *)
LEMMA SearchOrder ==
    /\ Len(SearchPlan) = 4
    /\ Later(SearchPlan, 1, "retrieve") /\ Later(SearchPlan, 2, "retrieve")
    /\ ~Later(SearchPlan, 3, "retrieve") /\ ~Later(SearchPlan, 4, "retrieve")
<1>1. /\ Len(SearchPlan) = 4 /\ SearchPlan[1][1] = "get" /\ SearchPlan[2][1] = "retrieve"
      /\ SearchPlan[3][1] = "put?" /\ SearchPlan[4][1] = "store"
  BY ShortPlans
<1>2. \A m \in 3..4 : m = 3 \/ m = 4
  OBVIOUS
<1> QED BY <1>1, <1>2 DEF Later

-----------------------------------------------------------------------------
(* What is ahead of a job.                                                 *)

(* A job that goes past its call, or stays at it. *)
Passes(j, k) ==
    \/ k = Idle /\ j.at = Len(PlanOf(j))
    \/ k # Idle /\ k.op = j.op /\ k.item = j.item /\ k.plan = j.plan /\ k.at = j.at + 1

(* One that stays at its call.                                             *)
Stays(j, k) == k # Idle /\ k.op = j.op /\ k.item = j.item /\ k.plan = j.plan /\ k.at = j.at

(* What is ahead of k is what was ahead of j, but for the call c. *)
Ahead(j, k, c) ==
    /\ k # Idle => k.op = j.op /\ k.item = j.item /\ (Fl(k) <=> Fl(j))
    /\ \A s : AddsAhead(k, s) => AddsAhead(j, s)
    /\ \A s : AddsAhead(j, s) => AddsAhead(k, s) \/ (c[1] = "add" /\ s \in c[2])
    /\ \A s : DropAhead(k, s) => DropAhead(j, s)
    /\ \A s : DropAhead(j, s) => DropAhead(k, s) \/ (c[1] = "drop" /\ s \in c[2])
    /\ (BumpAhead(k) => BumpAhead(j)) /\ (BumpAhead(j) => BumpAhead(k) \/ c[1] = "bump")
    /\ (OthersAhead(k) => OthersAhead(j)) /\ (OthersAhead(j) => OthersAhead(k) \/ c[1] = "others")
    /\ (ForgetAhead(k) => ForgetAhead(j)) /\ (ForgetAhead(j) => ForgetAhead(k) \/ c[1] = "forget")
    /\ (RetrieveAhead(k) => RetrieveAhead(j))
    /\ (RetrieveAhead(j) => RetrieveAhead(k) \/ c[1] = "retrieve")
    /\ (PutAhead(k) => PutAhead(j)) /\ (PutAhead(j) => PutAhead(k) \/ c = <<"put", "captured">>)

(* Nothing is ahead of a thread without a job.                             *)
LEMMA IdleAhead ==
    /\ \A s : ~AddsAhead(Idle, s) /\ ~DropAhead(Idle, s)
    /\ ~Fl(Idle) /\ ~BumpAhead(Idle) /\ ~OthersAhead(Idle) /\ ~ForgetAhead(Idle)
    /\ ~RetrieveAhead(Idle) /\ ~PutAhead(Idle)
BY IdleOk DEF AddsAhead, DropAhead, Fl, BumpAhead, OthersAhead, ForgetAhead, RetrieveAhead, PutAhead

(* A job that stays at its call keeps what is ahead;                       *)
LEMMA StaysAhead ==
    ASSUME NEW j, NEW k, Stays(j, k)
    PROVE  \A c : Ahead(j, k, c)
<1>1. PlanOf(k) = PlanOf(j) /\ (Fl(k) <=> Fl(j)) /\ k.op = j.op /\ k.at = j.at
  BY DEF Stays, PlanOf, Fl
<1>2. /\ \A s : (AddsAhead(k, s) <=> AddsAhead(j, s)) /\ (DropAhead(k, s) <=> DropAhead(j, s))
      /\ (BumpAhead(k) <=> BumpAhead(j)) /\ (OthersAhead(k) <=> OthersAhead(j))
      /\ (ForgetAhead(k) <=> ForgetAhead(j)) /\ (RetrieveAhead(k) <=> RetrieveAhead(j))
      /\ (PutAhead(k) <=> PutAhead(j))
  BY <1>1, Zenon DEF AddsAhead, DropAhead, BumpAhead, OthersAhead, ForgetAhead, RetrieveAhead,
                     PutAhead
<1> QED BY <1>1, <1>2 DEF Ahead, Stays

(* one that passes its call loses that call.                               *)
LEMMA PassesAhead ==
    ASSUME NEW j, NEW k, Busy(j), Passes(j, k)
    PROVE  Ahead(j, k, PlanOf(j)[j.at])
<1> DEFINE p == PlanOf(j)
           n == j.at
<1>1. n \in 1..Len(p) /\ n \in Nat /\ Len(p) \in Nat
  BY PlanIs
<1>2. CASE k = Idle /\ n = Len(p)
  <2>1. /\ \A s : AddsLater(p, n, s) => p[n][1] = "add" /\ s \in p[n][2]
        /\ PutsLater(p, n) => p[n] = <<"put", "captured">>
        /\ \A w : Later(p, n, w) => p[n][1] = w
        /\ \A s : DropsLater(p, n, s) => p[n][1] = "drop" /\ s \in p[n][2]
    BY <1>1, <1>2 DEF AddsLater, PutsLater, Later, DropsLater
  <2>2. /\ \A s : AddsAhead(j, s) => p[n][1] = "add" /\ s \in p[n][2]
        /\ \A s : DropAhead(j, s) => p[n][1] = "drop" /\ s \in p[n][2]
        /\ PutAhead(j) => p[n] = <<"put", "captured">>
        /\ BumpAhead(j) => p[n][1] = "bump"
        /\ OthersAhead(j) => p[n][1] = "others"
        /\ ForgetAhead(j) => p[n][1] = "forget"
        /\ RetrieveAhead(j) => p[n][1] = "retrieve"
    BY <2>1 DEF AddsAhead, DropAhead, BumpAhead, OthersAhead, ForgetAhead, RetrieveAhead, PutAhead
  <2> QED BY <1>2, <2>2, IdleAhead DEF Ahead
<1>3. CASE k # Idle /\ k.op = j.op /\ k.item = j.item /\ k.plan = j.plan /\ k.at = n + 1
  <2>1. PlanOf(k) = p /\ (Fl(k) <=> Fl(j))
    BY <1>3 DEF PlanOf, Fl
  <2>2. /\ \A w : Later(p, n + 1, w) => Later(p, n, w)
        /\ \A w : Later(p, n, w) /\ p[n][1] # w => Later(p, n + 1, w)
        /\ \A s : AddsLater(p, n + 1, s) => AddsLater(p, n, s)
        /\ \A s : AddsLater(p, n, s) /\ ~(p[n][1] = "add" /\ s \in p[n][2]) => AddsLater(p, n + 1, s)
        /\ \A s : DropsLater(p, n + 1, s) => DropsLater(p, n, s)
        /\ \A s : DropsLater(p, n, s) /\ ~(p[n][1] = "drop" /\ s \in p[n][2]) => DropsLater(p, n + 1, s)
        /\ PutsLater(p, n + 1) => PutsLater(p, n)
        /\ PutsLater(p, n) /\ p[n] # <<"put", "captured">> => PutsLater(p, n + 1)
    BY <1>1, LaterSteps
  <2> HIDE DEF p, n
  <2>3. /\ \A s : AddsAhead(k, s) <=> Fl(j) /\ AddsLater(p, n + 1, s)
        /\ \A s : DropAhead(k, s) <=> j.op = "delete" /\ DropsLater(p, n + 1, s)
        /\ BumpAhead(k) <=> Fl(j) /\ Later(p, n + 1, "bump")
        /\ OthersAhead(k) <=> j.op = "delete" /\ Later(p, n + 1, "others")
        /\ ForgetAhead(k) <=> j.op = "delete" /\ Later(p, n + 1, "forget")
        /\ RetrieveAhead(k) <=> j.op = "search" /\ Later(p, n + 1, "retrieve")
        /\ PutAhead(k) <=> (Fl(j) \/ j.op = "mark") /\ PutsLater(p, n + 1)
    BY <1>3, <2>1, Zenon DEF AddsAhead, DropAhead, BumpAhead, OthersAhead, ForgetAhead,
                             RetrieveAhead, PutAhead
  <2>4. /\ \A s : AddsAhead(j, s) <=> Fl(j) /\ AddsLater(p, n, s)
        /\ \A s : DropAhead(j, s) <=> j.op = "delete" /\ DropsLater(p, n, s)
        /\ BumpAhead(j) <=> Fl(j) /\ Later(p, n, "bump")
        /\ OthersAhead(j) <=> j.op = "delete" /\ Later(p, n, "others")
        /\ ForgetAhead(j) <=> j.op = "delete" /\ Later(p, n, "forget")
        /\ RetrieveAhead(j) <=> j.op = "search" /\ Later(p, n, "retrieve")
        /\ PutAhead(j) <=> (Fl(j) \/ j.op = "mark") /\ PutsLater(p, n)
    BY Zenon DEF AddsAhead, DropAhead, BumpAhead, OthersAhead, ForgetAhead, RetrieveAhead,
                 PutAhead, p, n
  <2>5. Ahead(j, k, p[n])
    BY <1>3, <2>1, <2>2, <2>3, <2>4 DEF Ahead
  <2> QED BY <2>5 DEF p, n
<1> QED BY <1>2, <1>3 DEF Passes

(* A thread that goes on passes its call, or is on its way to.             *)
LEMMA SteppedPasses ==
    ASSUME NEW j, JobOk(j), j # Idle
    PROVE  /\ j.path = <<>> => Passes(j, Stepped(j))
           /\ Passes(j, Stepped(j)) \/ Stays(j, Stepped(j))
<1>1. Busy(j) /\ j \in JobType /\ j.path \in Seq(Moving)
  BY DEF JobOk, JobType
<1>2. CASE LastCall(j)
  BY <1>2, SteppedIs DEF LastCall, Passes, PlanOf
<1>3. CASE ~LastCall(j) /\ Len(j.path) > 1
  <2>1. j.path # <<>>
    BY <1>3
  <2> QED BY <1>3, <2>1, SteppedIs DEF Stays, Same
<1>4. CASE ~LastCall(j) /\ Len(j.path) <= 1
  BY <1>4, SteppedIs DEF Passes, Same
<1>5. Len(j.path) \in Nat
  BY <1>1
<1> QED BY <1>2, <1>3, <1>4, <1>5

(* The call of its plan a job is at: that of an advance on its path.       *)
At(j) == PlanOf(j)[j.at]

(* Where a thread that is doing something is in its plan,                  *)
LEMMA AtIs ==
    ASSUME TypeInv, NEW t \in Threads, NEW kind, Doing(t, kind)
    PROVE  /\ kind # "to" => At(job[t]) = Call(job[t]) /\ At(job[t])[1] = kind
                             /\ Argument(t) = At(job[t])[2]
           /\ kind = "to" => At(job[t])[1] \in {"advance", "to"}
           /\ job[t].op \in Ops \ {"idle"}
<1>1. /\ job[t] # Idle /\ JobOk(job[t]) /\ Busy(job[t]) /\ Argument(t) = Call(job[t])[2]
      /\ kind # "to" => job[t].path = <<>> /\ Call(job[t]) = Plan[job[t].plan][job[t].at]
      /\ Call(job[t])[1] = kind
  BY DoingIs DEF TypeInv
<1>2. kind # "to" => At(job[t]) = Call(job[t])
  BY <1>1 DEF At, PlanOf
<1>3. job[t].op \in Ops \ {"idle"}
  BY <1>1 DEF JobOk, JobType, Busy
<1>4. CASE job[t].path = <<>>
  BY <1>1, <1>2, <1>3, <1>4 DEF At, PlanOf, Call
<1>5. CASE job[t].path # <<>>
  BY <1>1, <1>2, <1>3, <1>5 DEF Busy, At, PlanOf
<1> QED BY <1>4, <1>5

(* and whose plan it is.                                                   *)
LEMMA WhoDoes ==
    ASSUME TypeInv, NEW t \in Threads, NEW kind, Doing(t, kind)
    PROVE  /\ kind \in {"transcript", "refetch"} => job[t].op = "ingest"
           /\ kind \in {"transcript", "refetch"} => ~Fl(job[t]) /\ job[t].at = 1
           /\ kind \in {"bump", "wipe"} => Fl(job[t]) /\ job[t].op = "ingest"
           /\ kind = "add" => Fl(job[t]) \/ job[t].op = "review"
           /\ kind = "drop" => Fl(job[t]) \/ job[t].op = "delete"
           /\ kind \in {"put", "advance"} => Fl(job[t]) \/ job[t].op = "mark"
           /\ kind = "to" => Fl(job[t]) \/ job[t].op = "mark" \/ job[t].op = "state"
           /\ kind \in {"others", "forget", "invalidate"} => job[t].op = "delete"
           /\ kind \in {"get", "retrieve", "put?", "store"} => job[t].op = "search"
<1> DEFINE j == job[t]
<1>1. kind \in Kinds(j.op) /\ j.op \in Ops \ {"idle"} /\ Busy(j) /\ Call(j)[1] = kind
  BY DoingIs, AtIs DEF TypeInv
<1>2. /\ kind \in {"transcript", "refetch"} => j.op = "ingest"
      /\ kind \in {"bump", "wipe"} => j.op = "ingest"
      /\ kind = "add" => j.op \in {"ingest", "review"}
      /\ kind = "drop" => j.op \in {"ingest", "delete"}
      /\ kind \in {"put", "advance"} => j.op \in {"ingest", "mark"}
      /\ kind = "to" => j.op \in {"ingest", "mark", "state"}
      /\ kind \in {"others", "forget", "invalidate"} => j.op = "delete"
      /\ kind \in {"get", "retrieve", "put?", "store"} => j.op = "search"
  BY <1>1 DEF Kinds, Ops
<1>3. j.op = "ingest" /\ ~Fl(j) => At(j)[1] \in {"transcript", "refetch"} /\ j.at = 1
  <2>1. j.op = "ingest" /\ ~Fl(j) => j.plan \in {<<"read", "transcript">>, <<"read", "refetch">>}
            /\ j.at \in 1..Len(PlanOf(j))
    BY <1>1, PlanIs
  <2>2. /\ Plan[<<"read", "transcript">>] = <<<<"transcript", {}>>>>
        /\ Plan[<<"read", "refetch">>] = <<<<"refetch", {}>>>>
    BY PlansAre
  <2> QED BY <2>1, <2>2 DEF At, PlanOf
<1>4. /\ kind # "to" => At(j)[1] = kind
      /\ kind = "to" => At(j)[1] \in {"advance", "to"}
  BY AtIs
<1>5. Fl(j) => At(j)[1] \in {"drop", "add", "bump", "wipe", "put", "advance"} /\ j.op = "ingest"
  BY <1>1, PlanIs, FillFacts DEF At, Fl
<1> QED BY <1>2, <1>3, <1>4, <1>5

(* A thread at the records has stored the content.                         *)
LEMMA AheadOfRecords ==
    ASSUME TypeInv, NEW t \in Threads, NEW kind \in {"put", "advance", "to"}, Doing(t, kind)
    PROVE  /\ ~BumpAhead(job[t]) /\ \A s \in Content : ~AddsAhead(job[t], s)
           /\ kind # "put" => ~PutAhead(job[t])
           /\ kind = "put" => ~LastCall(job[t])
           /\ Fl(job[t]) => ~LastCall(job[t])
           /\ job[t].op # "delete" /\ job[t].op # "search"
<1> DEFINE j == job[t]
           p == PlanOf(j)
<1>1. Busy(j) /\ (Fl(j) \/ j.op = "mark" \/ j.op = "state") /\ CallFacts(Call(j))
  BY DoingIs, WhoDoes DEF TypeInv
<1>2. /\ kind # "to" => At(j)[1] = kind
      /\ kind = "to" => At(j)[1] \in {"advance", "to"}
  BY AtIs
<1>3. j.at \in 1..Len(p) /\ j.at \in Nat /\ Len(p) \in Nat
  BY <1>1, PlanIs
<1>4. CASE Fl(j)
  <2>1. FillPlan(p) /\ j.op = "ingest"
    BY <1>1, <1>4, PlanIs DEF Fl
  <2>2. At(j)[1] \in {"put", "advance"} /\ (kind # "put" => At(j)[1] = "advance")
    BY <1>2, <1>3, <2>1, FillFacts DEF At
  <2>3. p[j.at][1] \in {"put", "advance"}
    BY <2>2 DEF At
  <2>4. ~Later(p, j.at, "bump") /\ \A s \in Content : ~AddsLater(p, j.at, s)
    BY <1>3, <2>1, <2>3, FillOrder
  <2>5. kind # "put" => ~PutsLater(p, j.at)
    BY <1>3, <2>1, <2>2, FillOrder DEF At
  <2>6. j.at < Len(p)
    BY <1>3, <2>1, <2>3, FillFacts
  <2> QED BY <1>3, <2>1, <2>4, <2>5, <2>6 DEF BumpAhead, AddsAhead, PutAhead, LastCall, PlanOf
<1>5. CASE j.op = "mark"
  <2>1. p = MarkPlan /\ ~Fl(j)
    BY <1>1, <1>5, PlanIs DEF Fl
  <2>2. j.at = 1 \/ j.at = 2 \/ j.at = 3
    BY <1>3, <2>1, MarksPut
  <2>3. kind # "put" => j.at = 3
    BY <1>2, <2>1, <2>2, MarksPut DEF At
  <2>4. kind = "put" => j.at # 3
    BY <1>2, <2>1, <2>2, MarksPut DEF At
  <2> QED BY <1>5, <2>1, <2>2, <2>3, <2>4, MarksPut DEF BumpAhead, AddsAhead, PutAhead, LastCall,
                                                        PlanOf
<1>6. CASE j.op = "state"
  <2>1. ~Fl(j) /\ kind # "put"
    BY <1>6, WhoDoes DEF Fl
  <2> QED BY <1>6, <2>1 DEF BumpAhead, AddsAhead, PutAhead
<1> QED BY <1>1, <1>4, <1>5, <1>6

(* A filling job that has just begun has everything ahead.                 *)
LEMMA FillsPut ==
    ASSUME NEW j, Fl(j), Busy(j), j.at = 1
    PROVE  BumpAhead(j) /\ PutAhead(j) /\ \A s \in Content : AddsAhead(j, s)
<1> DEFINE p == PlanOf(j)
<1>1. FillPlan(p)
  BY PlanIs
<1>2. Len(p) \in Nat /\ Len(p) > 0 /\ \A s \in Content : AddsLater(p, 1, s)
  BY <1>1, FillFacts
<1>3. Later(p, 1, "bump")
  <2>1. 1 \in 1..Len(p) /\ "chunks" \in Content
    BY <1>2 DEF Content
  <2> QED BY <1>1, <1>2, <2>1, FillOrder
<1>4. PutsLater(p, 1)
  <2>1. PICK r \in 6..(Len(p) - 2) : FillPlanAt(p, r)
    BY <1>1 DEF FillPlan
  <2>2. p[r + 1] = <<"put", "captured">> /\ r + 1 \in 1..Len(p)
    BY <1>2, <2>1 DEF FillPlanAt
  <2> QED BY <2>2 DEF PutsLater
<1> QED BY <1>2, <1>3, <1>4 DEF BumpAhead, PutAhead, AddsAhead

(* What a job keeps on its way. *)
Carries(j, k) ==
    /\ k.op = j.op /\ k.item = j.item /\ k.mid = j.mid /\ k.shared = j.shared
    /\ k.alone = j.alone /\ k.missed = j.missed /\ k.late = j.late
    /\ k.began = j.began /\ k.ans = j.ans

(* One that no other rewrite overlapped and that missed nothing.           *)
Lone(j) == j.alone = TRUE /\ j.missed = {}

(* No call: nothing is taken of what was ahead.                            *)
NoCall == <<"none", {}>>

(* A call on no row, record or version leaves all that was ahead.          *)
LEMMA NothingDone ==
    ASSUME NEW j, NEW k, NEW c, Ahead(j, k, c),
           c[1] \in {"wipe", "advance", "to", "get", "put?"} \/ (c[1] = "put" /\ c[2] # "captured")
    PROVE  Ahead(j, k, NoCall)
<1>1. /\ c[1] \notin {"add", "drop", "bump", "others", "forget", "retrieve"}
      /\ c # <<"put", "captured">>
  OBVIOUS
<1> QED BY <1>1, Zenon DEF Ahead

(* What is ahead of a thread that goes on, and what it keeps.              *)
LEMMA StepAhead ==
    ASSUME TypeInv, NEW t \in Threads, NEW kind, Doing(t, kind)
    PROVE  /\ Ahead(job[t], Stepped(job[t]), At(job[t]))
           /\ LastCall(job[t]) => Stepped(job[t]) = Idle
           /\ ~LastCall(job[t]) => Stepped(job[t]) # Idle /\ Carries(job[t], Stepped(job[t]))
           /\ kind # "to" => Passes(job[t], Stepped(job[t]))
           /\ job[t] # Idle /\ JobOk(job[t]) /\ JobOk(Stepped(job[t])) /\ Of(t) \in Items
           /\ Busy(job[t])
<1>1. /\ job[t] # Idle /\ JobOk(job[t]) /\ Of(t) \in Items /\ Busy(job[t])
      /\ kind # "to" => job[t].path = <<>>
  BY DoingIs DEF TypeInv
<1>2. /\ job[t].path = <<>> => Passes(job[t], Stepped(job[t]))
      /\ Passes(job[t], Stepped(job[t])) \/ Stays(job[t], Stepped(job[t]))
  BY <1>1, SteppedPasses
<1>3. Ahead(job[t], Stepped(job[t]), At(job[t]))
  BY <1>1, <1>2, PassesAhead, StaysAhead DEF At
<1> QED BY <1>1, <1>2, <1>3, SteppedIs DEF Same, Carries

(* A field that is set does not change what is ahead.                      *)
LEMMA FieldPasses ==
    ASSUME NEW j, NEW m, JobOk(m), m # Idle, Passes(j, m)
    PROVE  /\ \A v \in Nat : Passes(j, [m EXCEPT !.mid = v]) /\ [m EXCEPT !.mid = v] # Idle
           /\ \A v \in Nat : Passes(j, [m EXCEPT !.ver = v]) /\ [m EXCEPT !.ver = v] # Idle
           /\ \A v \in SUBSET Items : Passes(j, [m EXCEPT !.ans = v]) /\ [m EXCEPT !.ans = v] # Idle
           /\ \A v \in BOOLEAN : Passes(j, [m EXCEPT !.shared = v]) /\ [m EXCEPT !.shared = v] # Idle
           /\ \A v \in SUBSET Stores :
                 Passes(j, [m EXCEPT !.missed = v]) /\ [m EXCEPT !.missed = v] # Idle
<1>1. m \in JobType
  BY DEF JobOk
<1>2. /\ \A v \in Nat : [m EXCEPT !.mid = v] # Idle
      /\ \A v \in Nat : [m EXCEPT !.ver = v] # Idle
      /\ \A v \in SUBSET Items : [m EXCEPT !.ans = v] # Idle
      /\ \A v \in BOOLEAN : [m EXCEPT !.shared = v] # Idle
      /\ \A v \in SUBSET Stores : [m EXCEPT !.missed = v] # Idle
  BY FieldsSet
<1> QED BY <1>1, <1>2 DEF Passes, JobType

-----------------------------------------------------------------------------
(* The outcome of the work of a thread.                                    *)

(* The ids of the records, and where a thread knows one.                   *)
RecordIds == \A i \in Items : record[i].id = 0 => record[i] = Absent
KnowsId(j) == j.op = "state" \/ ((Fl(j) \/ j.op = "mark") /\ ~PutAhead(j))
IdsInv == RecordIds /\ \A t \in Threads : KnowsId(job[t]) => job[t].mid # 0

(* What the steps of a busy thread come to.                                *)
OnlyIts(t) == \A x \in Threads \ {t} : job'[x] = job[x]

(* The ids, and the rows with the mix-ups, that a step leaves.             *)
IdsSame ==
    \A i \in Items : record'[i].id = record[i].id /\ (record[i].id = 0 => record'[i] = record[i])
RowsSame == rows' = rows /\ muddled' = muddled
Emptied == [u \in Users |-> NoAnswer]

(* A thread that goes on past the call c,                                  *)
On(t, c) == job'[t] # Idle /\ Carries(job[t], job'[t]) /\ Ahead(job[t], job'[t], c)

(* with nothing done,                                                      *)
Continues(t) ==
    /\ On(t, NoCall) /\ RowsSame /\ IdsSame /\ version' = version
    /\ cache' = cache \/ cache' = Emptied

(* one that gives up,                                                      *)
GivesUp(t) ==
    /\ job'[t] = Idle /\ rows' = rows /\ IdsSame /\ version' = version /\ cache' = cache
    /\ \/ muddled' = muddled \cup Touching(Of(t))
       \/ /\ muddled' = muddled /\ job[t].op # "delete"
          /\ ~BumpAhead(job[t]) /\ \A s \in Content : ~AddsAhead(job[t], s)
          /\ Fl(job[t]) /\ PutAhead(job[t]) => record[Of(t)].id # 0

(* adds or leaves out rows of its own,                                     *)
AddsOn(t) ==
    LET c == At(job[t]) IN
    /\ c[1] = "add"
    /\ \/ Fl(job[t]) /\ "review" \notin c[2] /\ ("registry" \in c[2] => ~BumpAhead(job[t]))
       \/ job[t].op = "review" /\ c[2] = {"review"}
    /\ "yt" \notin c[2]
    /\ job'[t] = Idle \/ Carries(job[t], job'[t])
    /\ Ahead(job[t], job'[t], c)
    /\ rows \subseteq rows' /\ rows' \subseteq rows \cup {Row(s, Of(t)) : s \in c[2]}
    /\ \A s \in Content : s \in c[2] => Row(s, Of(t)) \in rows'
    /\ muddled' \subseteq muddled
    /\ \A x \in muddled \ muddled' : /\ x = Of(t) /\ Fl(job[t]) /\ Lone(job[t])
                                     /\ job'[t] = Idle
    /\ IdsSame /\ record' = record /\ version' = version /\ cache' = cache

(* drops them, or fails to and is swallowed,                               *)
DropsOn(t) ==
    LET c == At(job[t])
        j == job[t]
        k == job'[t] IN
    /\ c[1] = "drop" /\ k # Idle /\ Ahead(j, k, c)
    /\ Fl(j) \/ j.op = "delete"
    /\ Fl(j) => \A s \in c[2] : AddsAhead(k, s)
    /\ "hash" \notin c[2]
    /\ j.op = "delete" /\ c[2] \cap {"fts", "capsule"} # {} => ~OthersAhead(j)
    /\ \/ /\ Carries(j, k) /\ muddled' = muddled
          /\ rows' = rows \ {Row(s, Of(t)) : s \in {x \in c[2] : ~Kept(t, x)}}
       \/ /\ j.op = "delete" /\ \E m : m # {} /\ Carries([j EXCEPT !.missed = m], k)
          /\ rows' = rows /\ muddled' = muddled \cup Touching(Of(t))
    /\ record' = record /\ version' = version /\ cache' = cache

(* raises the version,                                                     *)
BumpsOn(t) ==
    /\ At(job[t])[1] = "bump" /\ On(t, At(job[t]))
    /\ RowsSame /\ record' = record
    /\ sqlite \/ version' = version + 1
    /\ cache' = cache \/ cache' = Emptied

(* puts the record,                                                        *)
PutsOn(t) ==
    LET j == job[t]
        k == job'[t] IN
    /\ At(j)[1] = "put" /\ (Fl(j) \/ j.op = "mark")
    /\ k # Idle /\ Carries([j EXCEPT !.mid = k.mid], k) /\ Ahead(j, k, At(j))
    /\ k.mid = record'[Of(t)].id /\ k.mid # 0
    /\ record[Of(t)].id \in {0, k.mid}
    /\ \A i \in Items \ {Of(t)} : record'[i] = record[i]
    /\ RowsSame /\ version' = version /\ cache' = cache

(* learns that an item's transcript is known, or turns a read into a plan, *)
TurnsTo(t) ==
    LET j == job[t]
        k == job'[t] IN
    /\ ~Fl(j) /\ j.op = "ingest" /\ k # Idle
    /\ k.item = j.item /\ k.alone = j.alone /\ k.missed = j.missed /\ k.mid = j.mid /\ PutAhead(k)
    /\ \/ k.op = "mark" /\ Has("hash", Of(t))
       \/ Fl(k) /\ BumpAhead(k) /\ \A s \in Content : AddsAhead(k, s)
    /\ RowsSame /\ record' = record /\ version' = version /\ cache' = cache

SharedBy(i) ==
    \E j \in Items : /\ Source[j] = Source[i] /\ Owner[j] # Owner[i]
                     /\ Has("registry", j) \/ record[j] # Absent

(* looks for another copy of the source,                                   *)
LooksOn(t) ==
    LET j == job[t]
        k == job'[t] IN
    /\ j.op = "delete" /\ OthersAhead(j) /\ ~OthersAhead(k)
    /\ k # Idle /\ Carries([j EXCEPT !.shared = SharedBy(Of(t))], k) /\ Ahead(j, k, At(j))
    /\ At(j)[1] = "others"
    /\ RowsSame /\ record' = record /\ version' = version /\ cache' = cache

(* removes the record,                                                     *)
ForgetsOn(t) ==
    LET j == job[t]
        k == job'[t] IN
    /\ j.op = "delete" /\ At(j)[1] = "forget"
    /\ ~OthersAhead(j) /\ ForgetAhead(j) /\ \A s : ~DropAhead(j, s)
    /\ \/ /\ On(t, At(j)) /\ ~ForgetAhead(k)
          /\ record' = [record EXCEPT ![Of(t)] = Absent]
       \/ record[Of(t)].id # j.mid /\ k = Idle /\ record' = record
    /\ RowsSame /\ version' = version /\ cache' = cache

(* takes away the answers and tells the searches,                          *)
InvalidatesOn(t) ==
    LET j == job[t] IN
    /\ j.op = "delete" /\ job'[t] = Idle
    /\ ~OthersAhead(j) /\ ~ForgetAhead(j) /\ \A s : ~DropAhead(j, s)
    /\ rows' = rows /\ record' = record /\ version' = version
    /\ cache' = [cache EXCEPT ![Owner[Of(t)]] = NoAnswer]
    /\ muddled' \subseteq muddled
    /\ \A x \in muddled \ muddled' : x = Of(t) /\ Lone(j)
    /\ \A x \in Threads \ {t} :
          \/ job'[x] = job[x] /\ ~(job[x].op = "search" /\ Asker(x) = Owner[Of(t)])
          \/ job'[x] = [job[x] EXCEPT !.late = TRUE]

(* retrieves, or                                                           *)
RetrievesOn(t) ==
    LET j == job[t]
        k == job'[t] IN
    /\ j.op = "search" /\ RetrieveAhead(j)
    /\ k # Idle /\ Carries([j EXCEPT !.ans = Answers(t)], k) /\ Ahead(j, k, At(j))
    /\ At(j)[1] = "retrieve"
    /\ RowsSame /\ record' = record /\ version' = version /\ cache' = cache

(* stores what it retrieved.                                               *)
StoresOn(t) ==
    LET j == job[t] IN
    /\ j.op = "search" /\ ~RetrieveAhead(j) /\ job'[t] = Idle
    /\ cache' = [cache EXCEPT ![Asker(t)] =
                   [ver |-> j.ver, began |-> j.began, ans |-> j.ans, late |-> j.late]]
    /\ RowsSame /\ record' = record /\ version' = version

(* What the work of a thread comes to.                                     *)
Outcome(t) ==
    \/ /\ OnlyIts(t)
       /\ \/ Continues(t) \/ GivesUp(t) \/ AddsOn(t) \/ DropsOn(t) \/ BumpsOn(t) \/ PutsOn(t)
          \/ TurnsTo(t) \/ LooksOn(t) \/ ForgetsOn(t) \/ RetrievesOn(t) \/ StoresOn(t)
    \/ InvalidatesOn(t)

(* A step that writes one job leaves the others.                           *)
LEMMA OnlyJob ==
    ASSUME TypeInv, NEW t \in Threads, NEW k, job' = [job EXCEPT ![t] = k]
    PROVE  job'[t] = k /\ OnlyIts(t)
BY DEF TypeInv, JobsOk, OnlyIts

(* No record written, no id changed.                                       *)
LEMMA SameIds == record' = record => IdsSame
BY DEF IdsSame

(* A step that only goes on,                                               *)
LEMMA Continuing ==
    ASSUME TypeInv, NEW t \in Threads, NEW kind \in {"wipe", "get", "advance", "to"},
           Doing(t, kind),
           ~LastCall(job[t]), Advances(t), RowsSame, IdsSame, version' = version,
           cache' = cache \/ cache' = Emptied
    PROVE  Outcome(t)
<1>1. job'[t] = Stepped(job[t]) /\ OnlyIts(t)
  BY OnlyJob DEF Advances
<1>2. /\ Ahead(job[t], Stepped(job[t]), At(job[t]))
      /\ Stepped(job[t]) # Idle /\ Carries(job[t], Stepped(job[t]))
  BY StepAhead
<1>3. At(job[t])[1] \in {"wipe", "advance", "to", "get", "put?"}
  BY AtIs
<1>4. Ahead(job[t], Stepped(job[t]), NoCall)
  BY <1>2, <1>3, NothingDone
<1>5. Continues(t)
  BY <1>1, <1>2, <1>4 DEF Continues, On
<1> QED BY <1>1, <1>5 DEF Outcome

(* or only sets a field,                                                   *)
LEMMA FieldContinues ==
    ASSUME TypeInv, NEW t \in Threads, NEW k, job' = [job EXCEPT ![t] = k], k # Idle,
           k.at = job[t].at, k.plan = job[t].plan, Carries(job[t], k),
           RowsSame, IdsSame, version' = version, cache' = cache
    PROVE  Outcome(t)
<1>1. job'[t] = k /\ OnlyIts(t)
  BY OnlyJob
<1>2. Stays(job[t], k)
  BY DEF Stays, Carries
<1>3. Ahead(job[t], k, NoCall)
  BY <1>2, StaysAhead
<1>4. Continues(t)
  BY <1>1, <1>3 DEF Continues, On
<1> QED BY <1>1, <1>4 DEF Outcome

(* or ends at the records,                                                 *)
LEMMA RecordsEnd ==
    ASSUME TypeInv, NEW t \in Threads, NEW kind \in {"put", "advance", "to"}, Doing(t, kind),
           job'[t] = Idle, OnlyIts(t), RowsSame, IdsSame, version' = version, cache' = cache,
           kind = "put" => record[Of(t)].id # 0
    PROVE  Outcome(t)
<1>1. /\ ~BumpAhead(job[t]) /\ \A s \in Content : ~AddsAhead(job[t], s)
      /\ kind # "put" => ~PutAhead(job[t])
      /\ job[t].op # "delete" /\ job[t].op # "search"
  BY AheadOfRecords
<1>2. GivesUp(t)
  BY <1>1 DEF GivesUp, RowsSame
<1> QED BY <1>2 DEF Outcome

(* or puts a record,                                                       *)
LEMMA PutWritesOutcome ==
    ASSUME TypeInv, NEW t \in Threads, PutWrites(t), UNCHANGED storeVars
    PROVE  Outcome(t)
<1> DEFINE j == job[t]
           id == IF j.seen.id = 0 THEN nextId ELSE j.seen.id
           k == [Stepped(j) EXCEPT !.mid = id]
           r == [id |-> id, state |-> PutState(j)]
<1>1. Doing(t, "put") /\ record[Of(t)].id \in {0, j.seen.id}
  BY DEF PutWrites
<1>2. /\ j # Idle /\ JobOk(j) /\ Of(t) \in Items /\ Busy(j) /\ JobOk(Stepped(j))
      /\ Passes(j, Stepped(j)) /\ At(j)[1] = "put" /\ (Fl(j) \/ j.op = "mark")
      /\ ~LastCall(j) /\ Stepped(j) # Idle /\ Carries(j, Stepped(j))
  BY <1>1, StepAhead, AtIs, WhoDoes, AheadOfRecords
<1>3. id \in Nat /\ id # 0 /\ record[Of(t)].id \in {0, id}
  BY <1>1, <1>2 DEF TypeInv, JobOk, JobType, RecordType
<1>4. job' = [job EXCEPT ![t] = k] /\ record' = [record EXCEPT ![Of(t)] = r]
  BY <1>2 DEF PutWrites
<1>5. r.id = id
  OBVIOUS
<1> HIDE DEF id, r
<1>6. Passes(j, k) /\ k # Idle /\ k.mid = id
  <2>1. Passes(j, k) /\ k # Idle
    BY <1>2, <1>3, FieldPasses
  <2> QED BY <1>2, <2>1 DEF JobOk, JobType
<1>7. Carries([j EXCEPT !.mid = k.mid], k)
  BY <1>2 DEF Carries, JobOk, JobType
<1> HIDE DEF k
<1>8. job'[t] = k /\ OnlyIts(t)
  BY <1>4, OnlyJob
<1>9. Ahead(j, k, At(j))
  BY <1>2, <1>6, PassesAhead DEF At
<1>10. record'[Of(t)] = r /\ \A i \in Items \ {Of(t)} : record'[i] = record[i]
  BY <1>2, <1>4 DEF TypeInv
<1>11. PutsOn(t)
  BY <1>2, <1>3, <1>5, <1>6, <1>7, <1>8, <1>9, <1>10 DEF PutsOn, RowsSame, storeVars
<1> QED BY <1>8, <1>11 DEF Outcome

(* or writes its state:                                                    *)
LEMMA TransitionWritesOutcome ==
    ASSUME TypeInv, IdsInv, NEW t \in Threads, TransitionWrites(t), UNCHANGED storeVars
    PROVE  Outcome(t)
<1>1. /\ Doing(t, "to") /\ record[Of(t)].id = job[t].mid /\ Advances(t)
      /\ record' = [record EXCEPT ![Of(t)].state = Argument(t)]
  BY DEF TransitionWrites
<1>2. Of(t) \in Items /\ KnowsId(job[t])
  <2>1. ~PutAhead(job[t]) /\ (Fl(job[t]) \/ job[t].op = "mark" \/ job[t].op = "state")
    BY <1>1, AheadOfRecords, WhoDoes
  <2> QED BY <1>1, <2>1, StepAhead DEF KnowsId
<1>3. record[Of(t)].id # 0
  BY <1>1, <1>2 DEF IdsInv
<1>4. IdsSame
  BY <1>1, <1>2, <1>3 DEF IdsSame, TypeInv, RecordType
<1>5. RowsSame /\ version' = version /\ cache' = cache
  BY DEF RowsSame, storeVars
<1>6. CASE LastCall(job[t])
  <2>1. job'[t] = Idle /\ OnlyIts(t)
    BY <1>1, <1>6, StepAhead, OnlyJob DEF Advances
  <2> QED BY <1>1, <1>4, <1>5, <2>1, RecordsEnd
<1>7. CASE ~LastCall(job[t])
  BY <1>1, <1>4, <1>5, <1>7, Continuing
<1> QED BY <1>6, <1>7

(* each step of the records has an outcome.                                *)
LEMMA RecordOutcome ==
    ASSUME TypeInv, IdsInv, NEW t \in Threads, RecordStep(t), UNCHANGED storeVars
    PROVE  Outcome(t)
<1> DEFINE j == job[t]
<1>1. RowsSame /\ version' = version /\ cache' = cache
  BY DEF RowsSame, storeVars
<1>2. CASE PutReads(t)
  <2> DEFINE k == [[j EXCEPT !.read = TRUE] EXCEPT !.seen = record[Of(t)]]
  <2>1. j # Idle /\ JobOk(j) /\ Of(t) \in Items
    BY <1>2, StepAhead DEF PutReads
  <2>2. job' = [job EXCEPT ![t] = k] /\ IdsSame
    BY <1>2, SameIds DEF PutReads, TypeInv, JobsOk
  <2>3. k # Idle
    <3>1. /\ JobOk([j EXCEPT !.read = TRUE]) /\ [j EXCEPT !.read = TRUE] # Idle
          /\ record[Of(t)] \in RecordType
      BY <2>1, FieldsSet DEF TypeInv
    <3> QED BY <3>1, FieldsSet
  <2>4. k.at = j.at /\ k.plan = j.plan /\ Carries(j, k)
    BY <2>1 DEF Carries, JobOk, JobType
  <2> HIDE DEF k
  <2> QED BY <1>1, <2>2, <2>3, <2>4, FieldContinues
<1>3. CASE PutConflicts(t)
  <2>1. /\ Doing(t, "put") /\ record[Of(t)].id # 0 /\ job' = [job EXCEPT ![t] = Idle]
        /\ record' = record
    BY <1>3 DEF PutConflicts, Raises
  <2>2. job'[t] = Idle /\ OnlyIts(t) /\ IdsSame
    BY <2>1, OnlyJob, SameIds
  <2> QED BY <1>1, <2>1, <2>2, RecordsEnd
<1>4. CASE AdvanceReads(t)
  <2> DEFINE path == Transitions(record[Of(t)].state, Argument(t))
             k == [j EXCEPT !.path = path]
  <2>1. Doing(t, "advance") /\ record' = record /\ IdsSame
    BY <1>4, SameIds DEF AdvanceReads
  <2>2. j # Idle /\ JobOk(j)
    BY <2>1, StepAhead
  <2>3. CASE path = <<>>
    <3>1. Advances(t)
      BY <1>4, <2>3 DEF AdvanceReads, Advances
    <3>2. CASE LastCall(j)
      <4>1. job'[t] = Idle /\ OnlyIts(t)
        BY <2>1, <3>1, <3>2, StepAhead, OnlyJob DEF Advances
      <4> QED BY <1>1, <2>1, <4>1, RecordsEnd
    <3>3. CASE ~LastCall(j)
      BY <1>1, <2>1, <3>1, <3>3, Continuing
    <3> QED BY <3>2, <3>3
  <2>4. CASE path # <<>>
    <3>1. job' = [job EXCEPT ![t] = k]
      BY <1>4, <2>4 DEF AdvanceReads, TypeInv, JobsOk
    <3>2. k.at = j.at /\ k.plan = j.plan /\ Carries(j, k) /\ k.op = j.op
      BY <2>2 DEF Carries, JobOk, JobType
    <3>3. k # Idle
      BY <2>2, <3>2, IdleOk DEF JobOk, Busy
    <3> HIDE DEF k
    <3> QED BY <1>1, <2>1, <3>1, <3>2, <3>3, FieldContinues
  <2> QED BY <2>3, <2>4
<1>5. CASE Missing(t)
  <2>1. PICK kind \in {"advance", "to"} : Doing(t, kind)
    BY <1>5 DEF Missing
  <2>2. job' = [job EXCEPT ![t] = Idle] /\ record' = record
    BY <1>5 DEF Missing, Raises
  <2>3. job'[t] = Idle /\ OnlyIts(t) /\ IdsSame
    BY <2>2, OnlyJob, SameIds
  <2> QED BY <1>1, <2>1, <2>3, RecordsEnd
<1>6. CASE TransitionReads(t)
  <2>1. Doing(t, "to") /\ record' = record /\ IdsSame
    BY <1>6, SameIds DEF TransitionReads
  <2>2. j # Idle /\ JobOk(j)
    BY <2>1, StepAhead
  <2>3. \/ Raises(t) \/ Advances(t)
        \/ job' = [job EXCEPT ![t] = [j EXCEPT !.read = TRUE]]
    BY <1>6 DEF TransitionReads, TypeInv, JobsOk
  <2>4. CASE Raises(t) \/ (Advances(t) /\ LastCall(j))
    <3>1. job' = [job EXCEPT ![t] = Idle]
      BY <2>1, <2>4, StepAhead DEF Raises, Advances
    <3>2. job'[t] = Idle /\ OnlyIts(t)
      BY <3>1, OnlyJob
    <3> QED BY <1>1, <2>1, <3>2, RecordsEnd
  <2>5. CASE Advances(t) /\ ~LastCall(j)
    BY <1>1, <2>1, <2>5, Continuing
  <2>6. CASE job' = [job EXCEPT ![t] = [j EXCEPT !.read = TRUE]]
    <3> DEFINE k == [j EXCEPT !.read = TRUE]
    <3>1. k # Idle /\ k.at = j.at /\ k.plan = j.plan /\ Carries(j, k)
      <4>1. k # Idle
        BY <2>2, FieldsSet
      <4> QED BY <2>2, <4>1 DEF Carries, JobOk, JobType
    <3>2. job' = [job EXCEPT ![t] = k]
      BY <2>6
    <3> HIDE DEF k
    <3> QED BY <1>1, <2>1, <3>1, <3>2, FieldContinues
  <2> QED BY <2>3, <2>4, <2>5, <2>6
<1> QED BY <1>2, <1>3, <1>4, <1>5, <1>6, PutWritesOutcome, TransitionWritesOutcome DEF RecordStep

(* What an end settles is the item of an ingest or a deletion that was     *)
(* alone to its end and missed nothing.                                    *)
LEMMA OrderedIs ==
    ASSUME NEW t, NEW x, x \in Ordered(t)
    PROVE  x = Of(t) /\ Lone(job[t]) /\ LastCall(job[t]) /\ job[t].op \in {"ingest", "delete"}
BY DEF Ordered, Lone

(* An addition has an outcome;                                             *)
LEMMA AddsOutcome ==
    ASSUME TypeInv, NEW t \in Threads, Adds(t) \/ AddsNothing(t)
    PROVE  Outcome(t)
<1> DEFINE j == job[t]
           c == At(j)
           p == PlanOf(j)
<1>1. /\ Doing(t, "add") /\ Advances(t) /\ record' = record /\ version' = version /\ cache' = cache
      /\ muddled' = muddled \ Ordered(t)
  BY DEF Adds, AddsNothing
<1>2. /\ Ahead(j, Stepped(j), c) /\ (LastCall(j) => Stepped(j) = Idle)
      /\ ~LastCall(j) => Stepped(j) # Idle /\ Carries(j, Stepped(j))
      /\ c[1] = "add" /\ Argument(t) = c[2] /\ Busy(j) /\ (Fl(j) \/ j.op = "review")
  BY <1>1, StepAhead, AtIs, WhoDoes
<1>3. job'[t] = Stepped(j) /\ OnlyIts(t)
  BY <1>1, OnlyJob DEF Advances
<1>4. /\ \/ Fl(j) /\ "review" \notin c[2] /\ ("registry" \in c[2] => ~BumpAhead(j))
         \/ j.op = "review" /\ c[2] = {"review"}
      /\ "yt" \notin c[2]
  <2>1. j.at \in 1..Len(p) /\ c = p[j.at]
    BY <1>2, PlanIs DEF At
  <2>2. CASE Fl(j)
    <3>1. FillPlan(p)
      BY <1>2, <2>2, PlanIs
    <3>2. c[2] \subseteq Stores \ {"yt", "review"}
      BY <1>2, <2>1, <3>1, FillFacts
    <3>3. "registry" \in c[2] => ~Later(p, j.at, "bump")
      BY <1>2, <2>1, <3>1, FillOrder
    <3> QED BY <2>2, <3>2, <3>3 DEF BumpAhead
  <2>3. CASE j.op = "review"
    <3>1. p = <<<<"add", {"review"}>>>>
      BY <1>2, <2>3, PlanIs
    <3>2. j.at = 1
      BY <2>1, <3>1
    <3> QED BY <2>1, <2>3, <3>1, <3>2
  <2> QED BY <1>2, <2>2, <2>3
<1>5. \A x \in muddled \ muddled' : x = Of(t) /\ Fl(j) /\ Lone(j) /\ job'[t] = Idle
  <2> TAKE x \in muddled \ muddled'
  <2>1. x \in Ordered(t)
    BY <1>1
  <2>2. x = Of(t) /\ Lone(j) /\ LastCall(j) /\ j.op \in {"ingest", "delete"}
    BY <2>1, OrderedIs
  <2> QED BY <1>2, <1>3, <2>2
<1>6. /\ rows \subseteq rows' /\ rows' \subseteq rows \cup {Row(s, Of(t)) : s \in c[2]}
      /\ \A s \in Content : s \in c[2] => Row(s, Of(t)) \in rows'
  <2>1. CASE Adds(t)
    BY <1>2, <2>1 DEF Adds
  <2>2. CASE AddsNothing(t)
    <3>1. rows' = rows /\ (c[2] = {"topics"} \/ c[2] = {"url"})
      BY <1>2, <2>2 DEF AddsNothing
    <3> QED BY <3>1 DEF Content
  <2> QED BY <2>1, <2>2
<1>7. IdsSame /\ muddled' \subseteq muddled
  BY <1>1, SameIds
<1>8. job'[t] = Idle \/ Carries(j, job'[t])
  BY <1>2, <1>3
<1> HIDE DEF c
<1>9. AddsOn(t)
  BY <1>1, <1>2, <1>3, <1>4, <1>5, <1>6, <1>7, <1>8 DEF AddsOn, c
<1> QED BY <1>3, <1>9 DEF Outcome

(* a drop is followed by more of the same plan,                            *)
LEMMA DropOrder ==
    ASSUME NEW j, Busy(j), Fl(j) \/ j.op = "delete", At(j)[1] = "drop"
    PROVE  /\ j.at < Len(PlanOf(j)) /\ "hash" \notin At(j)[2]
           /\ Fl(j) => \A s \in At(j)[2] : AddsLater(PlanOf(j), j.at + 1, s)
           /\ j.op = "delete" /\ At(j)[2] \cap {"fts", "capsule"} # {} => ~OthersAhead(j)
<1> DEFINE p == PlanOf(j)
<1>1. j.at \in 1..Len(p) /\ p[j.at][1] = "drop" /\ At(j) = p[j.at] /\ Len(p) \in Nat
  BY PlanIs DEF At
<1>2. CASE Fl(j)
  <2>1. FillPlan(p) /\ j.op # "delete"
    BY <1>2, PlanIs DEF Fl
  <2>2. j.at < Len(p) /\ \A s \in p[j.at][2] : AddsLater(p, j.at + 1, s)
    BY <1>1, <2>1, FillFacts
  <2>3. PICK r \in 6..(Len(p) - 2) : FillPlanAt(p, r)
    BY <2>1 DEF FillPlan
  <2>4. p[j.at][2] = {"vectors", "fts"} \/ p[j.at][2] = {"chunks"}
    BY <1>1, <2>3, FillAdds
  <2> QED BY <1>1, <2>1, <2>2, <2>4
<1>3. CASE j.op = "delete"
  <2>1. DeleteOrdered(p, j.at) /\ ~Fl(j)
    BY <1>3, PlanIs DEF Fl
  <2> QED BY <1>1, <2>1 DEF DeleteOrdered, OthersAhead
<1> QED BY <1>2, <1>3

(* which tells what is ahead after it,                                     *)
LEMMA DropPasses ==
    ASSUME TypeInv, NEW t \in Threads, Doing(t, "drop"), NEW k, k # Idle, Passes(job[t], k)
    PROVE  LET j == job[t]
               c == At(j) IN
           /\ c[1] = "drop" /\ Ahead(j, k, c)
           /\ Fl(j) \/ j.op = "delete"
           /\ Fl(j) => \A s \in c[2] : AddsAhead(k, s)
           /\ "hash" \notin c[2]
           /\ j.op = "delete" /\ c[2] \cap {"fts", "capsule"} # {} => ~OthersAhead(j)
           /\ Argument(t) = c[2] /\ ~LastCall(j)
<1> DEFINE j == job[t]
           c == At(j)
<1>1. c[1] = "drop" /\ Argument(t) = c[2] /\ Busy(j) /\ (Fl(j) \/ j.op = "delete")
  BY AtIs, WhoDoes, StepAhead
<1>2. Ahead(j, k, c)
  BY <1>1, PassesAhead DEF At
<1>3. /\ j.at < Len(PlanOf(j)) /\ "hash" \notin c[2]
      /\ Fl(j) => \A s \in c[2] : AddsLater(PlanOf(j), j.at + 1, s)
      /\ j.op = "delete" /\ c[2] \cap {"fts", "capsule"} # {} => ~OthersAhead(j)
  BY <1>1, DropOrder
<1>4. PlanOf(k) = PlanOf(j) /\ (Fl(k) <=> Fl(j)) /\ k.at = j.at + 1
  BY DEF Passes, PlanOf, Fl
<1>5. Fl(j) => \A s \in c[2] : AddsAhead(k, s)
  BY <1>3, <1>4 DEF AddsAhead
<1>6. ~LastCall(j)
  BY <1>1, <1>3, PlanIs DEF LastCall, PlanOf
<1> QED BY <1>1, <1>2, <1>3, <1>5, <1>6

(* so a drop has an outcome,                                               *)
LEMMA DropsOutcome ==
    ASSUME TypeInv, NEW t \in Threads, Drops(t)
    PROVE  Outcome(t)
<1> DEFINE j == job[t]
           k == Stepped(j)
<1>1. /\ Doing(t, "drop") /\ record' = record /\ version' = version /\ cache' = cache
      /\ muddled' = muddled
      /\ rows' = rows \ {Row(s, Of(t)) : s \in {x \in Argument(t) : ~Kept(t, x)}} /\ Advances(t)
  BY DEF Drops
<1>2. /\ Passes(j, k) /\ (LastCall(j) => k = Idle) /\ (~LastCall(j) => k # Idle /\ Carries(j, k))
      /\ Busy(j)
  BY <1>1, StepAhead
<1>3. ~LastCall(j)
  <2>1. At(j)[1] = "drop" /\ (Fl(j) \/ j.op = "delete")
    BY <1>1, AtIs, WhoDoes
  <2>2. j.at < Len(PlanOf(j))
    BY <1>2, <2>1, DropOrder
  <2> QED BY <1>2, <2>2, PlanIs DEF LastCall, PlanOf
<1>4. job'[t] = k /\ OnlyIts(t)
  BY <1>1, OnlyJob DEF Advances
<1> HIDE DEF k
<1>5. k # Idle /\ Carries(j, k)
  BY <1>2, <1>3
<1>6. DropsOn(t)
  BY <1>1, <1>2, <1>4, <1>5, DropPasses DEF DropsOn
<1> QED BY <1>4, <1>6 DEF Outcome

(* one that fails and is swallowed too,                                    *)
LEMMA DropSwallowedOutcome ==
    ASSUME TypeInv, NEW t \in Threads, DropSwallowed(t)
    PROVE  Outcome(t)
<1> DEFINE j == job[t]
           m == Misses(t)
           k == [Stepped(j) EXCEPT !.missed = m]
<1>1. /\ Doing(t, "drop") /\ record' = record /\ version' = version /\ cache' = cache
      /\ rows' = rows
      /\ muddled' = muddled \cup Touching(Of(t)) /\ j.op = "delete"
      /\ job' = [job EXCEPT ![t] = k] /\ m \in SUBSET Stores /\ m # {}
  BY MissesMore DEF DropSwallowed, TypeInv
<1> HIDE DEF m
<1>2. /\ Passes(j, Stepped(j)) /\ (~LastCall(j) => Stepped(j) # Idle /\ Carries(j, Stepped(j)))
      /\ Busy(j) /\ JobOk(Stepped(j)) /\ JobOk(j)
  BY <1>1, StepAhead
<1>3. ~LastCall(j)
  BY <1>1, NotLast DEF TypeInv
<1>4. Passes(j, k) /\ k # Idle
  BY <1>1, <1>2, <1>3, FieldPasses
<1>5. Carries([j EXCEPT !.missed = m], k)
  BY <1>2, <1>3 DEF Carries, JobOk, JobType
<1> HIDE DEF k
<1>6. job'[t] = k /\ OnlyIts(t)
  BY <1>1, OnlyJob
<1>7. DropsOn(t)
  BY <1>1, <1>4, <1>5, <1>6, DropPasses DEF DropsOn
<1> QED BY <1>6, <1>7 DEF Outcome

(* and the raising of the version,                                         *)
LEMMA BumpsOutcome ==
    ASSUME TypeInv, NEW t \in Threads, Bumps(t)
    PROVE  Outcome(t)
<1> DEFINE j == job[t]
<1>1. Doing(t, "bump") /\ record' = record /\ RowsSame
  BY DEF Bumps, RowsSame
<1>2. /\ j # Idle /\ JobOk(j) /\ Busy(j) /\ Fl(j) /\ At(j)[1] = "bump"
      /\ Ahead(j, Stepped(j), At(j))
      /\ ~LastCall(j) => Stepped(j) # Idle /\ Carries(j, Stepped(j))
  BY <1>1, StepAhead, WhoDoes, AtIs
<1>3. ~LastCall(j)
  <2>1. FillPlan(PlanOf(j)) /\ j.at \in 1..Len(PlanOf(j)) /\ PlanOf(j)[j.at][1] = "bump"
    BY <1>2, PlanIs DEF At
  <2>2. j.at < Len(PlanOf(j))
    BY <2>1, FillFacts
  <2> QED BY <1>2, <2>2, PlanIs DEF LastCall, PlanOf
<1>4. CASE sqlite /\ ~j.read
  <2> DEFINE k == [[j EXCEPT !.read = TRUE] EXCEPT !.ver = version]
  <2>1. job' = [job EXCEPT ![t] = k] /\ version' = version /\ cache' = cache
    BY <1>4 DEF Bumps, TypeInv, JobsOk
  <2>2. k # Idle /\ k.at = j.at /\ k.plan = j.plan /\ Carries(j, k)
    <3>1. JobOk([j EXCEPT !.read = TRUE]) /\ [j EXCEPT !.read = TRUE] # Idle
      BY <1>2, FieldsSet
    <3>2. k # Idle
      BY <3>1, FieldsSet DEF TypeInv
    <3> QED BY <1>2, <3>2 DEF Carries, JobOk, JobType
  <2> HIDE DEF k
  <2> QED BY <1>1, <2>1, <2>2, FieldContinues, SameIds
<1>5. CASE ~(sqlite /\ ~j.read)
  <2>1. Advances(t) /\ (sqlite \/ version' = version + 1) /\ (cache' = cache \/ cache' = Emptied)
    BY <1>5 DEF Bumps, Emptied
  <2>2. job'[t] = Stepped(j) /\ OnlyIts(t)
    BY <2>1, OnlyJob DEF Advances
  <2>3. BumpsOn(t)
    BY <1>1, <1>2, <1>3, <2>1, <2>2 DEF BumpsOn, On
  <2> QED BY <2>2, <2>3 DEF Outcome
<1> QED BY <1>4, <1>5

(* the emptying of the cache,                                              *)
LEMMA WipesOutcome ==
    ASSUME TypeInv, NEW t \in Threads, Wipes(t)
    PROVE  Outcome(t)
<1> DEFINE j == job[t]
<1>1. /\ Doing(t, "wipe") /\ record' = record /\ RowsSame /\ version' = version /\ cache' = Emptied
      /\ Advances(t)
  BY DEF Wipes, RowsSame, Emptied
<1>2. Busy(j) /\ Fl(j) /\ At(j)[1] = "wipe"
  BY <1>1, StepAhead, WhoDoes, AtIs
<1>3. ~LastCall(j)
  <2>1. FillPlan(PlanOf(j)) /\ j.at \in 1..Len(PlanOf(j)) /\ PlanOf(j)[j.at][1] = "wipe"
    BY <1>2, PlanIs DEF At
  <2>2. j.at < Len(PlanOf(j))
    BY <2>1, FillFacts
  <2> QED BY <1>2, <2>2, PlanIs DEF LastCall, PlanOf
<1> QED BY <1>1, <1>3, Continuing, SameIds

(* a call that raises,                                                     *)
LEMMA CallRaisesOutcome ==
    ASSUME TypeInv, NEW t \in Threads, CallRaises(t)
    PROVE  Outcome(t)
<1> DEFINE j == job[t]
<1>1. /\ job' = [job EXCEPT ![t] = Idle] /\ record' = record /\ rows' = rows /\ version' = version
      /\ cache' = cache /\ j.op \notin {"idle", "search"}
      /\ muddled' = IF j.op \in {"ingest", "delete"} THEN muddled \cup Touching(Of(t)) ELSE muddled
  BY DEF CallRaises, Raises
<1>2. job'[t] = Idle /\ OnlyIts(t) /\ IdsSame
  BY <1>1, OnlyJob, SameIds
<1>3. CASE j.op \in {"ingest", "delete"}
  <2>1. GivesUp(t)
    BY <1>1, <1>2, <1>3 DEF GivesUp
  <2> QED BY <1>2, <2>1 DEF Outcome
<1>4. CASE j.op \notin {"ingest", "delete"}
  <2>1. ~Fl(j) /\ j.op # "delete"
    BY <1>4 DEF Fl
  <2>2. GivesUp(t)
    BY <1>1, <1>2, <1>4, <2>1 DEF GivesUp, BumpAhead, AddsAhead
  <2> QED BY <1>2, <2>2 DEF Outcome
<1> QED BY <1>3, <1>4

(* the reading of a transcript,                                            *)
LEMMA ReadTranscriptOutcome ==
    ASSUME TypeInv, NEW t \in Threads, ReadTranscript(t)
    PROVE  Outcome(t)
<1> DEFINE j == job[t]
<1>1. PICK kind \in {"transcript", "refetch"} : Doing(t, kind)
  BY DEF ReadTranscript
<1>2. j # Idle /\ JobOk(j) /\ j.op = "ingest" /\ ~Fl(j) /\ j.at = 1 /\ Busy(j)
  BY <1>1, WhoDoes, StepAhead
<1>3. RowsSame /\ record' = record /\ version' = version /\ cache' = cache /\ IdsSame
  BY SameIds DEF ReadTranscript, RowsSame
<1>4. JobOk(job'[t])
  <2>1. TypeInv'
    BY ReadTranscriptOk
  <2> QED BY <2>1 DEF TypeInv, JobsOk
<1>5. CASE job' = [job EXCEPT ![t] = Idle]
  <2>1. job'[t] = Idle /\ OnlyIts(t)
    BY <1>5, OnlyJob
  <2>2. ~BumpAhead(j) /\ (\A s \in Content : ~AddsAhead(j, s)) /\ j.op # "delete"
    BY <1>2 DEF BumpAhead, AddsAhead
  <2>3. GivesUp(t)
    BY <1>2, <1>3, <2>1, <2>2 DEF GivesUp, RowsSame
  <2> QED BY <2>1, <2>3 DEF Outcome
<1>6. CASE /\ Has("hash", Of(t))
           /\ job' = [job EXCEPT ![t] = [[j EXCEPT !.op = "mark"] EXCEPT !.plan = <<"mark">>]]
  <2> DEFINE k == [[j EXCEPT !.op = "mark"] EXCEPT !.plan = <<"mark">>]
  <2>1. job'[t] = k /\ OnlyIts(t)
    BY <1>6, OnlyJob
  <2>2. /\ k.op = "mark" /\ k.plan = <<"mark">> /\ k.at = 1 /\ k.item = j.item /\ k.alone = j.alone
        /\ k.missed = j.missed /\ k.mid = j.mid
    BY <1>2 DEF JobOk, JobType
  <2> HIDE DEF k
  <2>3. k # Idle
    BY <2>2, IdleOk
  <2>4. PutAhead(k)
    BY <2>2, PlansAre, MarksPut DEF PutAhead, PlanOf
  <2>5. TurnsTo(t)
    BY <1>2, <1>3, <1>6, <2>1, <2>2, <2>3, <2>4 DEF TurnsTo
  <2> QED BY <2>1, <2>5 DEF Outcome
<1>7. CASE \E trusted \in BOOLEAN : job' = [job EXCEPT ![t].plan = <<"video", sqlite, trusted>>]
  <2>1. PICK trusted \in BOOLEAN : job' = [job EXCEPT ![t].plan = <<"video", sqlite, trusted>>]
    BY <1>7
  <2> DEFINE k == [j EXCEPT !.plan = <<"video", sqlite, trusted>>]
  <2>2. job' = [job EXCEPT ![t] = k]
    BY <2>1 DEF TypeInv, JobsOk
  <2>3. /\ k.op = "ingest" /\ k.plan = <<"video", sqlite, trusted>> /\ k.at = 1
        /\ k.item = j.item /\ k.alone = j.alone /\ k.missed = j.missed /\ k.mid = j.mid
    BY <1>2 DEF JobOk, JobType
  <2> HIDE DEF k
  <2>4. job'[t] = k /\ OnlyIts(t)
    BY <2>2, OnlyJob
  <2>5. k # Idle /\ Fl(k)
    BY <2>3, IdleOk DEF Fl
  <2>6. Busy(k)
    BY <1>4, <2>4, <2>5 DEF JobOk
  <2>7. BumpAhead(k) /\ PutAhead(k) /\ \A s \in Content : AddsAhead(k, s)
    BY <2>3, <2>5, <2>6, FillsPut
  <2>8. TurnsTo(t)
    BY <1>2, <1>3, <2>3, <2>4, <2>5, <2>7 DEF TurnsTo
  <2> QED BY <2>4, <2>8 DEF Outcome
<1>8. \/ job' = [job EXCEPT ![t] = Idle]
      \/ Has("hash", Of(t)) /\ job' = [job EXCEPT ![t] = [[j EXCEPT !.op = "mark"] EXCEPT !.plan = <<"mark">>]]
      \/ \E trusted \in BOOLEAN : job' = [job EXCEPT ![t].plan = <<"video", sqlite, trusted>>]
  <2>1. \/ Raises(t)
        \/ /\ Has("hash", Of(t))
           /\ job' = [job EXCEPT ![t] = IF Marked(Of(t)) THEN Idle
                                        ELSE [@ EXCEPT !.op = "mark", !.plan = <<"mark">>]]
        \/ \E trusted \in BOOLEAN : job' = [job EXCEPT ![t].plan = <<"video", sqlite, trusted>>]
    BY DEF ReadTranscript
  <2>2. CASE /\ Has("hash", Of(t))
             /\ job' = [job EXCEPT ![t] = IF Marked(Of(t)) THEN Idle
                                        ELSE [@ EXCEPT !.op = "mark", !.plan = <<"mark">>]]
    <3>1. CASE Marked(Of(t))
      BY <2>2, <3>1
    <3>2. CASE ~Marked(Of(t))
      <4>1. job' = [job EXCEPT ![t] = [[j EXCEPT !.op = "mark"] EXCEPT !.plan = <<"mark">>]]
        BY <2>2, <3>2 DEF TypeInv, JobsOk
      <4> QED BY <2>2, <4>1
    <3> QED BY <3>1, <3>2
  <2> QED BY <2>1, <2>2 DEF Raises
<1> QED BY <1>5, <1>6, <1>7, <1>8

(* the look for another copy,                                              *)
LEMMA LooksOutcome ==
    ASSUME TypeInv, NEW t \in Threads, LooksForOthers(t)
    PROVE  Outcome(t)
<1> DEFINE j == job[t]
           k == [Stepped(j) EXCEPT !.shared = SharedBy(Of(t))]
<1>1. /\ Doing(t, "others") /\ RowsSame /\ record' = record /\ version' = version /\ cache' = cache
      /\ job' = [job EXCEPT ![t] = k]
  BY DEF LooksForOthers, RowsSame, SharedBy
<1>2. /\ Passes(j, Stepped(j)) /\ (~LastCall(j) => Stepped(j) # Idle /\ Carries(j, Stepped(j)))
      /\ Busy(j) /\ JobOk(Stepped(j)) /\ JobOk(j) /\ j.op = "delete" /\ At(j)[1] = "others"
  BY <1>1, StepAhead, WhoDoes, AtIs
<1>3. ~LastCall(j)
  BY <1>1, <1>2, NotLast DEF TypeInv
<1>4. SharedBy(Of(t)) \in BOOLEAN
  BY DEF SharedBy
<1>5. Passes(j, k) /\ k # Idle
  BY <1>2, <1>3, <1>4, FieldPasses
<1>6. Carries([j EXCEPT !.shared = SharedBy(Of(t))], k)
  BY <1>2, <1>3, <1>4 DEF Carries, JobOk, JobType
<1> HIDE DEF k
<1>7. job'[t] = k /\ OnlyIts(t)
  BY <1>1, OnlyJob
<1>8. Ahead(j, k, At(j))
  BY <1>2, <1>5, PassesAhead DEF At
<1>9. OthersAhead(j) /\ ~OthersAhead(k)
  <2>1. /\ DeleteOrdered(PlanOf(j), j.at) /\ j.at \in 1..Len(PlanOf(j))
        /\ PlanOf(j)[j.at][1] = "others"
    BY <1>2, PlanIs DEF At
  <2>2. Later(PlanOf(j), j.at, "others")
    BY <2>1, PlanIs DEF Later
  <2>3. ~Later(PlanOf(j), j.at + 1, "others")
    BY <2>1 DEF DeleteOrdered
  <2>4. PlanOf(k) = PlanOf(j) /\ k.at = j.at + 1
    BY <1>5 DEF Passes, PlanOf
  <2> QED BY <1>2, <2>2, <2>3, <2>4 DEF OthersAhead
<1>10. LooksOn(t)
  BY <1>1, <1>2, <1>5, <1>6, <1>7, <1>8, <1>9 DEF LooksOn
<1> QED BY <1>7, <1>10 DEF Outcome

(* the removal of the record,                                              *)
LEMMA ForgetsOutcome ==
    ASSUME TypeInv, NEW t \in Threads, Forgets(t)
    PROVE  Outcome(t)
<1> DEFINE j == job[t]
           k == Stepped(j)
<1>1. Doing(t, "forget") /\ RowsSame /\ version' = version /\ cache' = cache
  BY DEF Forgets, RowsSame
<1>2. /\ Passes(j, k) /\ Ahead(j, k, At(j)) /\ (~LastCall(j) => k # Idle /\ Carries(j, k))
      /\ Busy(j) /\ j.op = "delete" /\ At(j)[1] = "forget"
  BY <1>1, StepAhead, WhoDoes, AtIs
<1>3. ~LastCall(j)
  BY <1>1, <1>2, NotLast DEF TypeInv
<1>4. DeleteOrdered(PlanOf(j), j.at) /\ j.at \in 1..Len(PlanOf(j)) /\ PlanOf(j)[j.at][1] = "forget"
  BY <1>2, PlanIs DEF At
<1>5. ~OthersAhead(j) /\ ForgetAhead(j) /\ \A s : ~DropAhead(j, s)
  <2>1. Later(PlanOf(j), j.at, "forget")
    BY <1>4 DEF Later
  <2> QED BY <1>2, <1>4, <2>1 DEF DeleteOrdered, OthersAhead, ForgetAhead, DropAhead
<1>6. CASE record[Of(t)].id = j.mid
  <2>1. record' = [record EXCEPT ![Of(t)] = Absent] /\ job' = [job EXCEPT ![t] = k]
    BY <1>6 DEF Forgets, Advances
  <2>2. job'[t] = k /\ OnlyIts(t)
    BY <2>1, OnlyJob
  <2> HIDE DEF k
  <2>3. ~ForgetAhead(k)
    <3>1. ~Later(PlanOf(j), j.at + 1, "forget")
      BY <1>4 DEF DeleteOrdered
    <3>2. PlanOf(k) = PlanOf(j) /\ k.at = j.at + 1
      BY <1>2, <1>3 DEF Passes, PlanOf
    <3> QED BY <3>1, <3>2 DEF ForgetAhead
  <2>4. ForgetsOn(t)
    BY <1>1, <1>2, <1>3, <1>5, <2>1, <2>2, <2>3 DEF ForgetsOn, On
  <2> QED BY <2>2, <2>4 DEF Outcome
<1>7. CASE record[Of(t)].id # j.mid
  <2>1. record' = record /\ job' = [job EXCEPT ![t] = Idle]
    BY <1>7 DEF Forgets, Raises
  <2>2. job'[t] = Idle /\ OnlyIts(t)
    BY <2>1, OnlyJob
  <2>3. ForgetsOn(t)
    BY <1>1, <1>2, <1>5, <1>7, <2>1, <2>2 DEF ForgetsOn
  <2> QED BY <2>2, <2>3 DEF Outcome
<1> QED BY <1>6, <1>7

(* the invalidation of the answers,                                        *)
LEMMA InvalidatesOutcome ==
    ASSUME TypeInv, NEW t \in Threads, Invalidates(t)
    PROVE  Outcome(t)
<1> DEFINE j == job[t]
<1>1. /\ Doing(t, "invalidate") /\ rows' = rows /\ record' = record /\ version' = version
      /\ cache' = [cache EXCEPT ![Owner[Of(t)]] = NoAnswer] /\ muddled' = muddled \ Ordered(t)
  BY DEF Invalidates, Invalidated
<1>2. Busy(j) /\ j.op = "delete" /\ At(j)[1] = "invalidate"
  BY <1>1, StepAhead, WhoDoes, AtIs
<1>3. DeleteOrdered(PlanOf(j), j.at) /\ PlanOf(j)[j.at][1] = "invalidate"
  BY <1>2, PlanIs DEF At
<1>4. ~OthersAhead(j) /\ ~ForgetAhead(j) /\ \A s : ~DropAhead(j, s)
  BY <1>2, <1>3 DEF DeleteOrdered, OthersAhead, ForgetAhead, DropAhead
<1>5. job'[t] = Idle
  BY DEF Invalidates
<1>6. \A x \in Threads \ {t} :
          \/ job'[x] = job[x] /\ ~(job[x].op = "search" /\ Asker(x) = Owner[Of(t)])
          \/ job'[x] = [job[x] EXCEPT !.late = TRUE]
  BY DEF Invalidates
<1>7. muddled' \subseteq muddled /\ \A x \in muddled \ muddled' : x = Of(t) /\ Lone(j)
  BY <1>1, OrderedIs
<1>8. InvalidatesOn(t)
  BY <1>1, <1>2, <1>4, <1>5, <1>6, <1>7 DEF InvalidatesOn
<1> QED BY <1>8 DEF Outcome

(* and so each step of a deletion.                                         *)
LEMMA DeletionOutcome ==
    ASSUME TypeInv, NEW t \in Threads, DeletionStep(t)
    PROVE  Outcome(t)
BY LooksOutcome, ForgetsOutcome, InvalidatesOutcome DEF DeletionStep

(* Before and after the retrieval of a search.                             *)
LEMMA AheadOfSearch ==
    ASSUME NEW j, Busy(j), j.op = "search"
    PROVE  /\ At(j)[1] \in {"get", "retrieve"} => RetrieveAhead(j)
           /\ At(j)[1] \in {"put?", "store"} => ~RetrieveAhead(j)
<1>1. PlanOf(j) = SearchPlan /\ j.at \in 1..Len(PlanOf(j))
  BY PlanIs
<1>2. /\ SearchPlan[1] = <<"get", {}>> /\ SearchPlan[2] = <<"retrieve", {}>>
      /\ SearchPlan[3] = <<"put?", {}>> /\ SearchPlan[4] = <<"store", {}>>
  BY ShortPlans
<1>3. j.at = 1 \/ j.at = 2 \/ j.at = 3 \/ j.at = 4
  BY <1>1, SearchOrder
<1> QED BY <1>1, <1>2, <1>3, SearchOrder DEF At, RetrieveAhead

(* The steps of a search have an outcome,                                  *)
LEMMA SearchOutcome ==
    ASSUME TypeInv, NEW t \in Threads, SearchStep(t)
    PROVE  Outcome(t)
<1> DEFINE j == job[t]
<1>1. PICK kind \in {"get", "retrieve", "put?", "store"} : Doing(t, kind)
  BY DEF SearchStep, CacheGet, Retrieve, ReadVersions, CachePut
<1>2. RowsSame /\ record' = record /\ version' = version /\ IdsSame
  BY SameIds DEF SearchStep, CacheGet, Retrieve, ReadVersions, CachePut, SearchKeeps, RowsSame
<1>3. j # Idle /\ JobOk(j) /\ JobOk(Stepped(j)) /\ j.op = "search" /\ Busy(j)
  BY <1>1, StepAhead, WhoDoes
<1>4. ASSUME job' = [job EXCEPT ![t] = Idle], cache' = cache
      PROVE  Outcome(t)
  <2>1. job'[t] = Idle /\ OnlyIts(t)
    BY <1>4, OnlyJob
  <2>2. ~BumpAhead(j) /\ (\A s \in Content : ~AddsAhead(j, s)) /\ ~Fl(j) /\ j.op # "delete"
    BY <1>3 DEF BumpAhead, AddsAhead, Fl
  <2>3. GivesUp(t)
    BY <1>2, <1>4, <2>1, <2>2 DEF GivesUp, RowsSame
  <2> QED BY <2>1, <2>3 DEF Outcome
<1>5. CASE CacheGet(t)
  <2>1. Doing(t, "get") /\ cache' = cache /\ (Raises(t) \/ Advances(t))
    BY <1>5 DEF CacheGet
  <2>2. ~LastCall(j)
    BY <2>1, NotLast DEF TypeInv
  <2>3. CASE Raises(t)
    BY <1>4, <2>1, <2>3 DEF Raises
  <2>4. CASE Advances(t)
    BY <1>2, <2>1, <2>2, <2>4, Continuing
  <2> QED BY <2>1, <2>3, <2>4
<1>6. CASE Retrieve(t)
  <2> DEFINE k == [Stepped(j) EXCEPT !.ans = Answers(t)]
  <2>1. Doing(t, "retrieve") /\ cache' = cache /\ job' = [job EXCEPT ![t] = k]
    BY <1>6 DEF Retrieve
  <2>2. ~LastCall(j)
    BY <2>1, NotLast DEF TypeInv
  <2>3. /\ Passes(j, Stepped(j)) /\ Stepped(j) # Idle /\ Carries(j, Stepped(j))
        /\ At(j)[1] = "retrieve"
    BY <2>1, <2>2, StepAhead, AtIs
  <2>4. Answers(t) \in SUBSET Items
    BY DEF Answers
  <2>5. Passes(j, k) /\ k # Idle
    BY <1>3, <2>3, <2>4, FieldPasses
  <2>6. Carries([j EXCEPT !.ans = Answers(t)], k)
    BY <1>3, <2>3, <2>4 DEF Carries, JobOk, JobType
  <2> HIDE DEF k
  <2>7. job'[t] = k /\ OnlyIts(t)
    BY <2>1, OnlyJob
  <2>8. Ahead(j, k, At(j)) /\ RetrieveAhead(j)
    BY <1>3, <2>3, <2>5, PassesAhead, AheadOfSearch DEF At
  <2>9. RetrievesOn(t)
    BY <1>2, <1>3, <2>1, <2>3, <2>5, <2>6, <2>7, <2>8 DEF RetrievesOn
  <2> QED BY <2>7, <2>9 DEF Outcome
<1>7. CASE ReadVersions(t)
  <2> DEFINE k == [Stepped(j) EXCEPT !.ver = version]
  <2>1. /\ Doing(t, "put?") /\ cache' = cache
        /\ job' = [job EXCEPT ![t] = Idle] \/ job' = [job EXCEPT ![t] = k]
    BY <1>7 DEF ReadVersions, TypeInv, JobsOk
  <2>2. ~LastCall(j)
    BY <2>1, NotLast DEF TypeInv
  <2>3. /\ Passes(j, Stepped(j)) /\ Stepped(j) # Idle /\ Carries(j, Stepped(j))
        /\ At(j)[1] = "put?"
    BY <2>1, <2>2, StepAhead, AtIs
  <2>4. CASE job' = [job EXCEPT ![t] = Idle]
    BY <1>4, <2>1, <2>4
  <2>5. CASE job' = [job EXCEPT ![t] = k]
    <3>1. Passes(j, k) /\ k # Idle
      BY <1>3, <2>3, FieldPasses DEF TypeInv
    <3>2. Carries(j, k)
      BY <1>3, <2>3 DEF Carries, JobOk, JobType
    <3> HIDE DEF k
    <3>3. job'[t] = k /\ OnlyIts(t)
      BY <2>5, OnlyJob
    <3>4. Ahead(j, k, At(j))
      BY <1>3, <3>1, PassesAhead DEF At
    <3>5. Ahead(j, k, NoCall)
      BY <2>3, <3>4, NothingDone
    <3>6. Continues(t)
      BY <1>2, <2>1, <3>1, <3>2, <3>3, <3>5 DEF Continues, On
    <3> QED BY <3>3, <3>6 DEF Outcome
  <2> QED BY <2>1, <2>4, <2>5
<1>8. CASE CachePut(t)
  <2>1. /\ Doing(t, "store") /\ job' = [job EXCEPT ![t] = Idle]
        /\ cache' = [cache EXCEPT ![Asker(t)] =
                   [ver |-> j.ver, began |-> j.began, ans |-> j.ans, late |-> j.late]]
    BY <1>8 DEF CachePut, Raises
  <2>2. At(j)[1] = "store"
    BY <2>1, AtIs
  <2>3. ~RetrieveAhead(j)
    BY <1>3, <2>2, AheadOfSearch
  <2>4. job'[t] = Idle /\ OnlyIts(t)
    BY <2>1, OnlyJob
  <2>5. StoresOn(t)
    BY <1>2, <1>3, <2>1, <2>3, <2>4 DEF StoresOn
  <2> QED BY <2>4, <2>5 DEF Outcome
<1> QED BY <1>5, <1>6, <1>7, <1>8 DEF SearchStep

(* and so has all work.                                                    *)
LEMMA WorkOutcome ==
    ASSUME TypeInv, IdsInv, NEW t \in Threads, Works(t)
    PROVE  Outcome(t)
<1>1. CASE RecordStep(t) /\ UNCHANGED <<storeVars, ops, faults>>
  BY <1>1, RecordOutcome
<1> QED BY <1>1, AddsOutcome, DropsOutcome, BumpsOutcome, WipesOutcome, ReadTranscriptOutcome,
           SearchOutcome, DeletionOutcome, DropSwallowedOutcome, CallRaisesOutcome
        DEF Works, PipelineStep

(* A thread that stands still, but for what is said of it. *)
Twin(j, k) ==
    /\ k.op = j.op /\ k.item = j.item /\ k.mid = j.mid /\ k.shared = j.shared
    /\ k.began = j.began /\ k.ans = j.ans
    /\ Lone(k) => Lone(j)
    /\ j.late = TRUE => k.late = TRUE
    /\ (Fl(k) <=> Fl(j)) /\ (BumpAhead(k) <=> BumpAhead(j)) /\ (PutAhead(k) <=> PutAhead(j))
    /\ (OthersAhead(k) <=> OthersAhead(j)) /\ (ForgetAhead(k) <=> ForgetAhead(j))
    /\ (RetrieveAhead(k) <=> RetrieveAhead(j))
    /\ \A s : (AddsAhead(k, s) <=> AddsAhead(j, s)) /\ (DropAhead(k, s) <=> DropAhead(j, s))

(* A job that only loses a flag, or is told that it is late, stands still. *)
LEMMA FlagTwin ==
    ASSUME NEW j \in JobType
    PROVE  /\ Twin(j, j)
           /\ Twin(j, [j EXCEPT !.alone = FALSE])
           /\ Twin(j, [j EXCEPT !.late = TRUE])
<1>1. ASSUME NEW k, k.op = j.op, k.item = j.item, k.mid = j.mid, k.shared = j.shared,
             k.began = j.began, k.ans = j.ans, k.plan = j.plan, k.at = j.at,
             Lone(k) => Lone(j), j.late = TRUE => k.late = TRUE
      PROVE  Twin(j, k)
  <2>1. PlanOf(k) = PlanOf(j) /\ (Fl(k) <=> Fl(j))
    BY <1>1 DEF PlanOf, Fl
  <2>2. /\ (BumpAhead(k) <=> BumpAhead(j)) /\ (PutAhead(k) <=> PutAhead(j))
        /\ (OthersAhead(k) <=> OthersAhead(j)) /\ (ForgetAhead(k) <=> ForgetAhead(j))
        /\ (RetrieveAhead(k) <=> RetrieveAhead(j))
        /\ \A s : (AddsAhead(k, s) <=> AddsAhead(j, s)) /\ (DropAhead(k, s) <=> DropAhead(j, s))
    BY <1>1, <2>1, Zenon DEF BumpAhead, PutAhead, OthersAhead, ForgetAhead, RetrieveAhead,
                             AddsAhead, DropAhead
  <2> QED BY <1>1, <2>1, <2>2 DEF Twin
<1>2. Twin(j, j)
  BY <1>1
<1>3. Twin(j, [j EXCEPT !.alone = FALSE])
  <2> DEFINE k == [j EXCEPT !.alone = FALSE]
  <2>1. /\ k.op = j.op /\ k.item = j.item /\ k.mid = j.mid /\ k.shared = j.shared
        /\ k.began = j.began /\ k.ans = j.ans /\ k.plan = j.plan /\ k.at = j.at
        /\ ~Lone(k) /\ k.late = j.late
    BY DEF JobType, Lone
  <2> HIDE DEF k
  <2> QED BY <1>1, <2>1 DEF k
<1>4. Twin(j, [j EXCEPT !.late = TRUE])
  <2> DEFINE k == [j EXCEPT !.late = TRUE]
  <2>1. /\ k.op = j.op /\ k.item = j.item /\ k.mid = j.mid /\ k.shared = j.shared
        /\ k.began = j.began /\ k.ans = j.ans /\ k.plan = j.plan /\ k.at = j.at
        /\ (Lone(k) <=> Lone(j)) /\ k.late = TRUE
    BY DEF JobType, Lone
  <2> HIDE DEF k
  <2> QED BY <1>1, <2>1 DEF k
<1> QED BY <1>2, <1>3, <1>4

(* The other threads stand still.                                          *)
OthersTwin(t) == \A x \in Threads \ {t} : Twin(job[x], job'[x])

(* So do the others while a thread works.                                  *)
LEMMA WorkTwins ==
    ASSUME TypeInv, NEW t \in Threads, Outcome(t)
    PROVE  OthersTwin(t)
<1>1. \A x \in Threads \ {t} : job'[x] = job[x] \/ job'[x] = [job[x] EXCEPT !.late = TRUE]
  BY DEF Outcome, OnlyIts, InvalidatesOn
<1>2. \A x \in Threads : job[x] \in JobType
  BY DEF TypeInv, JobsOk
<1> QED BY <1>1, <1>2, FlagTwin DEF OthersTwin

-----------------------------------------------------------------------------
(* The beginning of a job.                                                 *)

(* A job on item i that has just begun.                                    *)
Ready(k, i) ==
    /\ k.op \in Rewrites /\ k.item = i /\ ~KnowsId(k)
    /\ Fl(k) => BumpAhead(k) /\ PutAhead(k) /\ \A s \in Content : AddsAhead(k, s)
    /\ k.op = "delete" => /\ k.mid = record[i].id /\ OthersAhead(k) /\ ForgetAhead(k)
                          /\ \A s \in Stores \ {"hash"} :
                                DropAhead(k, s) \/ (s = "yt" /\ Source[i] \in Pages)
    /\ k.op = "review" => Has("registry", i)
    /\ k.op = "mark" => Has("registry", i) \/ Has("chunks", i)

(* The beginning of a rewrite of item i,                                   *)
BeginsOn(t, i) ==
    /\ Ready(job'[t], i)
    /\ muddled' = MixUp(t, job'[t].op, i)
    /\ Lone(job'[t]) => Beside(t, i) = {}
    /\ \A x \in Beside(t, i) : ~Lone(job'[x])
    /\ rows' = rows \/ (job'[t].op = "ingest" /\ rows' = rows \cup {Row("yt", i)})

(* of a search or a change of state.                                       *)
BeginsAside(t) ==
    LET k == job'[t] IN
    /\ RowsSame
    /\ \/ k.op = "state" /\ k.mid # 0
       \/ k.op = "search" /\ k.ans = {} /\ k.began = version /\ RetrieveAhead(k)

Beginning(t) ==
    /\ job[t] = Idle /\ OthersTwin(t)
    /\ sqlite' = sqlite /\ record' = record /\ version' = version /\ cache' = cache
    /\ BeginsAside(t) \/ \E i \in Items : BeginsOn(t, i)

(* A job that has just begun,                                              *)
LEMMA ReadyIs ==
    ASSUME TypeInv, NEW k, JobOk(k), k # Idle, k.op \in Rewrites, k.at = 1, NEW i \in Items,
           k.item = i,
           k.op = "delete" => k.mid = record[i].id,
           k.op = "review" => Has("registry", i),
           k.op = "mark" => Has("registry", i) \/ Has("chunks", i)
    PROVE  Ready(k, i)
<1>1. Busy(k)
  BY DEF JobOk
<1>2. Fl(k) => BumpAhead(k) /\ PutAhead(k) /\ \A s \in Content : AddsAhead(k, s)
  BY <1>1, FillsPut
<1>3. k.op = "mark" => PutAhead(k)
  BY <1>1, PlanIs, MarksPut DEF PutAhead
<1>4. ~KnowsId(k)
  BY <1>2, <1>3 DEF KnowsId, Rewrites
<1>5. CASE k.op = "delete"
  <2> DEFINE p == PlanOf(k)
  <2>1. DeleteOrdered(p, 1) /\ p = Plan[k.plan]
    BY <1>1, <1>5, PlanIs DEF PlanOf
  <2>2. OthersAhead(k) /\ ForgetAhead(k)
    BY <1>5, <2>1 DEF DeleteOrdered, OthersAhead, ForgetAhead
  <2>3. IF Source[i] \in Pages THEN PageDeletion(p) ELSE VideoDeletion(p)
    BY <1>1, <1>5, <2>1, DeletionIs
  <2>4. \A s \in Stores \ {"hash"} : DropsLater(p, 1, s) \/ (s = "yt" /\ Source[i] \in Pages)
    BY <2>3, DeletionDrops
  <2> HIDE DEF p
  <2>5. \A s \in Stores \ {"hash"} : DropAhead(k, s) \/ (s = "yt" /\ Source[i] \in Pages)
    BY <1>5, <2>4 DEF DropAhead, p
  <2> QED BY <1>2, <1>4, <1>5, <2>2, <2>5 DEF Ready
<1>6. CASE k.op # "delete"
  BY <1>2, <1>4, <1>6 DEF Ready
<1> QED BY <1>5, <1>6

(* by the start of a rewrite,                                              *)
LEMMA BeginsOnIs ==
    ASSUME TypeInv, NEW t \in Threads, job[t] = Idle, NEW op \in Rewrites,
           NEW i \in Items, NEW plan \in Names, PlanFits(op, i, plan),
           StartsRewriting(t, op, i, plan),
           rows' = rows \/ (op = "ingest" /\ rows' = rows \cup {Row("yt", i)}),
           sqlite' = sqlite, record' = record, version' = version, cache' = cache,
           op = "review" => Has("registry", i),
           op = "mark" => Has("registry", i) \/ Has("chunks", i)
    PROVE  Beginning(t)
<1>1. op \in {"ingest", "mark", "delete", "review"}
  BY DEF Rewrites
<1>2. StartsAs(t, op, i, plan) /\ JobsOk(job')
  BY <1>1, StartsOk
<1> DEFINE k == job'[t]
<1>3. /\ k # Idle /\ JobOk(k) /\ k.op = op /\ k.item = i /\ k.at = 1
      /\ k.op = "delete" => k.mid = record[i].id
      /\ k.alone = (Beside(t, i) = {})
      /\ \A x \in Threads \ {t} :
           job'[x] = IF x \in Beside(t, i) THEN [job[x] EXCEPT !.alone = FALSE] ELSE job[x]
  BY <1>2 DEF StartsAs, JobsOk
<1>4. muddled' = MixUp(t, op, i)
  BY DEF StartsRewriting
<1>5. \A x \in Threads : job[x] \in JobType
  BY DEF TypeInv, JobsOk
<1> HIDE DEF k
<1>6. Ready(k, i)
  BY <1>3, ReadyIs
<1>7. OthersTwin(t)
  BY <1>3, <1>5, FlagTwin DEF OthersTwin
<1>8. \A x \in Beside(t, i) : ~Lone(job'[x])
  <2> TAKE x \in Beside(t, i)
  <2>1. x \in Threads \ {t} /\ job[x] \in JobType
    BY <1>5 DEF Beside
  <2>2. job'[x] = [job[x] EXCEPT !.alone = FALSE]
    BY <1>3, <2>1
  <2> QED BY <2>1, <2>2 DEF JobType, Lone
<1>9. Lone(k) => Beside(t, i) = {}
  BY <1>3 DEF Lone
<1>10. BeginsOn(t, i)
  BY <1>3, <1>4, <1>6, <1>8, <1>9 DEF BeginsOn, k
<1> QED BY <1>7, <1>10 DEF Beginning

(* or of a search or a change of state:                                    *)
LEMMA AsideIs ==
    ASSUME TypeInv, NEW t \in Threads, NEW k, job[t] = Idle, job' = [job EXCEPT ![t] = k],
           \/ k.op = "state" /\ k.mid # 0
           \/ k.op = "search" /\ k.ans = {} /\ k.began = version /\ RetrieveAhead(k),
           RowsSame, sqlite' = sqlite, record' = record, version' = version, cache' = cache
    PROVE  Beginning(t)
<1>1. job'[t] = k /\ OnlyIts(t)
  BY OnlyJob
<1>2. \A x \in Threads : job[x] \in JobType
  BY DEF TypeInv, JobsOk
<1>3. OthersTwin(t)
  BY <1>1, <1>2, FlagTwin DEF OnlyIts, OthersTwin
<1> QED BY <1>1, <1>3 DEF Beginning, BeginsAside

(* the requests to ingest begin such a job,                                *)
LEMMA IngestBegins ==
    ASSUME TypeInv, NEW t \in Threads, IngestRequest(t)
    PROVE  Beginning(t)
<1>1. PICK i \in Items, force \in BOOLEAN : IngestVideo(t, i, force) \/ IngestPage(t, i, force)
  BY DEF IngestRequest
<1>2. CASE IngestVideo(t, i, force)
  <2>1. /\ job[t] = Idle /\ sqlite' = sqlite /\ record' = record /\ version' = version
        /\ cache' = cache
    BY <1>2 DEF IngestVideo, Begins
  <2>2. rows' = rows \/ rows' = rows \cup {Row("yt", i)}
    BY <1>2 DEF IngestVideo
  <2>3. CASE /\ StartsRewriting(t, "mark", i, <<"mark">>) /\ rows' = rows
             /\ (Has("registry", i) \/ Has("chunks", i))
    <3>1. "mark" \in Rewrites /\ <<"mark">> \in Names /\ PlanFits("mark", i, <<"mark">>)
      BY NamesHave DEF Rewrites, PlanFits
    <3> QED BY <2>1, <2>2, <2>3, <3>1, BeginsOnIs
  <2>4. CASE StartsRewriting(t, "ingest", i, <<"read", "refetch">>)
    <3>1. /\ "ingest" \in Rewrites /\ <<"read", "refetch">> \in Names
          /\ PlanFits("ingest", i, <<"read", "refetch">>)
      BY NamesHave DEF Rewrites, PlanFits
    <3> QED BY <2>1, <2>2, <2>4, <3>1, BeginsOnIs
  <2>5. CASE StartsRewriting(t, "ingest", i, <<"read", "transcript">>)
    <3>1. /\ "ingest" \in Rewrites /\ <<"read", "transcript">> \in Names
          /\ PlanFits("ingest", i, <<"read", "transcript">>)
      BY NamesHave DEF Rewrites, PlanFits
    <3> QED BY <2>1, <2>2, <2>5, <3>1, BeginsOnIs
  <2> QED BY <1>2, <2>3, <2>4, <2>5 DEF IngestVideo
<1>3. CASE IngestPage(t, i, force)
  <2>1. /\ job[t] = Idle /\ sqlite' = sqlite /\ record' = record /\ version' = version
        /\ cache' = cache /\ rows' = rows
    BY <1>3 DEF IngestPage, Begins
  <2>2. PICK trusted \in BOOLEAN : StartsRewriting(t, "ingest", i, <<"page", sqlite, trusted>>)
    BY <1>3 DEF IngestPage
  <2>3. /\ PlanFits("ingest", i, <<"page", sqlite, trusted>>)
        /\ <<"page", sqlite, trusted>> \in Names
        /\ "ingest" \in Rewrites
    BY NamesHave DEF PlanFits, TypeInv, Rewrites
  <2> QED BY <2>1, <2>2, <2>3, BeginsOnIs
<1> QED BY <1>1, <1>2, <1>3

(* as do those of the users.                                               *)
LEMMA UserBegins ==
    ASSUME TypeInv, RecordIds, NEW t \in Threads, UserRequest(t)
    PROVE  Beginning(t)
<1>1. PICK i \in Items :
         \/ archive(t, i) /\ UNCHANGED storeVars
         \/ revive(t, i) /\ UNCHANGED storeVars
         \/ merge(t, i) /\ UNCHANGED storeVars
         \/ Search(t, i) \/ DeleteMemory(t, i) \/ RecordReview(t, i)
  BY DEF UserRequest
<1>2. ASSUME NEW s \in {"archived", "revived", "merged"}, Asks(t, "state", i, <<"to", s>>),
             UNCHANGED storeVars
      PROVE  Beginning(t)
  <2> DEFINE k == [Begun("state", i, <<"to", s>>) EXCEPT !.mid = record[i].id]
  <2>1. job[t] = Idle /\ job' = [job EXCEPT ![t] = k] /\ record[i] # Absent /\ record' = record
    BY <1>2 DEF Asks, Begins, Begun
  <2>2. k.op = "state" /\ k.mid = record[i].id
    BY DEF Begun, Idle
  <2>3. record[i].id # 0
    BY <2>1 DEF RecordIds
  <2> HIDE DEF k
  <2> QED BY <1>2, <2>1, <2>2, <2>3, AsideIs DEF RowsSame, storeVars
<1>3. CASE Search(t, i)
  <2> DEFINE k == [[Begun("search", i, <<"search">>) EXCEPT !.ver = version] EXCEPT !.began = version]
  <2>1. job[t] = Idle /\ job' = [job EXCEPT ![t] = k] /\ RowsSame /\ sqlite' = sqlite
          /\ record' = record /\ version' = version /\ cache' = cache
    BY <1>3 DEF Search, Begins, Begun, RowsSame
  <2>2. k.op = "search" /\ k.ans = {} /\ k.began = version /\ k.plan = <<"search">> /\ k.at = 1
    BY DEF Begun, Idle
  <2> HIDE DEF k
  <2>3. RetrieveAhead(k)
    BY <2>2, PlansAre, SearchOrder DEF RetrieveAhead, PlanOf
  <2> QED BY <2>1, <2>2, <2>3, AsideIs
<1>4. CASE DeleteMemory(t, i)
  <2>1. /\ job[t] = Idle /\ sqlite' = sqlite /\ record' = record /\ rows' = rows
        /\ version' = version /\ cache' = cache
    BY <1>4 DEF DeleteMemory, Begins
  <2>2. PlanFits("delete", i, <<"delete", Source[i] \in Pages>>)
          /\ <<"delete", Source[i] \in Pages>> \in Names
    <3>1. (Source[i] \in Pages) \in BOOLEAN
      OBVIOUS
    <3> QED BY <3>1, NamesHave, Zenon DEF PlanFits
  <2>3. "delete" \in Rewrites
    BY DEF Rewrites
  <2> QED BY <1>4, <2>1, <2>2, <2>3, BeginsOnIs DEF DeleteMemory
<1>5. CASE RecordReview(t, i)
  <2>1. /\ job[t] = Idle /\ sqlite' = sqlite /\ record' = record /\ rows' = rows
        /\ version' = version /\ cache' = cache
          /\ Has("registry", i)
    BY <1>5 DEF RecordReview, Begins
  <2>2. PlanFits("review", i, <<"review">>) /\ <<"review">> \in Names /\ "review" \in Rewrites
    BY NamesHave DEF PlanFits, Rewrites
  <2> QED BY <1>5, <2>1, <2>2, BeginsOnIs DEF RecordReview
<1> QED BY <1>1, <1>2, <1>3, <1>4, <1>5 DEF archive, revive, merge

-----------------------------------------------------------------------------
(* What a step does to the stores.                                         *)

(* What a working thread t does to a row, a record, the history of         *)
(* mix-ups, the cache.                                                     *)
Gains(t, s, i) ==
    /\ Row(s, i) = Row(s, Of(t)) /\ s # "yt"
    /\ \/ Fl(job[t]) /\ s # "review" /\ (s = "registry" => ~BumpAhead(job[t]))
       \/ job[t].op = "review" /\ s = "review"

Loses(t, s, i) ==
    /\ Row(s, i) = Row(s, Of(t)) /\ s # "hash"
    /\ \/ AddsAhead(job'[t], s) /\ job'[t].item = job[t].item
       \/ /\ job[t].op = "delete" /\ ~(Shared(s) /\ job[t].shared)
          /\ s \in {"fts", "capsule"} => ~OthersAhead(job[t])

Records(t, i) ==
    /\ i = Of(t) /\ rows' = rows /\ muddled' = muddled
    /\ \A y \in Items \ {i} : record'[y].id = record[y].id
    /\ \/ (Fl(job[t]) \/ job[t].op = "mark") /\ record[i].id = 0 /\ record'[i].id # 0
       \/ /\ job[t].op = "delete" /\ record'[i].id = 0
          /\ ~OthersAhead(job[t]) /\ \A s : ~DropAhead(job[t], s)
          /\ job'[t].op = "delete" /\ job'[t].item = job[t].item /\ ~ForgetAhead(job'[t])

Settles(t) ==
    /\ Lone(job[t]) /\ job'[t] = Idle /\ record' = record
    /\ \/ Fl(job[t]) /\ ~PutAhead(job[t]) /\ ~BumpAhead(job[t])
       \/ InvalidatesOn(t)

(* A row is of one store.                                                  *)
LEMMA RowStore == \A s, i, x, y : Row(s, i) = Row(x, y) => s = x
BY DEF Row

(* A row comes or goes by what its outcome says,                           *)
LEMMA RowsGo ==
    ASSUME NEW t, Outcome(t), NEW s, NEW i
    PROVE  /\ Row(s, i) \in rows' /\ Row(s, i) \notin rows => Gains(t, s, i)
           /\ Row(s, i) \in rows /\ Row(s, i) \notin rows' => Loses(t, s, i)
<1>1. CASE AddsOn(t)
  <2>1. rows \subseteq rows' /\ rows' \subseteq rows \cup {Row(x, Of(t)) : x \in At(job[t])[2]}
    BY <1>1 DEF AddsOn
  <2>2. ASSUME Row(s, i) \in rows', Row(s, i) \notin rows PROVE Gains(t, s, i)
    <3>1. PICK x \in At(job[t])[2] : Row(s, i) = Row(x, Of(t))
      BY <2>1, <2>2
    <3>2. x = s
      BY <3>1, RowStore
    <3> QED BY <1>1, <3>1, <3>2 DEF AddsOn, Gains
  <2> QED BY <2>1, <2>2
<1>2. CASE DropsOn(t)
  <2> DEFINE c == At(job[t])
  <2>1. rows' \subseteq rows
    BY <1>2 DEF DropsOn
  <2>2. ASSUME Row(s, i) \in rows, Row(s, i) \notin rows' PROVE Loses(t, s, i)
    <3>1. rows' = rows \ {Row(x, Of(t)) : x \in {x \in c[2] : ~Kept(t, x)}}
      BY <1>2, <2>2 DEF DropsOn
    <3>2. PICK x \in c[2] : Row(s, i) = Row(x, Of(t)) /\ ~Kept(t, x)
      BY <2>2, <3>1
    <3>3. x = s
      BY <3>2, RowStore
    <3>4. \/ Fl(job[t]) /\ AddsAhead(job'[t], s) /\ job'[t].item = job[t].item
          \/ job[t].op = "delete" /\ (s \in {"fts", "capsule"} => ~OthersAhead(job[t]))
      BY <1>2, <3>2, <3>3 DEF DropsOn, Ahead
    <3>5. job[t].op = "delete" => ~(Shared(s) /\ job[t].shared)
      BY <3>2, <3>3 DEF Kept
    <3>6. s # "hash"
      BY <1>2, <3>2, <3>3 DEF DropsOn
    <3> QED BY <3>2, <3>3, <3>4, <3>5, <3>6 DEF Loses
  <2> QED BY <2>1, <2>2
<1>3. CASE rows' = rows
  BY <1>3
<1>4. AddsOn(t) \/ DropsOn(t) \/ rows' = rows
  BY DEF Outcome, Continues, GivesUp, BumpsOn, PutsOn, TurnsTo, LooksOn, ForgetsOn, RetrievesOn,
         StoresOn, InvalidatesOn, RowsSame
<1> QED BY <1>1, <1>2, <1>3, <1>4

(* a record's id changes by a put or a removal,                            *)
LEMMA RecordsGo ==
    ASSUME TypeInv, NEW t \in Threads, Outcome(t), NEW i \in Items, record'[i].id # record[i].id
    PROVE  Records(t, i)
<1>1. CASE PutsOn(t)
  <2>1. i = Of(t) /\ RowsSame /\ (Fl(job[t]) \/ job[t].op = "mark")
    BY <1>1 DEF PutsOn
  <2>2. record[i].id \in {0, job'[t].mid} /\ job'[t].mid = record'[i].id /\ job'[t].mid # 0
    BY <1>1, <2>1 DEF PutsOn
  <2>3. \A y \in Items \ {i} : record'[y].id = record[y].id
    BY <1>1, <2>1 DEF PutsOn
  <2> QED BY <2>1, <2>2, <2>3 DEF Records, RowsSame
<1>2. CASE ForgetsOn(t)
  <2>1. /\ On(t, At(job[t])) /\ ~ForgetAhead(job'[t])
        /\ record' = [record EXCEPT ![Of(t)] = Absent]
    BY <1>2 DEF ForgetsOn
  <2>2. i = Of(t)
    BY <2>1 DEF TypeInv
  <2>3. record'[i].id = 0
    BY <2>1, <2>2 DEF TypeInv, Absent
  <2>4. \A y \in Items \ {i} : record'[y].id = record[y].id
    BY <2>1, <2>2 DEF TypeInv
  <2> QED BY <1>2, <2>1, <2>2, <2>3, <2>4 DEF ForgetsOn, Records, On, Carries, RowsSame
<1>3. IdsSame \/ record' = record \/ PutsOn(t) \/ ForgetsOn(t)
  BY DEF Outcome, Continues, GivesUp, AddsOn, DropsOn, BumpsOn, TurnsTo, LooksOn, RetrievesOn,
         StoresOn, InvalidatesOn
<1> QED BY <1>1, <1>2, <1>3 DEF IdsSame

(* a mix-up is over when its item is settled,                              *)
LEMMA MuddledGoes ==
    ASSUME NEW t, Outcome(t), NEW x \in muddled, x \notin muddled'
    PROVE  x = Of(t) /\ Settles(t)
<1>1. CASE AddsOn(t)
  <2>1. x = Of(t) /\ Fl(job[t]) /\ Lone(job[t]) /\ job'[t] = Idle /\ record' = record
    BY <1>1 DEF AddsOn
  <2>2. Ahead(job[t], Idle, At(job[t])) /\ At(job[t])[1] = "add"
    BY <1>1, <2>1 DEF AddsOn
  <2>3. ~BumpAhead(job[t]) /\ ~PutAhead(job[t])
    BY <2>2, IdleAhead DEF Ahead
  <2> QED BY <2>1, <2>3 DEF Settles
<1>2. CASE InvalidatesOn(t)
  BY <1>2 DEF InvalidatesOn, Settles
<1>3. AddsOn(t) \/ InvalidatesOn(t)
  BY DEF Outcome, Continues, GivesUp, DropsOn, BumpsOn, PutsOn, TurnsTo, LooksOn, ForgetsOn,
         RetrievesOn, StoresOn, RowsSame
<1> QED BY <1>1, <1>2, <1>3

(* and an entry of the cache changes by an invalidation, an emptying or a  *)
(* store.                                                                  *)
LEMMA CacheGoes ==
    ASSUME TypeInv, NEW t, Outcome(t), NEW u \in Users
    PROVE  \/ cache'[u] = cache[u] /\ ~(InvalidatesOn(t) /\ u = Owner[Of(t)])
           \/ cache'[u] = NoAnswer
           \/ StoresOn(t) /\ u = Asker(t)
              /\ cache'[u] = [ver |-> job[t].ver, began |-> job[t].began, ans |-> job[t].ans,
                              late |-> job[t].late]
<1>1. CASE InvalidatesOn(t)
  BY <1>1 DEF InvalidatesOn, TypeInv
<1>2. CASE StoresOn(t)
  <2>1. ~InvalidatesOn(t)
    BY <1>2 DEF StoresOn, InvalidatesOn
  <2> QED BY <1>2, <2>1 DEF StoresOn, TypeInv
<1>3. CASE ~InvalidatesOn(t) /\ (cache' = cache \/ cache' = Emptied)
  BY <1>3 DEF Emptied
<1>4. InvalidatesOn(t) \/ StoresOn(t) \/ (~InvalidatesOn(t) /\ (cache' = cache \/ cache' = Emptied))
  BY DEF Outcome, Continues, GivesUp, AddsOn, DropsOn, BumpsOn, PutsOn, TurnsTo, LooksOn, ForgetsOn,
         RetrievesOn
<1> QED BY <1>1, <1>2, <1>3, <1>4

-----------------------------------------------------------------------------
(* How a job goes on, and how it ends.                                     *)

(* How the job of a working thread ends, and how it goes on.               *)
FillEnds(t) ==
    \/ Touching(Of(t)) \subseteq muddled'
    \/ /\ IdsSame /\ ~BumpAhead(job[t]) /\ (PutAhead(job[t]) => record[Of(t)].id # 0)
       /\ \A s \in Content : AddsAhead(job[t], s) => Row(s, Of(t)) \in rows'

DeleteEnds(t) ==
    \/ Touching(Of(t)) \subseteq muddled'
    \/ InvalidatesOn(t)
    \/ /\ RowsSame /\ record' = record /\ record[Of(t)].id # job[t].mid
       /\ ForgetAhead(job[t]) /\ \A s : ~DropAhead(job[t], s)

FillGoes(t) ==
    LET j == job[t]
        k == job'[t] IN
    \/ BumpAhead(k) /\ PutAhead(k) /\ \A s \in Content : AddsAhead(k, s)
    \/ /\ Fl(j) /\ (BumpAhead(k) => BumpAhead(j))
       /\ BumpAhead(j) => BumpAhead(k) \/ sqlite \/ version' = version + 1
       /\ PutAhead(j) => PutAhead(k) \/ record'[Of(t)].id # 0
       /\ \A s \in Content : AddsAhead(j, s) => AddsAhead(k, s) \/ Row(s, Of(t)) \in rows'

MarkGoes(t) ==
    \/ job[t].op = "mark"
    \/ ~Fl(job[t]) /\ job[t].op = "ingest" /\ Has("hash", Of(t)) /\ RowsSame /\ record' = record

DeleteGoes(t) ==
    LET j == job[t]
        k == job'[t] IN
    /\ j.op = "delete" /\ k.mid = j.mid
    /\ OthersAhead(k) => OthersAhead(j)
    /\ ~OthersAhead(j) => k.shared = j.shared
    /\ OthersAhead(j) /\ ~OthersAhead(k) =>
          k.shared = SharedBy(Of(t)) /\ RowsSame /\ record' = record
    /\ ForgetAhead(k) => ForgetAhead(j)
    /\ ForgetAhead(j) /\ ~ForgetAhead(k) => record'[Of(t)].id = 0
    /\ \A s : DropAhead(j, s) =>
          \/ DropAhead(k, s) \/ Row(s, Of(t)) \notin rows'
          \/ Shared(s) /\ k.shared = TRUE /\ ~OthersAhead(k)
          \/ Touching(Of(t)) \subseteq muddled' /\ ~Lone(k)

SearchGoes(t) ==
    LET j == job[t]
        k == job'[t] IN
    /\ j.op = "search" /\ k.began = j.began /\ (j.late = TRUE => k.late = TRUE)
    /\ \/ k.ans = j.ans /\ (RetrieveAhead(j) => RetrieveAhead(k))
       \/ k.ans = Answers(t) /\ RowsSame

(* How an ingest ends:                                                     *)
LEMMA FillEndsSo ==
    ASSUME NEW t, Outcome(t), job'[t] = Idle, Fl(job[t])
    PROVE  FillEnds(t)
<1>1. job[t].op = "ingest"
  BY DEF Fl
<1>2. CASE GivesUp(t)
  BY <1>2 DEF GivesUp, FillEnds
<1>3. CASE AddsOn(t)
  <2>1. /\ Ahead(job[t], Idle, At(job[t])) /\ At(job[t])[1] = "add" /\ IdsSame
        /\ \A s \in Content : s \in At(job[t])[2] => Row(s, Of(t)) \in rows'
    BY <1>3 DEF AddsOn
  <2>2. ~BumpAhead(job[t]) /\ ~PutAhead(job[t])
    BY <2>1, IdleAhead DEF Ahead
  <2>3. \A s : AddsAhead(job[t], s) => s \in At(job[t])[2]
    BY <2>1, IdleAhead DEF Ahead
  <2> QED BY <2>1, <2>2, <2>3 DEF FillEnds
<1>4. GivesUp(t) \/ AddsOn(t)
  BY <1>1 DEF Outcome, Continues, DropsOn, BumpsOn, PutsOn, TurnsTo, LooksOn, ForgetsOn,
         RetrievesOn, StoresOn, InvalidatesOn, On
<1> QED BY <1>2, <1>3, <1>4

(* and how a deletion does.                                                *)
LEMMA DeleteEndsSo ==
    ASSUME NEW t, Outcome(t), job'[t] = Idle, job[t].op = "delete"
    PROVE  DeleteEnds(t)
<1>1. ~Fl(job[t])
  BY DEF Fl
<1>2. CASE GivesUp(t)
  BY <1>2 DEF GivesUp, DeleteEnds
<1>3. CASE ForgetsOn(t)
  BY <1>3 DEF ForgetsOn, DeleteEnds, On
<1>4. CASE InvalidatesOn(t)
  BY <1>4 DEF DeleteEnds
<1>5. GivesUp(t) \/ ForgetsOn(t) \/ InvalidatesOn(t)
  BY <1>1 DEF Outcome, Continues, AddsOn, DropsOn, BumpsOn, PutsOn, TurnsTo, LooksOn,
         RetrievesOn, StoresOn, On
<1> QED BY <1>2, <1>3, <1>4, <1>5

(* The call by which a job goes on, and whose it is. *)
StepsBy(t, c) ==
    /\ Ahead(job[t], job'[t], c)
    /\ c[1] = "add" => AddsOn(t) /\ c = At(job[t])
    /\ c[1] = "drop" => DropsOn(t) /\ c = At(job[t])
    /\ c[1] = "bump" => BumpsOn(t)
    /\ c[1] = "put" => PutsOn(t)
    /\ c[1] = "others" => LooksOn(t)
    /\ c[1] = "forget" => ForgetsOn(t)
    /\ c[1] = "retrieve" => RetrievesOn(t)

(* A job that goes on passes one call or none.                             *)
LEMMA StepsBySo ==
    ASSUME NEW t, Outcome(t), job'[t] # Idle, ~TurnsTo(t)
    PROVE  \E c : StepsBy(t, c)
<1> DEFINE c == At(job[t])
<1>1. CASE Continues(t)
  <2>1. Ahead(job[t], job'[t], NoCall) /\ NoCall[1] = "none"
    BY <1>1 DEF Continues, On, NoCall
  <2>2. StepsBy(t, NoCall)
    BY <2>1 DEF StepsBy
  <2> QED BY <2>2
<1>2. CASE AddsOn(t)
  <2>1. StepsBy(t, c)
    BY <1>2 DEF AddsOn, StepsBy
  <2> QED BY <2>1
<1>3. CASE DropsOn(t)
  <2>1. StepsBy(t, c)
    BY <1>3 DEF DropsOn, StepsBy
  <2> QED BY <2>1
<1>4. CASE BumpsOn(t)
  <2>1. StepsBy(t, c)
    BY <1>4 DEF BumpsOn, StepsBy, On
  <2> QED BY <2>1
<1>5. CASE PutsOn(t)
  <2>1. StepsBy(t, c)
    BY <1>5 DEF PutsOn, StepsBy
  <2> QED BY <2>1
<1>6. CASE LooksOn(t)
  <2>1. StepsBy(t, c)
    BY <1>6 DEF LooksOn, StepsBy
  <2> QED BY <2>1
<1>7. CASE ForgetsOn(t)
  <2>1. StepsBy(t, c)
    BY <1>7 DEF ForgetsOn, StepsBy, On
  <2> QED BY <2>1
<1>8. CASE RetrievesOn(t)
  <2>1. StepsBy(t, c)
    BY <1>8 DEF RetrievesOn, StepsBy
  <2> QED BY <2>1
<1> QED BY <1>1, <1>2, <1>3, <1>4, <1>5, <1>6, <1>7, <1>8 DEF Outcome, GivesUp, StoresOn,
                                                              InvalidatesOn

(* A job on its way keeps its item, and does not become alone.             *)
LEMMA KeepsItem ==
    ASSUME TypeInv, NEW t \in Threads, Outcome(t), job'[t] # Idle
    PROVE  /\ job'[t].item = job[t].item
           /\ job'[t].op = job[t].op \/ TurnsTo(t)
           /\ Lone(job'[t]) => Lone(job[t])
           /\ job'[t].mid = job[t].mid \/ PutsOn(t)
           /\ job'[t].shared = job[t].shared \/ LooksOn(t) \/ TurnsTo(t)
           /\ job'[t].ans = job[t].ans \/ RetrievesOn(t) \/ TurnsTo(t)
           /\ (job'[t].began = job[t].began /\ job'[t].late = job[t].late) \/ TurnsTo(t)
<1> DEFINE j == job[t]
           k == job'[t]
<1>1. j \in JobType
  BY DEF TypeInv, JobsOk
<1> HIDE DEF j, k
<1>2. CASE Carries(j, k)
  BY <1>2 DEF Lone, Carries, j, k
<1>3. CASE \E m : m # {} /\ Carries([j EXCEPT !.missed = m], k)
  <2>1. PICK m : m # {} /\ Carries([j EXCEPT !.missed = m], k)
    BY <1>3
  <2>2. k.missed = m
    BY <1>1, <2>1 DEF Carries, JobType
  <2> QED BY <1>1, <2>1, <2>2 DEF Carries, JobType, Lone, j, k
<1>4. CASE Carries([j EXCEPT !.mid = k.mid], k) /\ PutsOn(t)
  BY <1>1, <1>4 DEF Lone, Carries, JobType, j, k
<1>5. CASE Carries([j EXCEPT !.shared = SharedBy(Of(t))], k) /\ LooksOn(t)
  BY <1>1, <1>5 DEF Lone, Carries, JobType, j, k
<1>6. CASE Carries([j EXCEPT !.ans = Answers(t)], k) /\ RetrievesOn(t)
  BY <1>1, <1>6 DEF Lone, Carries, JobType, j, k
<1>7. CASE TurnsTo(t)
  BY <1>7 DEF Lone, TurnsTo, j, k
<1>8. k # Idle
  BY DEF k
<1>9. CASE Continues(t) \/ AddsOn(t) \/ DropsOn(t) \/ BumpsOn(t)
  BY <1>2, <1>3, <1>8, <1>9 DEF Continues, AddsOn, DropsOn, BumpsOn, On, j, k
<1>10. CASE PutsOn(t)
  BY <1>4, <1>10 DEF PutsOn, j, k
<1>11. CASE LooksOn(t)
  BY <1>5, <1>11 DEF LooksOn, j, k
<1>12. CASE RetrievesOn(t)
  BY <1>6, <1>12 DEF RetrievesOn, j, k
<1>13. CASE ForgetsOn(t)
  BY <1>2, <1>8, <1>13 DEF ForgetsOn, On, j, k
<1> QED BY <1>7, <1>9, <1>10, <1>11, <1>12, <1>13 DEF Outcome, GivesUp, StoresOn, InvalidatesOn

(* How an ingest goes on,                                                  *)
LEMMA FillGoesSo ==
    ASSUME TypeInv, NEW t \in Threads, Outcome(t), Fl(job'[t])
    PROVE  FillGoes(t)
<1>1. job'[t] # Idle
  BY IdleAhead
<1>2. CASE TurnsTo(t)
  <2>1. Fl(job'[t]) => job'[t].op # "mark"
    BY DEF Fl
  <2> QED BY <1>2, <2>1 DEF TurnsTo, FillGoes
<1>3. CASE ~TurnsTo(t)
  <2>1. PICK c : StepsBy(t, c)
    BY <1>1, <1>3, StepsBySo
  <2>2. Ahead(job[t], job'[t], c)
    BY <2>1 DEF StepsBy
  <2>3. Fl(job[t]) /\ (BumpAhead(job'[t]) => BumpAhead(job[t]))
    BY <1>1, <2>2 DEF Ahead
  <2>4. BumpAhead(job[t]) => BumpAhead(job'[t]) \/ sqlite \/ version' = version + 1
    <3>1. c[1] = "bump" => sqlite \/ version' = version + 1
      BY <2>1 DEF StepsBy, BumpsOn
    <3> QED BY <2>2, <3>1 DEF Ahead
  <2>5. PutAhead(job[t]) => PutAhead(job'[t]) \/ record'[Of(t)].id # 0
    <3>1. c = <<"put", "captured">> => record'[Of(t)].id # 0
      BY <2>1 DEF StepsBy, PutsOn
    <3> QED BY <2>2, <3>1 DEF Ahead
  <2>6. ASSUME NEW s \in Content, AddsAhead(job[t], s), ~AddsAhead(job'[t], s)
        PROVE  Row(s, Of(t)) \in rows'
    <3>1. c[1] = "add" /\ s \in c[2]
      BY <2>2, <2>6 DEF Ahead
    <3> QED BY <2>1, <2>6, <3>1 DEF StepsBy, AddsOn
  <2> QED BY <2>3, <2>4, <2>5, <2>6 DEF FillGoes
<1> QED BY <1>2, <1>3

(* how a mark does,                                                        *)
LEMMA MarkGoesSo ==
    ASSUME TypeInv, NEW t \in Threads, Outcome(t), job'[t].op = "mark"
    PROVE  MarkGoes(t)
<1>1. job'[t] # Idle
  BY IdleOk
<1>2. CASE TurnsTo(t)
  <2>1. Fl(job'[t]) => job'[t].op # "mark"
    BY DEF Fl
  <2> QED BY <1>2, <2>1 DEF TurnsTo, MarkGoes
<1> QED BY <1>1, <1>2, KeepsItem DEF MarkGoes

(* a search,                                                               *)
LEMMA SearchGoesSo ==
    ASSUME TypeInv, NEW t \in Threads, Outcome(t), job'[t].op = "search"
    PROVE  SearchGoes(t)
<1>1. job'[t] # Idle
  BY IdleOk
<1>2. ~TurnsTo(t)
  BY DEF TurnsTo, Fl
<1>3. /\ job[t].op = "search" /\ job'[t].began = job[t].began /\ job'[t].late = job[t].late
      /\ job'[t].ans = job[t].ans \/ RetrievesOn(t)
  BY <1>1, <1>2, KeepsItem
<1>4. CASE RetrievesOn(t)
  <2>1. RowsSame /\ Carries([job[t] EXCEPT !.ans = Answers(t)], job'[t])
    BY <1>4 DEF RetrievesOn
  <2>2. job[t] \in JobType
    BY DEF TypeInv, JobsOk
  <2>3. job'[t].ans = Answers(t)
    BY <2>1, <2>2 DEF Carries, JobType
  <2> QED BY <1>3, <2>1, <2>3 DEF SearchGoes
<1>5. CASE ~RetrievesOn(t)
  <2>1. PICK c : StepsBy(t, c)
    BY <1>1, <1>2, StepsBySo
  <2>2. RetrieveAhead(job[t]) => RetrieveAhead(job'[t])
    BY <1>5, <2>1 DEF StepsBy, Ahead
  <2> QED BY <1>3, <1>5, <2>2 DEF SearchGoes
<1> QED BY <1>4, <1>5

(* and a deletion.                                                         *)
LEMMA DeleteGoesSo ==
    ASSUME TypeInv, NEW t \in Threads, Outcome(t), job'[t].op = "delete"
    PROVE  DeleteGoes(t)
<1> DEFINE j == job[t]
           k == job'[t]
<1>1. k # Idle /\ j \in JobType
  BY IdleOk DEF TypeInv, JobsOk
<1>2. ~TurnsTo(t)
  BY DEF TurnsTo, Fl
<1>3. j.op = "delete" /\ ~PutsOn(t)
  <2>1. j.op = "delete"
    BY <1>1, <1>2, KeepsItem
  <2> QED BY <2>1 DEF PutsOn, Fl
<1>4. k.mid = j.mid /\ (k.shared = j.shared \/ LooksOn(t))
  BY <1>1, <1>2, <1>3, KeepsItem
<1>5. PICK c : StepsBy(t, c)
  BY <1>1, <1>2, StepsBySo
<1>6. Ahead(j, k, c)
  BY <1>5 DEF StepsBy
<1> HIDE DEF j, k
<1>7. OthersAhead(k) => OthersAhead(j)
  BY <1>6 DEF Ahead
<1>8. ~OthersAhead(j) => k.shared = j.shared
  BY <1>4 DEF LooksOn, j
<1>9. ASSUME OthersAhead(j), ~OthersAhead(k)
      PROVE  k.shared = SharedBy(Of(t)) /\ RowsSame /\ record' = record
  <2>1. LooksOn(t)
    BY <1>5, <1>6, <1>9 DEF Ahead, StepsBy
  <2>2. Carries([j EXCEPT !.shared = SharedBy(Of(t))], k)
    BY <2>1 DEF LooksOn, j, k
  <2>3. k.shared = SharedBy(Of(t))
    BY <1>1, <2>2 DEF Carries, JobType
  <2> QED BY <2>1, <2>3 DEF LooksOn
<1>10. ForgetAhead(k) => ForgetAhead(j)
  BY <1>6 DEF Ahead
<1>11. ASSUME ForgetAhead(j), ~ForgetAhead(k) PROVE record'[Of(t)].id = 0
  <2>1. ForgetsOn(t)
    BY <1>5, <1>6, <1>11 DEF Ahead, StepsBy
  <2>2. record' = [record EXCEPT ![Of(t)] = Absent]
    BY <1>1, <2>1 DEF ForgetsOn, k
  <2>3. Of(t) \in Items
    <3>1. JobOk(j) /\ j # Idle
      BY <1>3, IdleOk DEF TypeInv, JobsOk, j
    <3> QED BY <3>1 DEF JobOk, Busy, Of, j
  <2> QED BY <2>2, <2>3 DEF TypeInv, Absent
<1>12. ASSUME NEW s, DropAhead(j, s)
       PROVE  \/ DropAhead(k, s) \/ Row(s, Of(t)) \notin rows'
              \/ Shared(s) /\ k.shared = TRUE /\ ~OthersAhead(k)
              \/ Touching(Of(t)) \subseteq muddled' /\ ~Lone(k)
  <2> SUFFICES ASSUME ~DropAhead(k, s)
               PROVE  \/ Row(s, Of(t)) \notin rows'
                      \/ Shared(s) /\ k.shared = TRUE /\ ~OthersAhead(k)
                      \/ Touching(Of(t)) \subseteq muddled' /\ ~Lone(k)
    OBVIOUS
  <2> DEFINE a == At(job[t])
  <2>1. c[1] = "drop" /\ s \in c[2]
    BY <1>6, <1>12 DEF Ahead
  <2>2. DropsOn(t) /\ c = a
    BY <1>5, <2>1 DEF StepsBy
  <2>3. CASE /\ Carries(job[t], job'[t])
             /\ rows' = rows \ {Row(x, Of(t)) : x \in {x \in a[2] : ~Kept(t, x)}}
    <3>1. CASE ~Kept(t, s)
      BY <2>1, <2>2, <2>3, <3>1
    <3>2. CASE Kept(t, s)
      <4>1. Shared(s) /\ j.shared = TRUE
        BY <1>1, <3>2 DEF Kept, JobType, j
      <4>2. s \in {"fts", "capsule"}
        BY <2>1, <2>2, <4>1 DEF DropsOn, Shared
      <4>3. ~OthersAhead(j)
        BY <1>3, <2>1, <2>2, <4>2 DEF DropsOn, j
      <4> QED BY <1>7, <1>8, <4>1, <4>3
    <3> QED BY <3>1, <3>2
  <2>4. CASE /\ \E m : m # {} /\ Carries([job[t] EXCEPT !.missed = m], job'[t])
             /\ rows' = rows /\ muddled' = muddled \cup Touching(Of(t))
    <3>1. PICK m : m # {} /\ Carries([job[t] EXCEPT !.missed = m], job'[t])
      BY <2>4
    <3>2. ~Lone(k)
      BY <1>1, <3>1 DEF Carries, JobType, Lone, j, k
    <3> QED BY <2>4, <3>2
  <2> QED BY <2>2, <2>3, <2>4 DEF DropsOn
<1> QED BY <1>3, <1>4, <1>7, <1>8, <1>9, <1>10, <1>11, <1>12 DEF DeleteGoes, j, k

-----------------------------------------------------------------------------
(* What any step does, seen from one thread and as a whole.                *)

(* What any step does, seen from one thread: where its job comes from, and *)
(* what becomes of the job it has.                                         *)
StaysOn(x) ==
    job'[x].item = job[x].item /\ (Lone(job'[x]) => Lone(job[x]))

(* An ingest,                                                              *)
FillOn(x) ==
    LET j == job[x]
        k == job'[x] IN
    /\ Fl(j) /\ Fl(k) /\ StaysOn(x)
    /\ BumpAhead(j) => BumpAhead(k) \/ sqlite \/ version' = version + 1
    /\ PutAhead(j) => PutAhead(k) \/ record'[j.item].id # 0
    /\ \A s \in Content : AddsAhead(j, s) => AddsAhead(k, s) \/ Row(s, j.item) \in rows'

FillPast(x) ==
    Fl(job'[x]) =>
       \/ FillOn(x)
       \/ BumpAhead(job'[x]) /\ PutAhead(job'[x]) /\ \A s \in Content : AddsAhead(job'[x], s)

FillFuture(x) == Fl(job[x]) => FillOn(x) \/ (job'[x] = Idle /\ FillEnds(x))

(* a deletion that goes on,                                                *)
DeleteOn(x) == job'[x].op = "delete" /\ StaysOn(x) /\ DeleteGoes(x)

DeletePast(x) ==
    LET k == job'[x] IN
    k.op = "delete" =>
       \/ DeleteOn(x)
       \/ /\ record' = record /\ k.mid = record[k.item].id /\ OthersAhead(k) /\ ForgetAhead(k)
          /\ \A s \in Stores \ {"hash"} : DropAhead(k, s) \/ (s = "yt" /\ Source[k.item] \in Pages)

DeleteFuture(x) ==
    job[x].op = "delete" =>
       \/ DeleteOn(x)
       \/ Touching(Of(x)) \subseteq muddled'
       \/ job'[x] = Idle /\ DeleteEnds(x) /\ OthersTwin(x)

(* and where a rewrite, a mark, a review and a search come from.           *)
RewritePast(x) ==
    LET k == job'[x] IN
    k.op \in Rewrites =>
       \/ job[x].op \in Rewrites /\ StaysOn(x) /\ (k.op = "delete" <=> job[x].op = "delete")
       \/ /\ k.item \in Items /\ BeginsOn(x, k.item) /\ OthersTwin(x) /\ job[x] = Idle

MarkPast(x) ==
    LET k == job'[x] IN
    k.op = "mark" =>
       \/ job[x].op = "mark" /\ StaysOn(x)
       \/ Has("registry", k.item) \/ Has("chunks", k.item)
       \/ /\ job[x].op = "ingest" /\ StaysOn(x) /\ Has("hash", k.item) /\ RowsSame

ReviewPast(x) ==
    LET k == job'[x] IN
    k.op = "review" =>
       \/ job[x].op = "review" /\ StaysOn(x)
       \/ Has("registry", k.item) /\ record' = record /\ muddled \subseteq muddled'

SearchPast(x) ==
    LET k == job'[x] IN
    k.op = "search" =>
       \/ StaysOn(x) /\ SearchGoes(x)
       \/ k.ans = {} /\ k.began = version /\ version' = version /\ RetrieveAhead(k)

ThreadFacts(x) ==
    /\ FillPast(x) /\ FillFuture(x) /\ DeletePast(x) /\ DeleteFuture(x)
    /\ RewritePast(x) /\ MarkPast(x) /\ ReviewPast(x) /\ SearchPast(x)

(* The facts of a thread hold when it stands still,                        *)
LEMMA TwinFacts ==
    ASSUME NEW x, Twin(job[x], job'[x])
    PROVE  ThreadFacts(x)
<1>1. StaysOn(x)
  BY DEF Twin, StaysOn
<1>2. Fl(job[x]) \/ Fl(job'[x]) => FillOn(x)
  BY <1>1 DEF Twin, FillOn
<1>3. FillPast(x) /\ FillFuture(x)
  BY <1>2 DEF FillPast, FillFuture
<1>4. job[x].op = "delete" \/ job'[x].op = "delete" => DeleteGoes(x) /\ job'[x].op = "delete"
  BY DEF Twin, DeleteGoes
<1>5. DeletePast(x) /\ DeleteFuture(x)
  BY <1>1, <1>4 DEF DeletePast, DeleteFuture, DeleteOn
<1>6. RewritePast(x) /\ MarkPast(x) /\ ReviewPast(x)
  BY <1>1 DEF Twin, RewritePast, MarkPast, ReviewPast
<1>7. SearchPast(x)
  BY <1>1 DEF Twin, SearchPast, SearchGoes
<1> QED BY <1>3, <1>5, <1>6, <1>7 DEF ThreadFacts

(* when it works,                                                          *)
LEMMA WorkFacts ==
    ASSUME TypeInv, NEW t \in Threads, Outcome(t), job[t] # Idle
    PROVE  ThreadFacts(t)
<1> DEFINE j == job[t]
           k == job'[t]
<1>1. job'[t] # Idle => StaysOn(t) /\ (job'[t].op = job[t].op \/ TurnsTo(t))
  BY KeepsItem DEF StaysOn
<1>2. Of(t) = job[t].item
  BY DEF Of
<1>3. FillPast(t)
  <2> SUFFICES ASSUME Fl(job'[t])
               PROVE FillOn(t) \/ (BumpAhead(job'[t]) /\ PutAhead(job'[t]) /\ \A s \in Content : AddsAhead(job'[t], s))
    BY DEF FillPast
  <2>1. job'[t] # Idle
    BY IdleAhead
  <2>2. FillGoes(t)
    BY FillGoesSo
  <2> QED BY <1>1, <1>2, <2>1, <2>2 DEF FillGoes, FillOn
<1>4. FillFuture(t)
  <2> SUFFICES ASSUME Fl(job[t]), job'[t] # Idle PROVE FillOn(t)
    BY FillEndsSo DEF FillFuture
  <2>1. ~TurnsTo(t)
    BY DEF TurnsTo
  <2>2. PICK c : StepsBy(t, c)
    BY <2>1, StepsBySo
  <2>3. Fl(job'[t])
    BY <2>2 DEF StepsBy, Ahead
  <2>4. FillGoes(t)
    BY <2>3, FillGoesSo
  <2>5. CASE BumpAhead(job'[t]) /\ PutAhead(job'[t]) /\ \A s \in Content : AddsAhead(job'[t], s)
    BY <1>1, <2>3, <2>5 DEF FillOn
  <2> QED BY <1>1, <1>2, <2>3, <2>4, <2>5 DEF FillGoes, FillOn
<1>5. DeletePast(t)
  BY <1>1, DeleteGoesSo, IdleOk DEF DeletePast, DeleteOn
<1>6. DeleteFuture(t)
  <2> SUFFICES ASSUME job[t].op = "delete"
               PROVE  DeleteOn(t) \/ (job'[t] = Idle /\ DeleteEnds(t) /\ OthersTwin(t))
    BY DEF DeleteFuture
  <2>1. OthersTwin(t)
    BY WorkTwins
  <2>2. CASE job'[t] = Idle
    BY <2>1, <2>2, DeleteEndsSo
  <2>3. CASE job'[t] # Idle
    <3>1. job'[t].op = "delete"
      BY <1>1, <2>3 DEF TurnsTo
    <3> QED BY <1>1, <2>3, <3>1, DeleteGoesSo DEF DeleteOn
  <2> QED BY <2>2, <2>3
<1>7. RewritePast(t)
  <2>1. TurnsTo(t) => job[t].op = "ingest" /\ job'[t].op # "delete"
    BY DEF TurnsTo, Fl
  <2>2. job'[t].op \in Rewrites => job'[t] # Idle
    BY IdleOk DEF Rewrites
  <2> QED BY <1>1, <2>1, <2>2 DEF RewritePast, Rewrites
<1>8. MarkPast(t)
  <2> SUFFICES ASSUME job'[t].op = "mark"
               PROVE  \/ job[t].op = "mark" /\ StaysOn(t)
                      \/ job[t].op = "ingest" /\ StaysOn(t) /\ Has("hash", job'[t].item) /\ RowsSame
    BY DEF MarkPast
  <2>1. job'[t] # Idle
    BY IdleOk
  <2>2. MarkGoes(t)
    BY MarkGoesSo
  <2> QED BY <1>1, <1>2, <2>1, <2>2 DEF MarkGoes, StaysOn
<1>9. ReviewPast(t)
  <2> SUFFICES ASSUME job'[t].op = "review" PROVE job[t].op = "review" /\ StaysOn(t)
    BY DEF ReviewPast
  <2>1. job'[t] # Idle /\ ~TurnsTo(t)
    BY IdleOk DEF TurnsTo, Fl
  <2> QED BY <1>1, <2>1
<1>10. SearchPast(t)
  <2>1. job'[t].op = "search" => job'[t] # Idle
    BY IdleOk
  <2> QED BY <1>1, <2>1, SearchGoesSo DEF SearchPast
<1> QED BY <1>3, <1>4, <1>5, <1>6, <1>7, <1>8, <1>9, <1>10 DEF ThreadFacts

(* when it begins,                                                         *)
LEMMA BeginningFacts ==
    ASSUME TypeInv, NEW t \in Threads, Beginning(t)
    PROVE  ThreadFacts(t)
<1> DEFINE j == job[t]
           k == job'[t]
<1>1. job[t] = Idle /\ ~Fl(job[t]) /\ job[t].op = "idle"
  BY IdleOk, IdleAhead DEF Beginning
<1>2. FillFuture(t) /\ DeleteFuture(t)
  BY <1>1 DEF FillFuture, DeleteFuture
<1>3. CASE BeginsAside(t)
  <2>1. k.op \in {"state", "search"}
    BY <1>3 DEF BeginsAside
  <2>2. FillPast(t) /\ DeletePast(t) /\ RewritePast(t) /\ MarkPast(t) /\ ReviewPast(t)
    BY <2>1 DEF FillPast, DeletePast, RewritePast, MarkPast, ReviewPast, Rewrites, Fl
  <2>3. SearchPast(t)
    BY <1>3 DEF SearchPast, BeginsAside, Beginning
  <2> QED BY <1>2, <2>2, <2>3 DEF ThreadFacts
<1>4. ASSUME NEW i \in Items, BeginsOn(t, i) PROVE ThreadFacts(t)
  <2>1. Ready(k, i) /\ k.item = i /\ k.op \in Rewrites
    BY <1>4 DEF BeginsOn, Ready
  <2>2. FillPast(t)
    BY <2>1 DEF FillPast, Ready
  <2>3. record' = record
    BY DEF Beginning
  <2>4. DeletePast(t)
    BY <2>1, <2>3 DEF DeletePast, Ready
  <2>5. RewritePast(t)
    BY <1>1, <1>4, <2>1 DEF RewritePast, Beginning
  <2>6. MarkPast(t)
    BY <2>1 DEF MarkPast, Ready
  <2>7. muddled \subseteq muddled'
    BY <1>4 DEF BeginsOn, MixUp
  <2>8. ReviewPast(t)
    BY <2>1, <2>3, <2>7 DEF ReviewPast, Ready
  <2>9. SearchPast(t)
    BY <2>1 DEF SearchPast, Rewrites
  <2> QED BY <1>2, <2>2, <2>4, <2>5, <2>6, <2>8, <2>9 DEF ThreadFacts
<1> QED BY <1>3, <1>4 DEF Beginning

(* and when the server stops.                                              *)
LEMMA CrashFacts ==
    ASSUME TypeInv, Crash, NEW x \in Threads
    PROVE  ThreadFacts(x)
<1>1. job'[x] = Idle
  BY DEF Crash
<1>2. job'[x].op = "idle" /\ ~Fl(job'[x])
  BY <1>1, IdleOk, IdleAhead
<1>3. Rewriting(x) => Touching(Of(x)) \subseteq muddled'
  BY DEF Crash
<1>4. Fl(job[x]) \/ job[x].op = "delete" => Rewriting(x)
  BY DEF Fl, Rewriting
<1>5. FillFuture(x) /\ DeleteFuture(x)
  BY <1>1, <1>3, <1>4 DEF FillFuture, FillEnds, DeleteFuture
<1>6. /\ FillPast(x) /\ DeletePast(x) /\ RewritePast(x) /\ MarkPast(x) /\ ReviewPast(x)
      /\ SearchPast(x)
  BY <1>2 DEF FillPast, DeletePast, RewritePast, MarkPast, ReviewPast, SearchPast, Rewrites
<1> QED BY <1>5, <1>6 DEF ThreadFacts

(* What any step does to the stores, the records and the versions.         *)
RowFacts(s, i) ==
    /\ Row(s, i) \in rows' /\ Row(s, i) \notin rows =>
          \E t \in Threads : \/ Gains(t, s, i)
                             \/ s = "yt" /\ BeginsOn(t, i) /\ OthersTwin(t) /\ job'[t].op = "ingest"
    /\ Row(s, i) \in rows /\ Row(s, i) \notin rows' => \E t \in Threads : Loses(t, s, i)

RecordFacts(i) == record'[i].id # record[i].id => \E t \in Threads : Records(t, i)

MuddledFacts(i) ==
    i \in muddled /\ i \notin muddled' =>
       \E t \in Threads : i = Of(t) /\ Settles(t) /\ OthersTwin(t)

CacheFacts(u) ==
    \/ cache'[u] = cache[u]
    \/ cache'[u] = NoAnswer
    \/ \E t \in Threads : /\ StoresOn(t) /\ u = Asker(t)
                          /\ cache'[u] = [ver |-> job[t].ver, began |-> job[t].began,
                                          ans |-> job[t].ans, late |-> job[t].late]

VersionFacts == sqlite \/ version' = version \/ version' = version + 1

(* All that is said of a step.                                             *)
StepFacts ==
    /\ sqlite' = sqlite /\ VersionFacts
    /\ \A x \in Threads : ThreadFacts(x)
    /\ \A s, i : i \in Items => RowFacts(s, i)
    /\ \A i \in Items : RecordFacts(i) /\ MuddledFacts(i)
    /\ \A u \in Users : CacheFacts(u)

(* The facts of a step hold when a thread works,                           *)
LEMMA WorkStep ==
    ASSUME TypeInv, IdsInv, NEW t \in Threads, Works(t)
    PROVE  StepFacts
<1>1. Outcome(t)
  BY WorkOutcome
<1>2. job[t] # Idle /\ sqlite' = sqlite
  BY WorkIs DEF Worked
<1>3. OthersTwin(t)
  BY <1>1, WorkTwins
<1>4. ASSUME NEW x \in Threads PROVE ThreadFacts(x)
  <2>1. CASE x = t
    BY <1>1, <1>2, <2>1, WorkFacts
  <2>2. CASE x # t
    BY <1>3, <2>2, TwinFacts DEF OthersTwin
  <2> QED BY <2>1, <2>2
<1>5. ASSUME NEW s, NEW i \in Items PROVE RowFacts(s, i)
  BY <1>1, RowsGo DEF RowFacts
<1>6. ASSUME NEW i \in Items PROVE RecordFacts(i)
  BY <1>1, RecordsGo DEF RecordFacts
<1>7. ASSUME NEW i \in Items PROVE MuddledFacts(i)
  BY <1>1, <1>3, MuddledGoes DEF MuddledFacts
<1>8. ASSUME NEW u \in Users PROVE CacheFacts(u)
  BY <1>1, CacheGoes DEF CacheFacts
<1>9. VersionFacts
  BY <1>1 DEF VersionFacts, Outcome, Continues, GivesUp, AddsOn, DropsOn, BumpsOn, PutsOn, TurnsTo,
              LooksOn, ForgetsOn, RetrievesOn, StoresOn, InvalidatesOn
<1> QED BY <1>2, <1>4, <1>5, <1>6, <1>7, <1>8, <1>9 DEF StepFacts

(* when one begins,                                                        *)
LEMMA BeginningStep ==
    ASSUME TypeInv, NEW t \in Threads, Beginning(t)
    PROVE  StepFacts
<1>1. /\ OthersTwin(t) /\ sqlite' = sqlite /\ record' = record /\ version' = version
      /\ cache' = cache
      /\ BeginsAside(t) \/ \E i \in Items : BeginsOn(t, i)
  BY DEF Beginning
<1>2. ASSUME NEW x \in Threads PROVE ThreadFacts(x)
  <2>1. CASE x = t
    BY <2>1, BeginningFacts
  <2>2. CASE x # t
    BY <1>1, <2>2, TwinFacts DEF OthersTwin
  <2> QED BY <2>1, <2>2
<1>3. ASSUME NEW s, NEW i \in Items PROVE RowFacts(s, i)
  <2>1. CASE rows' = rows
    BY <2>1 DEF RowFacts
  <2>2. CASE rows' # rows
    <3>1. PICK y \in Items : BeginsOn(t, y)
      BY <1>1, <2>2 DEF BeginsAside, RowsSame
    <3>2. job'[t].op = "ingest" /\ rows' = rows \cup {Row("yt", y)}
      BY <2>2, <3>1 DEF BeginsOn
    <3>3. ASSUME Row(s, i) = Row("yt", y) PROVE s = "yt" /\ i = y
      BY <3>3 DEF Row, Shared
    <3> QED BY <1>1, <3>1, <3>2, <3>3 DEF RowFacts
  <2> QED BY <2>1, <2>2
<1>4. ASSUME NEW i \in Items PROVE RecordFacts(i)
  BY <1>1 DEF RecordFacts
<1>5. ASSUME NEW i \in Items PROVE MuddledFacts(i)
  BY <1>1 DEF MuddledFacts, BeginsAside, RowsSame, BeginsOn, MixUp
<1>6. ASSUME NEW u \in Users PROVE CacheFacts(u)
  BY <1>1 DEF CacheFacts
<1> QED BY <1>1, <1>2, <1>3, <1>4, <1>5, <1>6 DEF StepFacts, VersionFacts

(* when the server stops,                                                  *)
LEMMA CrashStep ==
    ASSUME TypeInv, Crash
    PROVE  StepFacts
<1>1. /\ sqlite' = sqlite /\ record' = record /\ version' = version /\ cache' = cache
      /\ rows' = rows
      /\ muddled \subseteq muddled'
  BY DEF Crash
<1>2. \A x \in Threads : ThreadFacts(x)
  BY CrashFacts
<1>3. \A s, i : i \in Items => RowFacts(s, i)
  BY <1>1 DEF RowFacts
<1>4. \A i \in Items : RecordFacts(i) /\ MuddledFacts(i)
  BY <1>1 DEF RecordFacts, MuddledFacts
<1>5. \A u \in Users : CacheFacts(u)
  BY <1>1 DEF CacheFacts
<1> QED BY <1>1, <1>2, <1>3, <1>4, <1>5 DEF StepFacts, VersionFacts

(* and so of every step.                                                   *)
LEMMA NextFacts ==
    ASSUME TypeInv, IdsInv, [Next]_vars
    PROVE  StepFacts
<1>1. CASE UNCHANGED vars
  <2>1. /\ sqlite' = sqlite /\ record' = record /\ version' = version /\ cache' = cache
        /\ rows' = rows
        /\ muddled' = muddled /\ job' = job
    BY <1>1 DEF vars, recordVars, storeVars
  <2>2. ASSUME NEW x \in Threads PROVE ThreadFacts(x)
    <3>1. Twin(job[x], job'[x])
      BY <2>1, FlagTwin DEF TypeInv, JobsOk
    <3> QED BY <3>1, TwinFacts
  <2>3. \A s, i : i \in Items => RowFacts(s, i)
    BY <2>1 DEF RowFacts
  <2>4. \A i \in Items : RecordFacts(i) /\ MuddledFacts(i)
    BY <2>1 DEF RecordFacts, MuddledFacts
  <2>5. \A u \in Users : CacheFacts(u)
    BY <2>1 DEF CacheFacts
  <2> QED BY <2>1, <2>2, <2>3, <2>4, <2>5 DEF StepFacts, VersionFacts
<1>2. CASE Crash
  BY <1>2, CrashStep
<1>3. ASSUME NEW t \in Threads, UserRequest(t) \/ IngestRequest(t)
      PROVE  StepFacts
  BY <1>3, IngestBegins, UserBegins, BeginningStep DEF IdsInv
<1>4. ASSUME NEW t \in Threads, Works(t)
      PROVE  StepFacts
  BY <1>4, WorkStep
<1> QED BY <1>1, <1>2, <1>3, <1>4 DEF Next, Works

(* IdsInv holds at the start,                                              *)
LEMMA IdsInit == Init => IdsInv
<1> SUFFICES ASSUME Init PROVE IdsInv
  OBVIOUS
<1>1. PICK saved \in Starts : RecordsInit(saved)
  BY DEF Init
<1>2. RecordIds
  BY <1>1 DEF RecordIds, RecordsInit, Absent
<1>3. ASSUME NEW t \in Threads PROVE ~KnowsId(job[t])
  <2>1. job[t] = Idle
    BY <1>1 DEF RecordsInit
  <2> QED BY <2>1, IdleOk, IdleAhead DEF KnowsId
<1> QED BY <1>2, <1>3 DEF IdsInv

(* is kept by the work of a thread,                                        *)
LEMMA IdsWork ==
    ASSUME TypeInv, IdsInv, NEW t \in Threads, Outcome(t)
    PROVE  IdsInv'
<1>1. RecordIds'
  <2>1. CASE record' = record
    BY <2>1 DEF IdsInv, RecordIds
  <2>2. CASE IdsSame
    BY <2>2 DEF IdsSame, IdsInv, RecordIds
  <2>3. CASE PutsOn(t)
    BY <2>3 DEF PutsOn, IdsInv, RecordIds
  <2>4. CASE record' = [record EXCEPT ![Of(t)] = Absent]
    BY <2>4 DEF IdsInv, RecordIds, TypeInv
  <2>5. record' = record \/ IdsSame \/ PutsOn(t) \/ record' = [record EXCEPT ![Of(t)] = Absent]
    BY DEF Outcome, Continues, GivesUp, AddsOn, DropsOn, BumpsOn, TurnsTo, LooksOn, ForgetsOn,
           RetrievesOn, StoresOn, InvalidatesOn
  <2> QED BY <2>1, <2>2, <2>3, <2>4, <2>5
<1>2. ASSUME NEW x \in Threads, KnowsId(job'[x]) PROVE job'[x].mid # 0
  <2>1. CASE x # t
    <3>1. Twin(job[x], job'[x])
      BY <2>1, WorkTwins DEF OthersTwin
    <3>2. KnowsId(job[x]) /\ job'[x].mid = job[x].mid
      BY <1>2, <3>1 DEF Twin, KnowsId
    <3> QED BY <3>2 DEF IdsInv
  <2>2. CASE x = t
    <3>1. job'[t] # Idle
      BY <1>2, <2>2, IdleOk, IdleAhead DEF KnowsId
    <3>2. ~TurnsTo(t)
      BY <1>2, <2>2 DEF KnowsId, TurnsTo, Fl
    <3>3. job'[t].op = job[t].op /\ (job'[t].mid = job[t].mid \/ PutsOn(t))
      BY <3>1, <3>2, KeepsItem
    <3>4. CASE PutsOn(t)
      BY <2>2, <3>4 DEF PutsOn
    <3>5. CASE ~PutsOn(t)
      <4>1. PICK c : StepsBy(t, c)
        BY <3>1, <3>2, StepsBySo
      <4>2. Ahead(job[t], job'[t], c) /\ (c = <<"put", "captured">> => c[1] = "put")
        BY <4>1 DEF StepsBy
      <4>3. (Fl(job'[t]) => Fl(job[t])) /\ (PutAhead(job[t]) => PutAhead(job'[t]))
        BY <3>1, <3>5, <4>1, <4>2 DEF Ahead, StepsBy
      <4>4. KnowsId(job[t])
        BY <1>2, <2>2, <3>3, <4>3 DEF KnowsId
      <4> QED BY <2>2, <3>3, <3>5, <4>4 DEF IdsInv
    <3> QED BY <3>4, <3>5
  <2> QED BY <2>1, <2>2
<1> QED BY <1>1, <1>2 DEF IdsInv

(* and by every step.                                                      *)
LEMMA IdsStep ==
    ASSUME TypeInv, IdsInv, [Next]_vars
    PROVE  IdsInv'
<1>1. CASE UNCHANGED vars
  <2>1. record' = record /\ job' = job
    BY <1>1 DEF vars, recordVars
  <2>2. RecordIds'
    BY <2>1 DEF IdsInv, RecordIds
  <2>3. \A x \in Threads : KnowsId(job'[x]) => job'[x].mid # 0
    BY <2>1 DEF IdsInv
  <2> QED BY <2>2, <2>3 DEF IdsInv
<1>2. CASE Crash
  <2>1. record' = record /\ \A x \in Threads : job'[x] = Idle
    BY <1>2 DEF Crash
  <2>2. RecordIds'
    BY <2>1 DEF IdsInv, RecordIds
  <2>3. ~KnowsId(Idle)
    BY IdleOk, IdleAhead DEF KnowsId
  <2> QED BY <2>1, <2>2, <2>3 DEF IdsInv
<1>3. ASSUME NEW t \in Threads, UserRequest(t) \/ IngestRequest(t)
      PROVE  IdsInv'
  <2>1. Beginning(t)
    BY <1>3, IngestBegins, UserBegins DEF IdsInv
  <2>2. RecordIds'
    BY <2>1 DEF Beginning, IdsInv, RecordIds
  <2>3. ASSUME NEW x \in Threads, KnowsId(job'[x]) PROVE job'[x].mid # 0
    <3>1. CASE x # t
      <4>1. Twin(job[x], job'[x])
        BY <2>1, <3>1 DEF Beginning, OthersTwin
      <4>2. KnowsId(job[x]) /\ job'[x].mid = job[x].mid
        BY <2>3, <4>1 DEF Twin, KnowsId
      <4> QED BY <4>2 DEF IdsInv
    <3>2. CASE x = t
      <4>1. ~\E i \in Items : BeginsOn(t, i)
        BY <2>3, <3>2 DEF BeginsOn, Ready
      <4> QED BY <2>1, <2>3, <3>2, <4>1 DEF Beginning, BeginsAside, KnowsId, Fl
    <3> QED BY <3>1, <3>2
  <2> QED BY <2>2, <2>3 DEF IdsInv
<1>4. ASSUME NEW t \in Threads, Works(t)
      PROVE  IdsInv'
  BY <1>4, WorkOutcome, IdsWork
<1> QED BY <1>1, <1>2, <1>3, <1>4 DEF Next, Works

-----------------------------------------------------------------------------
(* Rewrites beside each other, and in order.                               *)

(* Deletions beside other rewrites, and rewrites in order.                 *)
BesideInv ==
    \A t \in Threads : job[t].op = "delete" => \A u \in Beside(t, Of(t)) :
       (job[u].op = "delete" /\ Of(u) = Of(t)) \/ Touching(Of(t)) \subseteq muddled

(* A rewrite that was never beside another that mixed up its item.         *)
InOrder(t) == Lone(job[t]) \/ Of(t) \notin muddled

(* What the invariants of the rewrites in order rest on.                   *)
MixInv == OwnInv /\ IdsInv /\ BesideInv

(* Which items share rows does not change.                                 *)
LEMMA SamePlaces ==
    ASSUME sqlite' = sqlite
    PROVE  /\ \A i : Touching(i)' = Touching(i)
           /\ \A s, i : Row(s, i)' = Row(s, i)
           /\ \A s : Shared(s)' <=> Shared(s)
           /\ \A s, i : Has(s, i)' <=> Row(s, i) \in rows'
BY DEF Touching, Row, Shared, Has

(* Sharing rows goes both ways, and further.                               *)
LEMMA TouchesBack ==
    ASSUME NEW i \in Items, NEW j, j \in Touching(i)
    PROVE  /\ j \in Items /\ i \in Touching(j) /\ i \in Touching(i)
           /\ \A k \in Touching(j) : k \in Touching(i)
<1>1. j \in Items /\ i \in Touching(i)
  BY DEF Touching
<1>2. j = i \/ (sqlite /\ Source[j] = Source[i])
  BY DEF Touching
<1>3. i \in Touching(j)
  BY <1>1, <1>2 DEF Touching
<1>4. \A k : k \in Touching(j) => k \in Touching(i)
  BY <1>1, <1>2 DEF Touching
<1> QED BY <1>1, <1>3, <1>4

(* Items with a row in common share rows;                                  *)
LEMMA RowTouches ==
    ASSUME NEW i \in Items, NEW j \in Items, NEW s, Row(s, i) = Row(s, j)
    PROVE  j \in Touching(i) /\ i \in Touching(j) /\ (s \notin {"capsule", "fts", "hash"} => i = j)
BY DEF Touching, Row, Shared

(* those that share rows have the shared ones in common.                   *)
LEMMA SharedRow ==
    ASSUME NEW i \in Items, NEW j, j \in Touching(i), NEW s \in {"capsule", "fts", "hash"}
    PROVE  Row(s, j) = Row(s, i)
BY DEF Touching, Row, Shared

(* The threads that rewrite, by their operation.                           *)
LEMMA Rewrite ==
    ASSUME NEW t
    PROVE  /\ Rewriting(t) <=> job[t].op \in Rewrites
           /\ Fl(job[t]) => Rewriting(t) /\ job[t].op = "ingest"
           /\ job[t].op \in {"delete", "mark", "review", "ingest"} => Rewriting(t)
BY DEF Rewriting, Rewrites, Fl

(* The item of a thread at work.                                           *)
LEMMA AtWork ==
    ASSUME TypeInv, NEW t \in Threads, job[t].op # "idle"
    PROVE  Of(t) \in Items /\ job[t].item \in Items /\ Of(t) = job[t].item /\ Of(t) \in Touching(Of(t))
<1>1. job[t] # Idle /\ JobOk(job[t])
  BY IdleOk DEF TypeInv, JobsOk
<1> QED BY <1>1 DEF JobOk, Busy, Of, Touching

(* Neither of two rewrites beside each other is alone.                     *)
LEMMA Alone ==
    ASSUME TypeInv, AloneInv, NEW t \in Threads, Rewriting(t), NEW u \in Threads \ {t},
           Rewriting(u),
           Of(u) \in Touching(Of(t))
    PROVE  ~Lone(job[t]) /\ ~Lone(job[u])
<1>1. u \in Beside(t, Of(t))
  BY DEF Beside
<1>2. t \in Beside(u, Of(u))
  BY <1>1, BesideIs
<1> QED BY <1>1, <1>2 DEF AloneInv, Lone

(* A deletion beside another's rewrite: all they share is mixed up.        *)
LEMMA Apart ==
    ASSUME MixInv, NEW t \in Threads, job[t].op = "delete", NEW u \in Threads \ {t}, Rewriting(u),
           Of(u) \in Touching(Of(t)), job[u].op # "delete" \/ Of(u) # Of(t)
    PROVE  /\ Touching(Of(t)) \subseteq muddled /\ Of(u) \in muddled /\ Of(t) \in muddled
           /\ ~InOrder(t) /\ ~InOrder(u)
<1>1. TypeInv /\ AloneInv /\ Rewriting(t)
  BY Rewrite DEF MixInv, OwnInv
<1>2. ~Lone(job[t]) /\ ~Lone(job[u])
  BY <1>1, Alone
<1>3. u \in Beside(t, Of(t))
  BY DEF Beside
<1>4. Touching(Of(t)) \subseteq muddled
  BY <1>3 DEF MixInv, BesideInv
<1>5. Of(t) \in Touching(Of(t))
  BY <1>1, AtWork
<1> QED BY <1>2, <1>4, <1>5 DEF InOrder

(* Only an ingest or a deletion that was alone settles an item,            *)
LEMMA SettlesIs ==
    ASSUME NEW t, Settles(t)
    PROVE  /\ Rewriting(t) /\ Lone(job[t]) /\ job'[t] = Idle /\ record' = record /\ InOrder(t)
           /\ Fl(job[t]) \/ (job[t].op = "delete" /\ InvalidatesOn(t))
BY Rewrite DEF Settles, InOrder, InvalidatesOn

(* and what is settled leaves no other rewrite beside it.                  *)
LEMMA SettlesAlone ==
    ASSUME TypeInv, AloneInv, NEW t \in Threads, Settles(t), OthersTwin(t),
           NEW x \in Threads, job'[x].op \in Rewrites
    PROVE  job'[x].item \notin Touching(Of(t)) /\ Of(t) \notin Touching(job'[x].item)
<1>1. x # t
  BY SettlesIs, IdleOk DEF Rewrites
<1>2. Rewriting(x) /\ Of(x) = job'[x].item
  BY <1>1, Rewrite DEF OthersTwin, Twin, Of
<1>3. Of(x) \notin Touching(Of(t))
  BY <1>1, <1>2, SettlesIs, Alone
<1>4. Rewriting(t)
  BY SettlesIs
<1>5. Of(t) \in Items /\ Of(x) \in Items
  BY <1>1, <1>2, <1>4, BesideIs
<1> QED BY <1>2, <1>3, <1>5, TouchesBack

(* A rewrite that is in order after a step was so before it.               *)
LEMMA OrderKept ==
    ASSUME TypeInv, AloneInv, StepFacts, NEW x \in Threads, job'[x].op \in Rewrites, Rewriting(x),
           StaysOn(x),
           InOrder(x)'
    PROVE  InOrder(x)
<1>1. Of(x) = job'[x].item /\ Of(x) \in Items /\ Of(x) \in Touching(Of(x))
  <2>1. job[x].op # "idle"
    BY DEF Rewriting
  <2> QED BY <2>1, AtWork DEF StaysOn
<1>2. CASE Lone(job'[x])
  BY <1>2 DEF StaysOn, InOrder
<1>3. CASE Of(x) \notin muddled' /\ Of(x) \in muddled
  <2>1. PICK t \in Threads : Of(x) = Of(t) /\ Settles(t) /\ OthersTwin(t)
    BY <1>1, <1>3 DEF StepFacts, MuddledFacts
  <2> QED BY <1>1, <2>1, SettlesAlone
<1> QED BY <1>1, <1>2, <1>3 DEF InOrder, Of

(* BesideInv holds at the start,                                           *)
LEMMA BesideInit == Init => BesideInv
<1> SUFFICES ASSUME Init, NEW t \in Threads PROVE job[t].op # "delete"
  BY DEF BesideInv
<1>1. job[t] = Idle
  BY DEF Init, RecordsInit
<1> QED BY <1>1, IdleOk

(* and is kept by every step.                                              *)
LEMMA BesideStep ==
    ASSUME MixInv, OwnInv', StepFacts
    PROVE  BesideInv'
<1>0. TypeInv /\ AloneInv /\ TypeInv' /\ sqlite' = sqlite
  BY DEF MixInv, OwnInv, StepFacts
<1> SUFFICES ASSUME NEW t \in Threads, job'[t].op = "delete",
                    NEW u \in Threads \ {t}, job'[u].op \in Rewrites,
                    job'[u].item \in Touching(job'[t].item),
                    ~(job'[u].op = "delete" /\ job'[u].item = job'[t].item)
             PROVE  Touching(job'[t].item) \subseteq muddled'
  BY <1>0, SamePlaces DEF BesideInv, Beside, Rewriting, Rewrites, Of
<1> DEFINE i == job'[t].item
           y == job'[u].item
<1>1. i \in Items /\ y \in Items /\ Rewriting(t)' /\ Rewriting(u)'
  <2>1. job'[t] # Idle /\ job'[u] # Idle
    BY IdleOk DEF Rewrites
  <2> QED BY <1>0, <2>1 DEF TypeInv, JobsOk, JobOk, Busy, Rewriting, Rewrites
<1>2. RewritePast(t) /\ RewritePast(u) /\ job'[t].op \in Rewrites
  BY DEF StepFacts, ThreadFacts, Rewrites
<1>3. i \in Touching(y) /\ Touching(i) = Touching(y)
  BY <1>1 DEF Touching
<1>4. CASE BeginsOn(t, i) /\ OthersTwin(t)
  <2>1. Rewriting(u) /\ Of(u) = y /\ job[u].op = job'[u].op
    BY <1>4, Rewrite DEF OthersTwin, Twin, Of
  <2>2. u \in Beside(t, i)
    BY <2>1 DEF Beside
  <2>3. muddled' = MixUp(t, "delete", i)
    BY <1>4 DEF BeginsOn
  <2> QED BY <2>1, <2>2, <2>3 DEF MixUp
<1>5. CASE BeginsOn(u, y) /\ OthersTwin(u)
  <2>1. Rewriting(t) /\ Of(t) = i /\ job[t].op = "delete"
    BY <1>5, Rewrite DEF OthersTwin, Twin, Of
  <2>2. t \in Beside(u, y)
    BY <1>3, <2>1 DEF Beside
  <2>3. muddled' = MixUp(u, job'[u].op, y)
    BY <1>5 DEF BeginsOn
  <2>4. Touching(y) \subseteq muddled'
    BY <2>1, <2>2, <2>3 DEF MixUp
  <2> QED BY <1>3, <2>4
<1>6. CASE /\ job[t].op \in Rewrites /\ StaysOn(t) /\ job[t].op = "delete"
           /\ job[u].op \in Rewrites /\ StaysOn(u)
           /\ (job'[u].op = "delete" <=> job[u].op = "delete")
  <2>1. Of(t) = i /\ Of(u) = y /\ Rewriting(u)
    BY <1>6, Rewrite DEF StaysOn, Of
  <2>2. Touching(i) \subseteq muddled
    BY <1>6, <2>1, Apart
  <2>3. ASSUME NEW z \in Touching(i), z \notin muddled' PROVE FALSE
    <3>1. z \in Items /\ i \in Touching(z)
      BY <1>1, TouchesBack
    <3>2. PICK v \in Threads : z = Of(v) /\ Settles(v) /\ OthersTwin(v)
      BY <2>2, <2>3, <3>1 DEF StepFacts, MuddledFacts
    <3> QED BY <1>0, <1>2, <3>1, <3>2, SettlesAlone
  <2> QED BY <2>3
<1> QED BY <1>2, <1>4, <1>5, <1>6 DEF RewritePast

(* A row that is there, or is still to be added.                           *)
Sound(s, i) ==
    Has(s, i) \/ \E u \in Threads : AddsAhead(job[u], s) /\ Row(s, Of(u)) = Row(s, i)

(* An ingest in order: its content is there or on its way,                 *)
FilledInv ==
    \A t \in Threads : Fl(job[t]) /\ InOrder(t) => \A s \in Content : Sound(s, Of(t))

(* and after it put the record the record is there.                        *)
RecordedInv ==
    \A t \in Threads : Fl(job[t]) /\ InOrder(t) /\ ~PutAhead(job[t]) => record[Of(t)].id # 0

(* A deletion in order: no other record than the one it read is there,     *)
MidInv ==
    \A t \in Threads : job[t].op = "delete" /\ InOrder(t) => record[Of(t)].id \in {0, job[t].mid}

(* none after it removed it,                                               *)
ForgottenInv ==
    \A t \in Threads : job[t].op = "delete" /\ InOrder(t) /\ ~ForgetAhead(job[t]) => record[Of(t)].id = 0

(* and no row it has dropped, but a shared one that it found needed.       *)
DroppedInv ==
    \A t \in Threads : job[t].op = "delete" /\ InOrder(t) => \A s \in Stores \ {"hash"} :
       DropAhead(job[t], s) \/ ~Has(s, Of(t))
          \/ (Shared(s) /\ job[t].shared = TRUE /\ ~OthersAhead(job[t]))

(* A deletion that takes a row from an item. *)
Takes(t, s, i) ==
    /\ job[t].op = "delete" /\ Row(s, i) = Row(s, Of(t)) /\ ~(Shared(s) /\ job[t].shared)
    /\ s \in {"fts", "capsule"} => ~OthersAhead(job[t])

(* No deletion and other rewrite in order are beside each other.           *)
LEMMA OrderApart ==
    ASSUME MixInv, NEW x \in Threads, Rewriting(x), InOrder(x), NEW t \in Threads \ {x},
           Rewriting(t),
           Of(t) \in Touching(Of(x)), ~(job[x].op = "delete" <=> job[t].op = "delete")
    PROVE  FALSE
<1>1. TypeInv
  BY DEF MixInv, OwnInv
<1>2. Of(x) \in Items
  BY <1>1, BesideIs
<1>3. Of(x) \in Touching(Of(t))
  BY <1>2, TouchesBack
<1>4. CASE job[x].op = "delete"
  BY <1>4, Apart
<1>5. CASE job[t].op = "delete"
  BY <1>3, <1>5, Apart
<1> QED BY <1>4, <1>5

(* A record comes or goes by a rewrite of its own item.                    *)
LEMMA RecordsRewrite ==
    ASSUME MixInv, NEW t \in Threads, NEW i \in Items, Records(t, i)
    PROVE  /\ Rewriting(t) /\ i = Of(t) /\ rows' = rows /\ muddled' = muddled
           /\ job[t].op = "delete" <=> record'[i].id = 0
           /\ job[t].op # "delete" => record[i].id = 0
BY Rewrite DEF Records, Fl

(* What a rewrite in order finds of its record is its own doing.           *)
LEMMA RecordsApart ==
    ASSUME MixInv, NEW x \in Threads, Rewriting(x), InOrder(x), NEW t \in Threads,
           Of(x) \in Items, Records(t, Of(x)), ~(job[x].op = "delete" <=> job[t].op = "delete")
    PROVE  FALSE
<1>1. Rewriting(t) /\ Of(t) = Of(x)
  BY RecordsRewrite
<1>2. t # x
  OBVIOUS
<1>3. Of(t) \in Touching(Of(x))
  BY <1>1 DEF Touching
<1> QED BY <1>1, <1>2, <1>3, OrderApart

(* A row that is there or on its way is lost only to an ingest that fails  *)
(* beside others, or to a deletion.                                        *)
LEMMA SoundKept ==
    ASSUME MixInv, StepFacts, NEW s \in Content, NEW i \in Items, Sound(s, i), ~Sound(s, i)'
    PROVE  \E t \in Threads :
             \/ Fl(job[t]) /\ job'[t] = Idle /\ Of(t) \in Touching(i) /\ i \in muddled'
             \/ Takes(t, s, i)
<1>0. TypeInv /\ sqlite' = sqlite /\ (\A x \in Threads : ThreadFacts(x)) /\ RowFacts(s, i)
  BY DEF MixInv, OwnInv, StepFacts
<1>1. Row(s, i) \notin rows'
  BY <1>0, SamePlaces DEF Sound
<1>2. \A u \in Threads : ~(AddsAhead(job'[u], s) /\ Row(s, job'[u].item) = Row(s, i))
  BY <1>0, SamePlaces DEF Sound, Of
<1>3. CASE Has(s, i)
  <2>1. PICK t \in Threads : Loses(t, s, i)
    BY <1>0, <1>1, <1>3 DEF RowFacts, Has
  <2>2. ~(AddsAhead(job'[t], s) /\ job'[t].item = job[t].item)
    BY <1>2, <2>1 DEF Loses, Of
  <2> QED BY <2>1, <2>2 DEF Loses, Takes
<1>4. ASSUME NEW u \in Threads, AddsAhead(job[u], s), Row(s, Of(u)) = Row(s, i)
      PROVE  Fl(job[u]) /\ job'[u] = Idle /\ Of(u) \in Touching(i) /\ i \in muddled'
  <2>1. Fl(job[u])
    BY <1>4 DEF AddsAhead
  <2>2. Of(u) \in Items /\ Of(u) = job[u].item
    <3>1. job[u].op # "idle"
      BY <2>1 DEF Fl
    <3> QED BY <1>0, <3>1, AtWork
  <2>3. Of(u) \in Touching(i) /\ i \in Touching(Of(u))
    BY <1>4, <2>2, RowTouches
  <2>4. ~FillOn(u)
    BY <1>1, <1>2, <1>4, <2>2 DEF FillOn, StaysOn
  <2>5. job'[u] = Idle /\ FillEnds(u)
    BY <1>0, <2>1, <2>4 DEF ThreadFacts, FillFuture
  <2>6. Touching(Of(u)) \subseteq muddled'
    BY <1>1, <1>4, <2>5 DEF FillEnds
  <2> QED BY <2>1, <2>3, <2>5, <2>6
<1> QED BY <1>3, <1>4 DEF Sound

(* FilledInv is kept by every step.                                        *)
LEMMA FilledStep ==
    ASSUME MixInv, FilledInv, OwnInv', StepFacts
    PROVE  FilledInv'
<1>0. TypeInv /\ AloneInv /\ sqlite' = sqlite /\ \A x \in Threads : ThreadFacts(x)
  BY DEF MixInv, OwnInv, StepFacts
<1> SUFFICES ASSUME NEW x \in Threads, Fl(job'[x]), InOrder(x)', NEW s \in Content
             PROVE  Sound(s, Of(x))'
  BY DEF FilledInv
<1>1. CASE AddsAhead(job'[x], s)
  BY <1>1 DEF Sound
<1>2. CASE FillOn(x)
  <2>1. /\ Fl(job[x]) /\ StaysOn(x) /\ Rewriting(x) /\ job'[x].op \in Rewrites
        /\ job[x].op # "delete" /\ job[x].op # "idle"
    BY <1>2, Rewrite DEF FillOn, Fl, Rewrites
  <2>2. InOrder(x)
    BY <1>0, <2>1, OrderKept
  <2>3. Of(x) \in Items /\ Of(x)' = Of(x) /\ Of(x) \in Touching(Of(x))
    BY <1>0, <2>1, AtWork DEF StaysOn, Of
  <2>4. Sound(s, Of(x))
    BY <2>1, <2>2 DEF FilledInv
  <2>5. ASSUME ~Sound(s, Of(x))' PROVE FALSE
    <3>1. PICK t \in Threads :
             \/ Fl(job[t]) /\ job'[t] = Idle /\ Of(t) \in Touching(Of(x)) /\ Of(x) \in muddled'
             \/ Takes(t, s, Of(x))
      BY <2>3, <2>4, <2>5, SoundKept DEF Sound, Has
    <3>2. CASE Takes(t, s, Of(x))
      <4>1. job[t].op = "delete" /\ Rewriting(t) /\ t # x
        BY <2>1, <3>2, Rewrite DEF Takes
      <4>2. Of(t) \in Items
        BY <1>0, <4>1, AtWork
      <4>3. Of(t) \in Touching(Of(x))
        BY <2>3, <3>2, <4>2, RowTouches DEF Takes
      <4> QED BY <2>1, <2>2, <4>1, <4>3, OrderApart
    <3>3. CASE Fl(job[t]) /\ job'[t] = Idle /\ Of(t) \in Touching(Of(x)) /\ Of(x) \in muddled'
      <4>1. t # x
        BY <3>3, IdleAhead
      <4>2. Lone(job'[x])
        BY <2>3, <3>3 DEF InOrder
      <4>3. Lone(job[x])
        BY <2>1, <4>2 DEF StaysOn
      <4>4. Rewriting(t)
        BY <3>3, Rewrite
      <4> QED BY <1>0, <2>1, <3>3, <4>1, <4>3, <4>4, Alone
    <3> QED BY <3>1, <3>2, <3>3
  <2> QED BY <2>5
<1> QED BY <1>0, <1>1, <1>2 DEF ThreadFacts, FillPast

(* The facts of a step, one by one.                                        *)
LEMMA StepParts ==
    ASSUME MixInv, StepFacts
    PROVE  /\ TypeInv /\ AloneInv /\ IdsInv /\ sqlite' = sqlite
           /\ \A x \in Threads : /\ FillPast(x) /\ FillFuture(x) /\ DeletePast(x) /\ DeleteFuture(x)
                                 /\ RewritePast(x) /\ MarkPast(x) /\ ReviewPast(x) /\ SearchPast(x)
           /\ \A i \in Items : RecordFacts(i) /\ MuddledFacts(i)
BY DEF MixInv, OwnInv, StepFacts, ThreadFacts

(* A rewrite in order that goes on was in order, on the same item.         *)
LEMMA GoesInOrder ==
    ASSUME MixInv, StepFacts, NEW x \in Threads, FillOn(x) \/ DeleteOn(x), InOrder(x)'
    PROVE  /\ InOrder(x) /\ Rewriting(x) /\ Of(x) \in Items /\ Of(x) = job[x].item /\ Of(x) \in Touching(Of(x))
           /\ job'[x].item = Of(x)
           /\ FillOn(x) => Fl(job[x]) /\ job[x].op # "delete"
           /\ DeleteOn(x) => job[x].op = "delete"
<1>1. /\ FillOn(x) => Fl(job[x]) /\ Fl(job'[x]) /\ job[x].op = "ingest" /\ job'[x].op = "ingest" /\ StaysOn(x)
      /\ DeleteOn(x) => job[x].op = "delete" /\ job'[x].op = "delete" /\ StaysOn(x)
  BY DEF FillOn, Fl, DeleteOn, DeleteGoes
<1>2. Rewriting(x) /\ job'[x].op \in Rewrites /\ job[x].op # "idle"
  BY <1>1, Rewrite DEF Rewrites
<1> QED BY <1>1, <1>2, StepParts, OrderKept, AtWork DEF StaysOn

(* RecordedInv is kept by every step,                                      *)
LEMMA RecordedStep ==
    ASSUME MixInv, RecordedInv, OwnInv', StepFacts
    PROVE  RecordedInv'
<1> SUFFICES ASSUME NEW x \in Threads, Fl(job'[x]), InOrder(x)', ~PutAhead(job'[x])
             PROVE  record'[job'[x].item].id # 0
  BY DEF RecordedInv, Of
<1>1. FillOn(x)
  BY StepParts DEF FillPast
<1> DEFINE i == Of(x)
<1>2. /\ InOrder(x) /\ Rewriting(x) /\ i \in Items /\ i = job[x].item /\ job'[x].item = i
      /\ Fl(job[x]) /\ job[x].op # "delete"
  BY <1>1, GoesInOrder
<1>3. CASE PutAhead(job[x])
  BY <1>1, <1>2, <1>3 DEF FillOn
<1>4. CASE ~PutAhead(job[x])
  <2>1. record[i].id # 0
    BY <1>2, <1>4 DEF RecordedInv
  <2>2. ASSUME record'[i].id = 0 PROVE FALSE
    <3>1. PICK t \in Threads : Records(t, i)
      BY <1>2, <2>1, <2>2, StepParts DEF RecordFacts
    <3>2. job[t].op = "delete"
      BY <1>2, <2>2, <3>1, RecordsRewrite
    <3> QED BY <1>2, <3>1, <3>2, RecordsApart
  <2> QED BY <1>2, <2>2
<1> QED BY <1>3, <1>4

(* MidInv too,                                                             *)
LEMMA MidStep ==
    ASSUME MixInv, MidInv, OwnInv', StepFacts
    PROVE  MidInv'
<1> SUFFICES ASSUME NEW x \in Threads, job'[x].op = "delete", InOrder(x)'
             PROVE  record'[job'[x].item].id \in {0, job'[x].mid}
  BY DEF MidInv, Of
<1>1. CASE record' = record /\ job'[x].mid = record[job'[x].item].id
  BY <1>1
<1>2. CASE DeleteOn(x)
  <2> DEFINE i == Of(x)
  <2>1. InOrder(x) /\ Rewriting(x) /\ i \in Items /\ job'[x].item = i /\ job[x].op = "delete"
    BY <1>2, GoesInOrder
  <2>2. record[i].id \in {0, job[x].mid} /\ job'[x].mid = job[x].mid
    BY <1>2, <2>1 DEF MidInv, DeleteOn, DeleteGoes
  <2>3. ASSUME record'[i].id # record[i].id PROVE record'[i].id = 0
    <3>1. PICK t \in Threads : Records(t, i)
      BY <2>1, <2>3, StepParts DEF RecordFacts
    <3>2. job[t].op = "delete"
      BY <2>1, <3>1, RecordsApart
    <3> QED BY <2>1, <3>1, <3>2, RecordsRewrite
  <2> QED BY <2>1, <2>2, <2>3
<1> QED BY <1>1, <1>2, StepParts DEF DeletePast

(* and ForgottenInv.                                                       *)
LEMMA ForgottenStep ==
    ASSUME MixInv, ForgottenInv, OwnInv', StepFacts
    PROVE  ForgottenInv'
<1> SUFFICES ASSUME NEW x \in Threads, job'[x].op = "delete", InOrder(x)', ~ForgetAhead(job'[x])
             PROVE  record'[job'[x].item].id = 0
  BY DEF ForgottenInv, Of
<1>1. DeleteOn(x)
  BY StepParts DEF DeletePast
<1> DEFINE i == Of(x)
<1>2. InOrder(x) /\ Rewriting(x) /\ i \in Items /\ job'[x].item = i /\ job[x].op = "delete"
  BY <1>1, GoesInOrder
<1>3. CASE ForgetAhead(job[x])
  BY <1>1, <1>2, <1>3 DEF DeleteOn, DeleteGoes
<1>4. CASE ~ForgetAhead(job[x])
  <2>1. record[i].id = 0
    BY <1>2, <1>4 DEF ForgottenInv
  <2>2. ASSUME record'[i].id # 0 PROVE FALSE
    <3>1. PICK t \in Threads : Records(t, i)
      BY <1>2, <2>1, <2>2, StepParts DEF RecordFacts
    <3>2. job[t].op # "delete"
      BY <1>2, <2>2, <3>1, RecordsRewrite
    <3> QED BY <1>2, <3>1, <3>2, RecordsApart
  <2> QED BY <1>2, <2>2
<1> QED BY <1>3, <1>4

(* No row comes to an item under a deletion in order,                      *)
LEMMA GainsApart ==
    ASSUME MixInv, StepFacts, NEW x \in Threads, DeleteOn(x), InOrder(x)',
           NEW s, Row(s, Of(x)) \in rows'
    PROVE  Row(s, Of(x)) \in rows
<1> DEFINE i == Of(x)
<1>1. /\ InOrder(x) /\ Rewriting(x) /\ i \in Items /\ job'[x].item = i /\ job[x].op = "delete"
      /\ i \in Touching(i)
  BY GoesInOrder
<1> SUFFICES ASSUME Row(s, i) \notin rows PROVE FALSE
  OBVIOUS
<1>2. PICK t \in Threads :
         Gains(t, s, i) \/ (s = "yt" /\ BeginsOn(t, i) /\ OthersTwin(t) /\ job'[t].op = "ingest")
  BY <1>1 DEF StepFacts, RowFacts
<1>3. CASE Gains(t, s, i)
  <2>1. Rewriting(t) /\ job[t].op # "delete" /\ Row(s, i) = Row(s, Of(t)) /\ job[t].op # "idle"
    BY <1>3, Rewrite DEF Gains, Fl
  <2>2. Of(t) \in Touching(i)
    <3>1. Of(t) \in Items
      BY <2>1, AtWork, StepParts
    <3> QED BY <1>1, <2>1, <3>1, RowTouches
  <2> QED BY <1>1, <2>1, <2>2, OrderApart
<1>4. CASE BeginsOn(t, i) /\ OthersTwin(t) /\ job'[t].op = "ingest"
  <2>1. x # t
    BY <1>4 DEF DeleteOn
  <2>2. x \in Beside(t, i)
    BY <1>1, <2>1 DEF Beside
  <2>3. ~Lone(job'[x]) /\ muddled' = MixUp(t, "ingest", i)
    BY <1>4, <2>2 DEF BeginsOn
  <2>4. i \in muddled'
    BY <1>1, <2>2, <2>3 DEF MixUp
  <2> QED BY <1>1, <2>3, <2>4 DEF InOrder, Of
<1> QED BY <1>2, <1>3, <1>4

(* so DroppedInv is kept by every step.                                    *)
LEMMA DroppedStep ==
    ASSUME MixInv, DroppedInv, OwnInv', StepFacts
    PROVE  DroppedInv'
<1>0. sqlite' = sqlite
  BY StepParts
<1> SUFFICES ASSUME NEW x \in Threads, job'[x].op = "delete", InOrder(x)',
                    NEW s \in Stores \ {"hash"}
             PROVE  \/ DropAhead(job'[x], s) \/ Row(s, job'[x].item) \notin rows'
                    \/ Shared(s) /\ job'[x].shared = TRUE /\ ~OthersAhead(job'[x])
  BY <1>0, SamePlaces DEF DroppedInv, Of
<1>1. CASE s = "yt" /\ Source[job'[x].item] \in Pages
  <2>1. TypeInv' /\ job'[x] # Idle
    BY IdleOk DEF OwnInv
  <2>2. job'[x].item \in Items
    BY <2>1 DEF TypeInv, JobsOk, JobOk, Busy
  <2>3. PageRows'
    BY DEF OwnInv
  <2> QED BY <1>0, <1>1, <2>2, <2>3, SamePlaces DEF PageRows
<1>2. CASE DropAhead(job'[x], s)
  BY <1>2
<1>3. CASE DeleteOn(x)
  <2>1. InOrder(x) /\ Of(x) \in Items /\ job'[x].item = Of(x) /\ job[x].op = "delete"
    BY <1>3, GoesInOrder
  <2>2. DeleteGoes(x)
    BY <1>3 DEF DeleteOn
  <2>3. CASE DropAhead(job[x], s)
    <3>1. ~(Touching(Of(x)) \subseteq muddled' /\ ~Lone(job'[x]))
      <4>1. Of(x) \in Touching(Of(x))
        BY <1>3, GoesInOrder
      <4> QED BY <2>1, <4>1 DEF InOrder, Of
    <3> QED BY <2>1, <2>2, <2>3, <3>1 DEF DeleteGoes
  <2>4. CASE ~Has(s, Of(x))
    BY <1>3, <2>1, <2>4, GainsApart DEF Has
  <2>5. CASE Shared(s) /\ job[x].shared = TRUE /\ ~OthersAhead(job[x])
    BY <2>2, <2>5 DEF DeleteGoes
  <2> QED BY <2>1, <2>3, <2>4, <2>5 DEF DroppedInv
<1> QED BY <1>1, <1>2, <1>3, StepParts DEF DeletePast

-----------------------------------------------------------------------------
(* Items that are not mixed up.                                            *)

(* All of these.                                                           *)
OrderInv == MixInv /\ FilledInv /\ RecordedInv /\ MidInv /\ ForgottenInv /\ DroppedInv

(* An item with a record, or that is being filled.                         *)
Fills(t, i) == Fl(job[t]) /\ Of(t) = i
Known(i) == record[i].id # 0 \/ \E t \in Threads : Fills(t, i)

Alongside == Stores \ {"yt", "hash", "fts", "capsule"}

(* An item without a record, not mixed up, has no rows of its own but      *)
(* while it                                                                *)
(* is being filled;                                                        *)
GoneInv ==
    \A i \in Items : i \notin muddled /\ record[i].id = 0 =>
       \A s \in Alongside : Has(s, i) => \E t \in Threads : Fills(t, i)

(* a review is of an item with a record or being filled;                   *)
ReviewInv ==
    \A t \in Threads : job[t].op = "review" /\ Of(t) \notin muddled => Known(Of(t))

(* the shared rows of a source are some item's who has a record, is being  *)
(* filled, or is mixed up;                                                 *)
LivelyInv ==
    \A i \in Items : \A s \in {"fts", "capsule"} : Has(s, i) =>
       \E j \in Touching(i) : Known(j) \/ j \in muddled

(* a deletion that keeps the shared rows does so for such an item,         *)
NeededInv ==
    \A t \in Threads :
       /\ job[t].op = "delete" /\ InOrder(t) /\ ~OthersAhead(job[t]) /\ job[t].shared = TRUE
       /\ sqlite
       => \E k \in Touching(Of(t)) \ {Of(t)} : record[k].id # 0 \/ k \in muddled

(* and one that does not keep them has found none.                         *)
SharedInv ==
    \A t \in Threads : job[t].op = "delete" /\ ~OthersAhead(job[t]) =>
       \A i \in Touching(Of(t)) \ {Of(t)} : i \notin muddled /\ record[i].id # 0 => job[t].shared = TRUE

(* An ingest on an item that is not mixed up goes on, or leaves a record.  *)
LEMMA FillsKept ==
    ASSUME OrderInv, StepFacts, NEW i \in Items, i \notin muddled, i \notin muddled',
           NEW t \in Threads, Fills(t, i)
    PROVE  Fills(t, i)' \/ (record[i].id # 0 /\ record'[i].id # 0)
<1>1. MixInv /\ Fl(job[t]) /\ Of(t) = i /\ InOrder(t) /\ i \in Touching(i)
  BY DEF OrderInv, Fills, InOrder, Touching
<1>2. CASE FillOn(t)
  BY <1>1, <1>2 DEF FillOn, StaysOn, Fills, Of
<1>3. CASE FillEnds(t)
  <2>1. IdsSame /\ (PutAhead(job[t]) => record[i].id # 0)
    BY <1>1, <1>3 DEF FillEnds
  <2>2. ~PutAhead(job[t]) => record[i].id # 0
    BY <1>1 DEF OrderInv, RecordedInv
  <2> QED BY <2>1, <2>2 DEF IdsSame
<1> QED BY <1>1, <1>2, <1>3, StepParts DEF FillFuture

(* A known item is unknown only after a deletion removed its record.       *)
LEMMA KnownKept ==
    ASSUME OrderInv, StepFacts, NEW i \in Items, i \notin muddled, i \notin muddled', Known(i),
           ~Known(i)'
    PROVE  \E t \in Threads : Records(t, i) /\ job[t].op = "delete"
<1>1. record'[i].id = 0 /\ \A t \in Threads : ~Fills(t, i)'
  BY DEF Known
<1>2. record[i].id # 0
  BY <1>1, FillsKept DEF Known
<1>3. MixInv
  BY DEF OrderInv
<1>4. PICK t \in Threads : Records(t, i)
  BY <1>1, <1>2, <1>3, StepParts DEF RecordFacts
<1> QED BY <1>1, <1>3, <1>4, RecordsRewrite

(* A deletion in order that has dropped all it drops.                      *)
LEMMA DroppedAll ==
    ASSUME OrderInv, NEW t \in Threads, job[t].op = "delete", InOrder(t),
           \A s : ~DropAhead(job[t], s)
    PROVE  /\ \A s \in Stores \ {"hash", "fts", "capsule"} : ~Has(s, Of(t))
           /\ \A s \in Stores \ {"hash"} : Has(s, Of(t)) =>
                 sqlite /\ job[t].shared = TRUE /\ ~OthersAhead(job[t])
BY DEF OrderInv, DroppedInv, Shared

(* What an item was settled by.                                            *)
LEMMA Settling ==
    ASSUME OrderInv, StepFacts, NEW i \in Items, i \in muddled, i \notin muddled'
    PROVE  \E t \in Threads :
              /\ i = Of(t) /\ OthersTwin(t) /\ Settles(t) /\ InOrder(t) /\ record' = record
              /\ Lone(job[t]) /\ Rewriting(t)
              /\ \/ Fl(job[t]) /\ record[i].id # 0 /\ ~BumpAhead(job[t])
                 \/ /\ job[t].op = "delete" /\ InvalidatesOn(t) /\ rows' = rows /\ record[i].id = 0
                    /\ \A s : ~DropAhead(job[t], s)
<1>1. MixInv
  BY DEF OrderInv
<1>2. PICK t \in Threads : i = Of(t) /\ Settles(t) /\ OthersTwin(t)
  BY <1>1, StepParts DEF MuddledFacts
<1>3. /\ Rewriting(t) /\ Lone(job[t]) /\ record' = record /\ InOrder(t)
      /\ Fl(job[t]) \/ (job[t].op = "delete" /\ InvalidatesOn(t))
  BY <1>2, SettlesIs
<1>4. CASE Fl(job[t])
  <2>1. ~PutAhead(job[t]) /\ ~BumpAhead(job[t])
    <3>1. ~InvalidatesOn(t)
      BY <1>4 DEF InvalidatesOn, Fl
    <3> QED BY <1>2, <3>1 DEF Settles
  <2>2. record[i].id # 0
    BY <1>2, <1>3, <1>4, <2>1 DEF OrderInv, RecordedInv
  <2> QED BY <1>2, <1>3, <1>4, <2>1, <2>2
<1>5. CASE job[t].op = "delete" /\ InvalidatesOn(t)
  <2>1. rows' = rows /\ ~ForgetAhead(job[t]) /\ \A s : ~DropAhead(job[t], s)
    BY <1>5 DEF InvalidatesOn
  <2>2. record[i].id = 0
    BY <1>2, <1>3, <1>5, <2>1 DEF OrderInv, ForgottenInv
  <2> QED BY <1>2, <1>3, <1>5, <2>1, <2>2
<1> QED BY <1>3, <1>4, <1>5

(* GoneInv is kept by every step,                                          *)
LEMMA GoneStep ==
    ASSUME OrderInv, GoneInv, ReviewInv, OwnInv', StepFacts
    PROVE  GoneInv'
<1>0. MixInv /\ TypeInv /\ sqlite' = sqlite
  BY StepParts DEF OrderInv
<1> SUFFICES ASSUME NEW i \in Items, i \notin muddled', record'[i].id = 0,
                    NEW s \in Alongside, Row(s, i) \in rows'
             PROVE  \E t \in Threads : Fills(t, i)'
  BY <1>0, SamePlaces DEF GoneInv
<1>1. s \in Stores /\ s \notin {"yt", "hash", "fts", "capsule"}
  BY DEF Alongside
<1>2. CASE i \in muddled
  <2>1. PICK t \in Threads :
              /\ i = Of(t) /\ InOrder(t) /\ record' = record
              /\ \/ Fl(job[t]) /\ record[i].id # 0 /\ ~BumpAhead(job[t])
                 \/ /\ job[t].op = "delete" /\ InvalidatesOn(t) /\ rows' = rows /\ record[i].id = 0
                    /\ \A z : ~DropAhead(job[t], z)
    BY <1>2, Settling
  <2>2. ~Has(s, i)
    BY <1>1, <2>1, DroppedAll
  <2> QED BY <2>1, <2>2 DEF Has
<1>3. CASE i \notin muddled /\ record[i].id = 0
  <2>1. ASSUME NEW t \in Threads, Fills(t, i) PROVE Fills(t, i)'
    BY <1>3, <2>1, FillsKept
  <2>2. CASE Has(s, i)
    BY <1>3, <2>1, <2>2 DEF GoneInv
  <2>3. CASE ~Has(s, i)
    <3>1. PICK t \in Threads : Gains(t, s, i)
      BY <1>1, <2>3 DEF StepFacts, RowFacts, Has
    <3>2. job[t].op # "idle" /\ Row(s, i) = Row(s, Of(t)) /\ (Fl(job[t]) \/ job[t].op = "review")
      BY <3>1 DEF Gains, Fl
    <3>3. Of(t) = i
      BY <1>0, <1>1, <3>2, AtWork, RowTouches
    <3>4. \E u \in Threads : Fills(u, i)
      BY <1>3, <3>2, <3>3 DEF Fills, ReviewInv, Known
    <3> QED BY <2>1, <3>4
  <2> QED BY <2>2, <2>3
<1>4. CASE i \notin muddled /\ record[i].id # 0
  <2>1. PICK t \in Threads : Records(t, i)
    BY <1>0, <1>4, StepParts DEF RecordFacts
  <2>2. job[t].op = "delete" /\ i = Of(t) /\ rows' = rows
    BY <1>0, <2>1, RecordsRewrite
  <2>3. \A z : ~DropAhead(job[t], z)
    BY <2>1, <2>2 DEF Records, Fl
  <2>4. InOrder(t)
    BY <1>4, <2>2 DEF InOrder
  <2>5. ~Has(s, i)
    BY <1>1, <2>2, <2>3, <2>4, DroppedAll
  <2> QED BY <2>2, <2>5 DEF Has
<1> QED BY <1>2, <1>3, <1>4

(* and ReviewInv.                                                          *)
LEMMA ReviewStep ==
    ASSUME OrderInv, GoneInv, ReviewInv, OwnInv', StepFacts
    PROVE  ReviewInv'
<1>0. MixInv /\ TypeInv /\ AloneInv /\ sqlite' = sqlite
  BY StepParts DEF OrderInv
<1> SUFFICES ASSUME NEW x \in Threads, job'[x].op = "review", NEW i, i = job'[x].item,
                    i \notin muddled',
                    ~Known(i)'
             PROVE  FALSE
  BY DEF ReviewInv, Of, Known, Fills
<1>1. i \in Items
  <2>1. TypeInv' /\ job'[x] # Idle
    BY IdleOk DEF OwnInv
  <2> QED BY <2>1 DEF TypeInv, JobsOk, JobOk, Busy
<1>2. record'[i].id = 0 /\ \A t \in Threads : ~Fills(t, i)'
  BY DEF Known
<1>3. CASE Has("registry", i) /\ record' = record /\ muddled \subseteq muddled'
  <2>1. "registry" \in Alongside
    BY DEF Alongside, Stores
  <2>2. \E u \in Threads : Fills(u, i)
    BY <1>1, <1>2, <1>3, <2>1 DEF GoneInv
  <2>3. record[i].id = 0 /\ i \notin muddled
    BY <1>2, <1>3
  <2> QED BY <1>1, <1>2, <2>2, <2>3, FillsKept
<1>4. CASE job[x].op = "review" /\ StaysOn(x)
  <2>1. Rewriting(x) /\ Of(x) = i /\ i \in Touching(i) /\ job'[x].op \in Rewrites
    BY <1>1, <1>4, Rewrite DEF StaysOn, Of, Touching, Rewrites
  <2>2. CASE i \in muddled
    BY <1>0, <1>1, <2>1, <2>2, Settling, SettlesAlone
  <2>3. CASE i \notin muddled
    <3>1. Known(i)
      BY <1>4, <2>1, <2>3 DEF ReviewInv
    <3>2. PICK t \in Threads : Records(t, i) /\ job[t].op = "delete"
      BY <1>1, <2>3, <3>1, KnownKept
    <3>3. InOrder(x)
      BY <2>1, <2>3 DEF InOrder
    <3> QED BY <1>0, <1>1, <1>4, <2>1, <3>2, <3>3, RecordsApart
  <2> QED BY <2>2, <2>3
<1> QED BY <1>0, <1>3, <1>4, StepParts DEF ReviewPast

(* What a deletion leaves of a source, another copy needs,                 *)
LEMMA LeftNeeded ==
    ASSUME OrderInv, NeededInv, NEW t \in Threads, job[t].op = "delete", InOrder(t),
           \A s : ~DropAhead(job[t], s), NEW s \in {"fts", "capsule"}, NEW i \in Items,
           Of(t) \in Touching(i), Has(s, i)
    PROVE  \E k \in Touching(i) : k # Of(t) /\ (record[k].id # 0 \/ k \in muddled)
<1>1. Row(s, Of(t)) = Row(s, i)
  BY SharedRow
<1>2. Has(s, Of(t)) /\ s \in Stores \ {"hash"}
  BY <1>1 DEF Has, Stores
<1>3. sqlite /\ job[t].shared = TRUE /\ ~OthersAhead(job[t])
  BY <1>2, DroppedAll
<1>4. PICK k \in Touching(Of(t)) \ {Of(t)} : record[k].id # 0 \/ k \in muddled
  BY <1>3 DEF NeededInv
<1>5. k \in Touching(i)
  BY <1>4, TouchesBack
<1> QED BY <1>4, <1>5

(* so LivelyInv is kept by every step.                                     *)
LEMMA LivelyStep ==
    ASSUME OrderInv, NeededInv, LivelyInv, OwnInv', StepFacts
    PROVE  LivelyInv'
<1>0. MixInv /\ TypeInv /\ sqlite' = sqlite
  BY StepParts DEF OrderInv
<1> SUFFICES ASSUME NEW i \in Items, NEW s \in {"fts", "capsule"}, Row(s, i) \in rows',
                    \A j : j \in Touching(i) => ~Known(j)' /\ j \notin muddled'
             PROVE  FALSE
  BY <1>0, SamePlaces DEF LivelyInv
<1>1. \A j : j \in Touching(i) => record'[j].id = 0
  BY DEF Known
<1>2. ASSUME NEW j, j \in Touching(i), Known(j) \/ j \in muddled
      PROVE  rows' = rows /\ ~Has(s, i)
  <2>1. j \in Items /\ ~Known(j)' /\ j \notin muddled'
    BY <1>2, TouchesBack
  <2>2. CASE j \in muddled
    <3>1. PICK t \in Threads :
              /\ j = Of(t) /\ InOrder(t) /\ record' = record
              /\ \/ Fl(job[t]) /\ record[j].id # 0 /\ ~BumpAhead(job[t])
                 \/ /\ job[t].op = "delete" /\ InvalidatesOn(t) /\ rows' = rows /\ record[j].id = 0
                    /\ \A z : ~DropAhead(job[t], z)
      BY <2>1, <2>2, Settling
    <3>2. job[t].op = "delete" /\ InvalidatesOn(t) /\ rows' = rows /\ \A z : ~DropAhead(job[t], z)
      BY <1>1, <1>2, <3>1
    <3>3. ASSUME Has(s, i) PROVE FALSE
      <4>1. PICK k \in Touching(i) : k # Of(t) /\ (record[k].id # 0 \/ k \in muddled)
        BY <1>2, <3>1, <3>2, <3>3, LeftNeeded
      <4>2. k \in muddled \ muddled'
        BY <1>1, <3>1, <4>1
      <4> QED BY <3>2, <4>1, <4>2 DEF InvalidatesOn
    <3> QED BY <3>2, <3>3
  <2>3. CASE j \notin muddled
    <3>1. PICK t \in Threads : Records(t, j) /\ job[t].op = "delete"
      BY <1>2, <2>1, <2>3, KnownKept
    <3>2. j = Of(t) /\ rows' = rows /\ muddled' = muddled /\ InOrder(t)
      BY <1>0, <2>1, <2>3, <3>1, RecordsRewrite DEF InOrder
    <3>3. /\ \A z : ~DropAhead(job[t], z)
          /\ \A y \in Items \ {j} : record'[y].id = record[y].id
      BY <3>1 DEF Records, Fl
    <3>4. ASSUME Has(s, i) PROVE FALSE
      <4>1. PICK k \in Touching(i) : k # Of(t) /\ (record[k].id # 0 \/ k \in muddled)
        BY <1>2, <3>1, <3>2, <3>3, <3>4, LeftNeeded
      <4>2. k \in Items
        BY <4>1, TouchesBack
      <4> QED BY <1>1, <3>2, <3>3, <4>1, <4>2
    <3> QED BY <3>2, <3>4
  <2> QED BY <2>2, <2>3
<1>3. CASE Has(s, i)
  <2>1. PICK j \in Touching(i) : Known(j) \/ j \in muddled
    BY <1>3 DEF LivelyInv
  <2> QED BY <1>2, <1>3, <2>1
<1>4. CASE ~Has(s, i)
  <2>1. PICK t \in Threads : Gains(t, s, i)
    BY <1>4 DEF StepFacts, RowFacts, Has
  <2>2. Fl(job[t]) /\ Row(s, i) = Row(s, Of(t)) /\ job[t].op # "idle"
    BY <2>1 DEF Gains, Fl
  <2>3. Of(t) \in Touching(i)
    BY <1>0, <2>2, AtWork, RowTouches
  <2>4. Known(Of(t))
    BY <2>2 DEF Known, Fills
  <2>5. rows' = rows
    BY <1>2, <2>3, <2>4
  <2> QED BY <1>4, <2>5 DEF Has
<1> QED BY <1>3, <1>4

(* While a deletion in order goes on, the record of another copy of the    *)
(* source neither comes nor goes,                                          *)
LEMMA CopyBeside ==
    ASSUME MixInv, StepFacts, NEW x \in Threads, DeleteOn(x), NEW m \in Items,
           m \in Touching(Of(x)), m # Of(x), m \notin muddled'
    PROVE  /\ m \notin muddled
           /\ record'[m].id = record[m].id
<1>0. TypeInv /\ AloneInv
  BY StepParts
<1>1. /\ job[x].op = "delete" /\ Rewriting(x) /\ job'[x].op \in Rewrites /\ job'[x].item = Of(x)
      /\ Of(x) \in Items
  <2>1. job[x].op = "delete" /\ job'[x].op = "delete" /\ StaysOn(x)
    BY DEF DeleteOn, DeleteGoes
  <2> QED BY <1>0, <2>1, Rewrite, AtWork DEF StaysOn, Rewrites
<1>2. m \notin muddled
  <2> SUFFICES ASSUME m \in muddled PROVE FALSE
    OBVIOUS
  <2>1. PICK t \in Threads : m = Of(t) /\ Settles(t) /\ OthersTwin(t)
    BY StepParts DEF MuddledFacts
  <2> QED BY <1>0, <1>1, <2>1, SettlesAlone
<1>3. record'[m].id = record[m].id
  <2> SUFFICES ASSUME record'[m].id # record[m].id PROVE FALSE
    OBVIOUS
  <2>1. PICK t \in Threads : Records(t, m)
    BY StepParts DEF RecordFacts
  <2>2. Rewriting(t) /\ m = Of(t)
    BY <2>1, RecordsRewrite
  <2>3. t # x
    BY <2>2
  <2> QED BY <1>1, <1>2, <2>2, <2>3, Apart
<1> QED BY <1>2, <1>3

(* so NeededInv is kept by every step,                                     *)
LEMMA NeededStep ==
    ASSUME OrderInv, NeededInv, GoneInv, OwnInv', StepFacts
    PROVE  NeededInv'
<1>0. MixInv /\ TypeInv /\ IdsInv /\ sqlite' = sqlite
  BY StepParts DEF OrderInv
<1> SUFFICES ASSUME NEW x \in Threads, job'[x].op = "delete", InOrder(x)', ~OthersAhead(job'[x]),
                    job'[x].shared = TRUE, sqlite, NEW i, i = job'[x].item,
                    \A m : m \in Touching(i) /\ m # i => record'[m].id = 0 /\ m \notin muddled'
             PROVE  FALSE
  <2>1. SUFFICES ASSUME NEW x \in Threads, job'[x].op = "delete", InOrder(x)',
                        ~OthersAhead(job'[x]),
                        job'[x].shared = TRUE, sqlite', NEW i, i = job'[x].item
                 PROVE  \E k \in Touching(i)' : k # i /\ (record'[k].id # 0 \/ k \in muddled')
    BY Zenon DEF NeededInv, Of
  <2>2. Touching(i)' = Touching(i)
    BY <1>0 DEF Touching
  <2> QED BY <1>0, <2>1, <2>2
<1>1. DeleteOn(x)
  BY <1>0, StepParts DEF DeletePast
<1>2. /\ InOrder(x) /\ Rewriting(x) /\ i \in Items /\ Of(x) = i /\ job[x].op = "delete"
      /\ DeleteGoes(x)
  <2>1. DeleteGoes(x)
    BY <1>1 DEF DeleteOn
  <2> QED BY <1>0, <1>1, <2>1, GoesInOrder
<1>3. \A m : m \in Touching(i) /\ m # i => record[m].id = 0 /\ m \notin muddled /\ m \in Items
  BY <1>0, <1>1, <1>2, TouchesBack, CopyBeside
<1>4. CASE ~OthersAhead(job[x])
  BY <1>2, <1>3, <1>4 DEF NeededInv, DeleteGoes
<1>5. CASE OthersAhead(job[x])
  <2>1. job'[x].shared = SharedBy(i)
    BY <1>2, <1>5 DEF DeleteGoes
  <2>2. PICK m \in Items : /\ Source[m] = Source[i] /\ Owner[m] # Owner[i]
                           /\ Has("registry", m) \/ record[m] # Absent
    BY <2>1 DEF SharedBy
  <2>3. m \in Touching(i) /\ m # i
    BY <2>2 DEF Touching
  <2>4. record[m].id = 0 /\ m \notin muddled /\ Has("registry", m)
    BY <1>0, <1>3, <2>2, <2>3 DEF IdsInv, RecordIds
  <2>5. "registry" \in Alongside
    BY DEF Alongside, Stores
  <2>6. PICK u \in Threads : Fills(u, m)
    BY <2>4, <2>5 DEF GoneInv
  <2>7. Rewriting(u) /\ Of(u) = m /\ u # x
    BY <1>2, <2>3, <2>6, Rewrite DEF Fills
  <2> QED BY <1>0, <1>2, <2>3, <2>4, <2>7, Apart
<1> QED BY <1>4, <1>5

(* and SharedInv.                                                          *)
LEMMA SharedStep ==
    ASSUME OrderInv, SharedInv, OwnInv', StepFacts
    PROVE  SharedInv'
<1>0. MixInv /\ TypeInv /\ sqlite' = sqlite
  BY StepParts DEF OrderInv
<1> SUFFICES ASSUME NEW x \in Threads, job'[x].op = "delete", ~OthersAhead(job'[x]),
                    NEW i, i = job'[x].item, NEW m, m \in Touching(i), m # i,
                    m \notin muddled', record'[m].id # 0
             PROVE  job'[x].shared = TRUE
  BY <1>0, SamePlaces DEF SharedInv, Of
<1>1. DeleteOn(x)
  BY <1>0, StepParts DEF DeletePast
<1>2. job[x].op = "delete" /\ Of(x) = i /\ i \in Items /\ DeleteGoes(x)
  <2>1. job[x].op = "delete" /\ DeleteGoes(x) /\ StaysOn(x)
    BY <1>1 DEF DeleteOn, DeleteGoes
  <2> QED BY <1>0, <2>1, AtWork DEF StaysOn
<1>3. record[m].id # 0 /\ m \notin muddled /\ m \in Items
  BY <1>0, <1>1, <1>2, TouchesBack, CopyBeside
<1>4. CASE ~OthersAhead(job[x])
  BY <1>2, <1>3, <1>4 DEF SharedInv, DeleteGoes
<1>5. CASE OthersAhead(job[x])
  <2>1. job'[x].shared = SharedBy(i)
    BY <1>2, <1>5 DEF DeleteGoes
  <2>2. Source[m] = Source[i] /\ Owner[m] # Owner[i]
    BY <1>2, <1>3, CopyAssumption DEF Touching
  <2>3. record[m] # Absent
    BY <1>3 DEF Absent
  <2>4. SharedBy(i)
    BY <1>3, <2>2, <2>3 DEF SharedBy
  <2>5. SharedBy(i) \in BOOLEAN
    BY DEF SharedBy
  <2> QED BY <2>1, <2>4, <2>5
<1> QED BY <1>4, <1>5

-----------------------------------------------------------------------------
(* Memories that are whole.                                                *)

BeingMarked(i) == \E t \in Threads : job[t].op = "mark" /\ Of(t) = i
BeingDeleted(i) == \E t \in Threads : job[t].op = "delete" /\ Of(t) = i
AllSound(i) == \A s \in Content : Sound(s, i)
HashOnly(i) == ~Has("registry", i) /\ Has("hash", i)

(* A memory that is not mixed up and not being deleted has all its         *)
(* content,                                                                *)
(* or, of a known transcript, only the record and the hash.                *)
WholeInv ==
    \A i \in Items : i \notin muddled /\ (record[i].id # 0 \/ BeingMarked(i)) /\ ~BeingDeleted(i) =>
       AllSound(i) \/ HashOnly(i)

(* What the step of WholeInv rests on.                                     *)
KeepInv == OrderInv /\ GoneInv /\ SharedInv

(* How an item stops being deleted.                                        *)
LEMMA DeletionOver ==
    ASSUME OrderInv, StepFacts, NEW i \in Items, i \notin muddled, i \notin muddled',
           BeingDeleted(i), ~BeingDeleted(i)'
    PROVE  \E t \in Threads :
              /\ job[t].op = "delete" /\ Of(t) = i /\ job'[t] = Idle /\ OthersTwin(t) /\ InOrder(t)
              /\ record' = record /\ rows' = rows /\ record[i].id = 0 /\ record'[i].id = 0
              /\ \A s : ~DropAhead(job[t], s)
<1>0. MixInv
  BY DEF OrderInv
<1>1. PICK t \in Threads : job[t].op = "delete" /\ Of(t) = i
  BY DEF BeingDeleted
<1>2. InOrder(t) /\ i \in Touching(i)
  BY <1>1 DEF InOrder, Touching
<1>3. ~DeleteOn(t)
  BY <1>1 DEF DeleteOn, StaysOn, BeingDeleted, Of
<1>4. job'[t] = Idle /\ DeleteEnds(t) /\ OthersTwin(t)
  BY <1>0, <1>1, <1>2, <1>3, StepParts DEF DeleteFuture
<1>5. CASE InvalidatesOn(t)
  <2>1. record' = record /\ rows' = rows /\ ~ForgetAhead(job[t]) /\ \A s : ~DropAhead(job[t], s)
    BY <1>5 DEF InvalidatesOn
  <2>2. record[i].id = 0
    BY <1>1, <1>2, <2>1 DEF OrderInv, ForgottenInv
  <2> QED BY <1>1, <1>2, <1>4, <2>1, <2>2
<1>6. CASE /\ RowsSame /\ record' = record /\ record[i].id # job[t].mid /\ \A s : ~DropAhead(job[t], s)
  <2>1. record[i].id = 0
    BY <1>1, <1>2, <1>6 DEF OrderInv, MidInv
  <2> QED BY <1>1, <1>2, <1>4, <1>6, <2>1 DEF RowsSame
<1> QED BY <1>1, <1>2, <1>4, <1>5, <1>6 DEF DeleteEnds

(* An item all of whose content is there or on its way stays so.           *)
LEMMA AllSoundKept ==
    ASSUME KeepInv, StepFacts, NEW i \in Items, i \notin muddled, i \notin muddled',
           ~BeingDeleted(i), AllSound(i),
           Known(i) \/ BeingMarked(i)
    PROVE  AllSound(i)'
<1>0. MixInv /\ TypeInv
  BY StepParts DEF KeepInv, OrderInv
<1> SUFFICES ASSUME NEW s \in Content, ~Sound(s, i)' PROVE FALSE
  BY DEF AllSound
<1>1. PICK t \in Threads : Takes(t, s, i)
  BY <1>0, SoundKept DEF AllSound
<1>2. /\ job[t].op = "delete" /\ Row(s, i) = Row(s, Of(t)) /\ ~(Shared(s) /\ job[t].shared)
      /\ s \in {"fts", "capsule"} => ~OthersAhead(job[t])
  BY <1>1 DEF Takes
<1>3. Of(t) # i /\ Of(t) \in Items
  BY <1>0, <1>2, AtWork DEF BeingDeleted
<1>4. i \in Touching(Of(t)) /\ s \in {"fts", "capsule"} /\ Shared(s)
  <2>1. i \in Touching(Of(t)) /\ s \in {"capsule", "fts", "hash"}
    BY <1>2, <1>3, RowTouches
  <2>2. s # "hash"
    BY DEF Content
  <2>3. Shared(s)
    BY <1>2, <1>3 DEF Row
  <2> QED BY <2>1, <2>2, <2>3
<1>5. record[i].id = 0
  BY <1>2, <1>3, <1>4 DEF KeepInv, SharedInv
<1>6. PICK x \in Threads : (Fl(job[x]) \/ job[x].op = "mark") /\ Of(x) = i
  BY <1>5 DEF Known, Fills, BeingMarked
<1>7. Rewriting(x) /\ job[x].op # "delete" /\ x # t
  BY <1>2, <1>6, Rewrite
<1> QED BY <1>0, <1>2, <1>4, <1>6, <1>7, Apart

(* The content of an item that is being filled.                            *)
LEMMA FilledIsSound ==
    ASSUME OrderInv, NEW t \in Threads, NEW i, Fills(t, i), i \notin muddled \/ InOrder(t)
    PROVE  AllSound(i)
BY DEF OrderInv, FilledInv, Fills, InOrder, AllSound

(* WholeInv is kept by every step.                                         *)
LEMMA WholeStep ==
    ASSUME KeepInv, WholeInv, OwnInv', StepFacts
    PROVE  WholeInv'
<1>0. MixInv /\ TypeInv /\ AloneInv /\ sqlite' = sqlite /\ OrderInv /\ GoneInv
  BY StepParts DEF KeepInv, OrderInv
<1> SUFFICES ASSUME NEW i \in Items, i \notin muddled', ~BeingDeleted(i)',
                    record'[i].id # 0 \/ BeingMarked(i)'
             PROVE  AllSound(i)' \/ HashOnly(i)'
  BY DEF WholeInv
<1>1. i \in Touching(i)
  BY DEF Touching
<1>2. CASE i \in muddled
  <2>1. PICK t \in Threads :
              /\ i = Of(t) /\ OthersTwin(t) /\ Settles(t) /\ InOrder(t) /\ record' = record
              /\ Lone(job[t]) /\ Rewriting(t)
              /\ \/ Fl(job[t]) /\ record[i].id # 0 /\ ~BumpAhead(job[t])
                 \/ /\ job[t].op = "delete" /\ InvalidatesOn(t) /\ rows' = rows /\ record[i].id = 0
                    /\ \A s : ~DropAhead(job[t], s)
    BY <1>0, <1>2, Settling
  <2>2. CASE Fl(job[t])
    <3>1. AllSound(i)
      BY <1>0, <2>1, <2>2, FilledIsSound DEF Fills
    <3>2. ASSUME NEW s \in Content, ~Sound(s, i)' PROVE FALSE
      <4>1. PICK u \in Threads : Takes(u, s, i)
        BY <1>0, <3>1, <3>2, SoundKept DEF AllSound
      <4>2. job[u].op = "delete" /\ Row(s, i) = Row(s, Of(u)) /\ Rewriting(u) /\ u # t
        BY <2>2, <4>1, Rewrite DEF Takes, Fl
      <4>3. Of(u) \in Touching(i)
        BY <1>0, <4>2, AtWork, RowTouches
      <4> QED BY <1>0, <2>1, <4>2, <4>3, Alone
    <3> QED BY <3>2 DEF AllSound
  <2>3. CASE job[t].op = "delete" /\ record[i].id = 0
    <3>1. PICK x \in Threads : job'[x].op = "mark" /\ job'[x].item = i
      BY <2>1, <2>3 DEF BeingMarked, Of
    <3> QED BY <1>0, <1>1, <2>1, <3>1, SettlesAlone DEF Rewrites
  <2> QED BY <2>1, <2>2, <2>3
<1>3. CASE i \notin muddled /\ BeingDeleted(i)
  <2>1. PICK t \in Threads :
              /\ job[t].op = "delete" /\ Of(t) = i /\ job'[t] = Idle /\ OthersTwin(t) /\ InOrder(t)
              /\ record'[i].id = 0
    BY <1>0, <1>3, DeletionOver
  <2>2. PICK x \in Threads : job'[x].op = "mark" /\ job'[x].item = i
    BY <2>1 DEF BeingMarked, Of
  <2>3. x # t
    BY <2>1, <2>2, IdleOk
  <2>4. job[x].op = "mark" /\ Of(x) = i
    BY <2>1, <2>2, <2>3 DEF OthersTwin, Twin, Of
  <2> QED BY <1>0, <1>1, <2>1, <2>3, <2>4, Rewrite, OrderApart
<1>4. CASE i \notin muddled /\ ~BeingDeleted(i)
  <2>1. ASSUME AllSound(i), Known(i) \/ BeingMarked(i) PROVE AllSound(i)'
    BY <1>4, <2>1, AllSoundKept
  <2>2. CASE \E t \in Threads : Fills(t, i)
    <3>1. AllSound(i)
      BY <1>0, <1>4, <2>2, FilledIsSound
    <3> QED BY <2>1, <2>2, <3>1 DEF Known
  <2>3. CASE (\A t \in Threads : ~Fills(t, i)) /\ (record[i].id # 0 \/ BeingMarked(i))
    <3>1. CASE AllSound(i)
      BY <2>1, <2>3, <3>1 DEF Known
    <3>2. CASE HashOnly(i)
      <4>1. Row("hash", i) \in rows'
        BY <3>2 DEF HashOnly, Has, StepFacts, RowFacts, Loses
      <4>2. Row("registry", i) \notin rows'
        <5> SUFFICES ASSUME Row("registry", i) \in rows' PROVE FALSE
          OBVIOUS
        <5>1. PICK t \in Threads : Gains(t, "registry", i)
          BY <3>2 DEF HashOnly, Has, StepFacts, RowFacts
        <5>2. Fl(job[t]) /\ Row("registry", i) = Row("registry", Of(t)) /\ job[t].op # "idle"
          BY <5>1 DEF Gains, Fl
        <5>3. Of(t) = i
          BY <1>0, <5>2, AtWork, RowTouches
        <5> QED BY <2>3, <5>2, <5>3 DEF Fills
      <4> QED BY <1>0, <4>1, <4>2, SamePlaces DEF HashOnly
    <3> QED BY <1>4, <2>3, <3>1, <3>2 DEF WholeInv
  <2>4. CASE (\A t \in Threads : ~Fills(t, i)) /\ record[i].id = 0 /\ ~BeingMarked(i)
    <3>1. \A s \in Alongside : ~Has(s, i)
      BY <1>0, <1>4, <2>4 DEF GoneInv
    <3>2. ~Has("registry", i) /\ ~Has("chunks", i)
      BY <3>1 DEF Alongside, Stores
    <3>3. record'[i].id = 0
      <4> SUFFICES ASSUME record'[i].id # 0 PROVE FALSE
        OBVIOUS
      <4>1. PICK t \in Threads : Records(t, i)
        BY <1>0, <2>4, StepParts DEF RecordFacts
      <4> QED BY <2>4, <4>1 DEF Records, Fills, BeingMarked
    <3>4. PICK x \in Threads : job'[x].op = "mark" /\ job'[x].item = i
      BY <3>3 DEF BeingMarked, Of
    <3>5. Has("hash", i) /\ RowsSame
      BY <1>0, <2>4, <3>2, <3>4, StepParts DEF MarkPast, StaysOn, BeingMarked, Of
    <3>6. HashOnly(i)'
      BY <1>0, <3>2, <3>5, SamePlaces DEF HashOnly, Has, RowsSame
    <3> QED BY <3>6
  <2> QED BY <2>2, <2>3, <2>4
<1> QED BY <1>2, <1>3, <1>4

-----------------------------------------------------------------------------
(* The answers.                                                            *)

(* The answers, and what was deleted.                                      *)
AskedInv ==
    \A x \in Threads : job[x].op = "search" => \A i \in job[x].ans : i \in Items /\ Owner[i] = Asker(x)

(* An item that is there again, or whose deletion is about to see to the   *)
(* answers.                                                                *)
Replaced(i) ==
    \E t \in Threads : Fills(t, i) \/ (job[t].op = "delete" /\ Of(t) = i /\ ~ForgetAhead(job[t]))

(* A deleted item is in no answer, stored or on its way, but in one marked *)
(* late                                                                    *)
(* or about to be seen to.                                                 *)
LateInv ==
    \A i \in Items : i \notin muddled /\ record[i].id = 0 =>
       /\ i \in cache[Owner[i]].ans => cache[Owner[i]].late = TRUE \/ Replaced(i)
       /\ \A x \in Threads : job[x].op = "search" /\ i \in job[x].ans => job[x].late = TRUE \/ Replaced(i)

(* AskedInv is kept by every step.                                         *)
LEMMA AskedStep ==
    ASSUME MixInv, AskedInv, StepFacts
    PROVE  AskedInv'
<1> SUFFICES ASSUME NEW x \in Threads, job'[x].op = "search", NEW i \in job'[x].ans
             PROVE  i \in Items /\ Owner[i] = Owner[job'[x].item]
  BY DEF AskedInv, Asker, Of
<1>1. CASE StaysOn(x) /\ SearchGoes(x)
  <2>1. job[x].op = "search" /\ (job'[x].ans = job[x].ans \/ job'[x].ans = Answers(x))
    BY <1>1 DEF SearchGoes
  <2>2. Owner[job'[x].item] = Asker(x)
    BY <1>1 DEF StaysOn, Asker, Of
  <2> QED BY <2>1, <2>2 DEF AskedInv, Answers
<1> QED BY <1>1, StepParts DEF SearchPast

(* A search that a deletion tells of itself,                               *)
LEMMA Told ==
    ASSUME TypeInv, NEW t \in Threads, InvalidatesOn(t), NEW x \in Threads, job'[x].op = "search",
           Owner[Of(t)] = Owner[job'[x].item]
    PROVE  job'[x].late = TRUE
<1>1. x # t
  BY IdleOk DEF InvalidatesOn
<1>2. job[x] \in JobType
  BY DEF TypeInv, JobsOk
<1>3. \/ job'[x] = job[x] /\ ~(job[x].op = "search" /\ Asker(x) = Owner[Of(t)])
      \/ job'[x] = [job[x] EXCEPT !.late = TRUE]
  BY <1>1 DEF InvalidatesOn
<1>4. CASE job'[x] = job[x] /\ ~(job[x].op = "search" /\ Asker(x) = Owner[Of(t)])
  BY <1>4 DEF Asker, Of
<1>5. CASE job'[x] = [job[x] EXCEPT !.late = TRUE]
  BY <1>2, <1>5 DEF JobType
<1> QED BY <1>3, <1>4, <1>5

(* and the answers it takes away.                                          *)
LEMMA Emptying ==
    ASSUME TypeInv, NEW t \in Threads, InvalidatesOn(t), NEW i \in Items, Of(t) = i
    PROVE  cache'[Owner[i]].ans = {}
<1>1. Owner[i] \in Users
  BY DEF Users
<1>2. cache'[Owner[i]] = NoAnswer
  BY <1>1 DEF InvalidatesOn, TypeInv
<1> QED BY <1>2 DEF NoAnswer

(* A deletion that no longer sees to the answers has just done so.         *)
LEMMA ReplacedKept ==
    ASSUME OrderInv, StepFacts, NEW i \in Items, i \notin muddled, i \notin muddled',
           record[i].id = 0,
           Replaced(i), ~Replaced(i)'
    PROVE  \E t \in Threads : Of(t) = i /\ InvalidatesOn(t)
<1>1. MixInv
  BY DEF OrderInv
<1>2. ASSUME NEW t \in Threads, Fills(t, i) PROVE FALSE
  BY <1>2, FillsKept DEF Replaced
<1>3. PICK t \in Threads : job[t].op = "delete" /\ Of(t) = i /\ ~ForgetAhead(job[t])
  BY <1>2 DEF Replaced
<1>4. ~DeleteOn(t)
  BY <1>3 DEF DeleteOn, DeleteGoes, StaysOn, Replaced, Of
<1>5. i \in Touching(Of(t))
  BY <1>3 DEF Touching
<1> QED BY <1>1, <1>3, <1>4, <1>5, StepParts DEF DeleteFuture, DeleteEnds

(* LateInv is kept by every step.                                          *)
LEMMA LateStep ==
    ASSUME OrderInv, GoneInv, AskedInv, LateInv, OwnInv', StepFacts
    PROVE  LateInv'
<1>0. MixInv /\ TypeInv /\ sqlite' = sqlite /\ AskedInv'
  BY StepParts, AskedStep DEF OrderInv
<1> SUFFICES ASSUME NEW i \in Items, i \notin muddled', record'[i].id = 0, ~Replaced(i)'
             PROVE  /\ i \in cache'[Owner[i]].ans => cache'[Owner[i]].late = TRUE
                    /\ \A x \in Threads : job'[x].op = "search" /\ i \in job'[x].ans => job'[x].late = TRUE
  BY DEF LateInv
<1>1. \A x \in Threads : job'[x].op = "search" /\ i \in job'[x].ans => Owner[i] = Owner[job'[x].item]
  BY <1>0 DEF AskedInv, Asker, Of
<1>2. ASSUME NEW t \in Threads, Of(t) = i, InvalidatesOn(t)
      PROVE  /\ i \notin cache'[Owner[i]].ans
             /\ \A x \in Threads : job'[x].op = "search" /\ i \in job'[x].ans => job'[x].late = TRUE
  <2>1. i \notin cache'[Owner[i]].ans
    BY <1>0, <1>2, Emptying
  <2> QED BY <1>0, <1>1, <1>2, <2>1, Told
<1>3. CASE i \in muddled
  <2>1. PICK t \in Threads :
              /\ i = Of(t) /\ record' = record
              /\ \/ Fl(job[t]) /\ record[i].id # 0 /\ ~BumpAhead(job[t])
                 \/ /\ job[t].op = "delete" /\ InvalidatesOn(t) /\ rows' = rows /\ record[i].id = 0
                    /\ \A s : ~DropAhead(job[t], s)
    BY <1>3, Settling
  <2> QED BY <1>2, <2>1
<1>4. CASE i \notin muddled /\ record[i].id # 0
  <2>1. PICK t \in Threads : Records(t, i)
    BY <1>0, <1>4, StepParts DEF RecordFacts
  <2>2. Replaced(i)'
    BY <2>1 DEF Records, Replaced, Of
  <2> QED BY <2>2
<1>5. CASE i \notin muddled /\ record[i].id = 0 /\ ~\E t \in Threads : Of(t) = i /\ InvalidatesOn(t)
  <2>1. ~Replaced(i)
    BY <1>5, ReplacedKept
  <2>2. /\ i \in cache[Owner[i]].ans => cache[Owner[i]].late = TRUE
        /\ \A x \in Threads : job[x].op = "search" /\ i \in job[x].ans => job[x].late = TRUE
    BY <1>5, <2>1 DEF LateInv
  <2>3. ASSUME i \in cache'[Owner[i]].ans PROVE cache'[Owner[i]].late = TRUE
    <3>1. Owner[i] \in Users
      BY DEF Users
    <3>2. CASE cache'[Owner[i]] = cache[Owner[i]]
      BY <2>2, <2>3, <3>2
    <3>3. CASE cache'[Owner[i]] = NoAnswer
      BY <2>3, <3>3 DEF NoAnswer
    <3>4. ASSUME NEW t \in Threads, StoresOn(t),
                 cache'[Owner[i]] = [ver |-> job[t].ver, began |-> job[t].began,
                                     ans |-> job[t].ans, late |-> job[t].late]
          PROVE  cache'[Owner[i]].late = TRUE
      BY <2>2, <2>3, <3>4 DEF StoresOn
    <3> QED BY <3>1, <3>2, <3>3, <3>4 DEF StepFacts, CacheFacts
  <2>4. ASSUME NEW x \in Threads, job'[x].op = "search", i \in job'[x].ans PROVE job'[x].late = TRUE
    <3>1. SearchGoes(x)
      BY <1>0, <2>4, StepParts DEF SearchPast
    <3>2. CASE job'[x].ans = job[x].ans
      BY <2>2, <2>4, <3>1, <3>2 DEF SearchGoes
    <3>3. CASE job'[x].ans = Answers(x) /\ RowsSame
      <4>1. Has("chunks", i) /\ "chunks" \in Alongside
        BY <2>4, <3>3 DEF Answers, Alongside, Stores
      <4>2. \E u \in Threads : Fills(u, i)
        BY <1>5, <4>1 DEF GoneInv
      <4> QED BY <2>1, <4>2 DEF Replaced
    <3> QED BY <3>1, <3>2, <3>3 DEF SearchGoes
  <2> QED BY <2>3, <2>4
<1> QED BY <1>2, <1>3, <1>4, <1>5

(* The answers, and what was stored.  An item counts as stored once it is  *)
(* registered, or once the ingest that stores it has raised the version.   *)
Stored(i) ==
    \/ i \notin muddled /\ Has("registry", i) /\ ~BeingDeleted(i)
    \/ \E t \in Threads : Fills(t, i) /\ InOrder(t) /\ ~BumpAhead(job[t])
Bumping(i) == \E t \in Threads : Fills(t, i) /\ BumpAhead(job[t])

(* No answer began under a version yet to come.                            *)
BeganInv ==
    ~sqlite => /\ version # 0
               /\ \A u \in Users : cache[u].began <= version
               /\ \A x \in Threads : job[x].op = "search" => job[x].began <= version

(* An answer begun under the current version holds every stored item,      *)
(* unless                                                                  *)
(* the version is about to be raised for it.                               *)
CurrentInv ==
    ~sqlite => \A i \in Items : Stored(i) =>
       /\ cache[Owner[i]].began = version => i \in cache[Owner[i]].ans \/ Bumping(i)
       /\ \A x \in Threads :
             /\ job[x].op = "search" /\ ~RetrieveAhead(job[x])
             /\ job[x].began = version /\ Asker(x) = Owner[i]
             => i \in job[x].ans \/ Bumping(i)

(* BeganInv is kept by every step.                                         *)
LEMMA BeganStep ==
    ASSUME TypeInv, BeganInv, StepFacts
    PROVE  BeganInv'
<1> SUFFICES ASSUME ~sqlite
             PROVE  /\ version' # 0
                    /\ \A u \in Users : cache'[u].began <= version'
                    /\ \A x \in Threads : job'[x].op = "search" => job'[x].began <= version'
  BY DEF BeganInv, StepFacts
<1>1. /\ version \in Nat /\ version # 0 /\ (version' = version \/ version' = version + 1)
      /\ \A u \in Users : cache[u].began <= version /\ cache[u].began \in Nat
      /\ \A x \in Threads : job[x].began \in Nat /\ (job[x].op = "search" => job[x].began <= version)
  BY DEF BeganInv, TypeInv, StepFacts, VersionFacts, JobsOk, JobType, EntryType
<1>2. ASSUME NEW u \in Users PROVE cache'[u].began <= version'
  <2>1. CacheFacts(u)
    BY DEF StepFacts
  <2>2. CASE cache'[u] = cache[u]
    BY <1>1, <2>2
  <2>3. CASE cache'[u] = NoAnswer
    BY <1>1, <2>3 DEF NoAnswer
  <2>4. ASSUME NEW t \in Threads, StoresOn(t),
               cache'[u] = [ver |-> job[t].ver, began |-> job[t].began,
                            ans |-> job[t].ans, late |-> job[t].late]
        PROVE  cache'[u].began <= version'
    <3>1. job[t].op = "search" /\ cache'[u].began = job[t].began
      BY <2>4 DEF StoresOn
    <3> QED BY <1>1, <3>1
  <2> QED BY <2>1, <2>2, <2>3, <2>4 DEF CacheFacts
<1>3. ASSUME NEW x \in Threads, job'[x].op = "search" PROVE job'[x].began <= version'
  <2>1. \/ job[x].op = "search" /\ job'[x].began = job[x].began
        \/ job'[x].began = version
    BY <1>3 DEF StepFacts, ThreadFacts, SearchPast, SearchGoes
  <2> QED BY <1>1, <2>1
<1> QED BY <1>1, <1>2, <1>3

(* An ingest raises the version after it adds the chunks.                  *)
LEMMA ChunksBump ==
    ASSUME TypeInv, NEW t \in Threads, AddsAhead(job[t], "chunks")
    PROVE  BumpAhead(job[t])
<1> DEFINE j == job[t]
<1>1. Fl(j) /\ AddsLater(PlanOf(j), j.at, "chunks")
  BY DEF AddsAhead
<1>2. Busy(j)
  BY <1>1, IdleAhead DEF TypeInv, JobsOk, JobOk
<1>3. FillPlan(PlanOf(j)) /\ j.at \in 1..Len(PlanOf(j))
  BY <1>1, <1>2, PlanIs
<1>4. Later(PlanOf(j), j.at, "bump")
  BY <1>1, <1>3, FillOrder
<1> QED BY <1>1, <1>4 DEF BumpAhead

(* While the version is the same, nothing becomes stored,                  *)
LEMMA StoredKept ==
    ASSUME OrderInv, StepFacts, ~sqlite, version' = version, NEW i \in Items, Stored(i)'
    PROVE  Stored(i)
<1>0. MixInv /\ TypeInv /\ sqlite' = sqlite /\ version \in Nat
  BY StepParts DEF OrderInv, TypeInv
<1>1. ASSUME NEW t \in Threads, Fl(job'[t]), job'[t].item = i, InOrder(t)', ~BumpAhead(job'[t])
      PROVE  Stored(i)
  <2>1. FillOn(t)
    BY <1>0, <1>1, StepParts DEF FillPast
  <2>2. InOrder(t) /\ Of(t) = i /\ Fl(job[t])
    BY <1>0, <1>1, <2>1, GoesInOrder
  <2>3. version # version + 1
    BY <1>0
  <2>4. ~BumpAhead(job[t])
    BY <1>1, <2>1, <2>3 DEF FillOn
  <2> QED BY <2>2, <2>4 DEF Stored, Fills
<1>2. ASSUME i \notin muddled', Row("registry", i) \in rows', ~BeingDeleted(i)'
      PROVE  Stored(i)
  <2>1. "registry" \in Stores \ {"hash", "fts", "capsule"}
    BY DEF Stores
  <2>2. CASE i \in muddled
    <3>1. PICK t \in Threads :
              /\ i = Of(t) /\ InOrder(t)
              /\ \/ Fl(job[t]) /\ record[i].id # 0 /\ ~BumpAhead(job[t])
                 \/ /\ job[t].op = "delete" /\ InvalidatesOn(t) /\ rows' = rows /\ record[i].id = 0
                    /\ \A s : ~DropAhead(job[t], s)
      BY <1>2, <2>2, Settling
    <3>2. CASE Fl(job[t])
      <4>1. job[t].op # "delete"
        BY <3>2 DEF Fl
      <4>2. ~BumpAhead(job[t])
        BY <3>1, <4>1
      <4>3. Of(t) = i /\ InOrder(t)
        BY <3>1
      <4> QED BY <3>2, <4>2, <4>3 DEF Stored, Fills
    <3>3. CASE job[t].op = "delete" /\ rows' = rows /\ \A s : ~DropAhead(job[t], s)
      <4>1. ~Has("registry", i)
        BY <2>1, <3>1, <3>3, DroppedAll
      <4> QED BY <1>2, <3>3, <4>1 DEF Has
    <3> QED BY <3>1, <3>2, <3>3
  <2>3. CASE i \notin muddled /\ ~Has("registry", i)
    <3>1. PICK t \in Threads : Gains(t, "registry", i)
      BY <1>2, <2>3 DEF StepFacts, RowFacts, Has
    <3>2. /\ Fl(job[t]) /\ ~BumpAhead(job[t]) /\ Row("registry", i) = Row("registry", Of(t))
          /\ job[t].op # "idle"
      BY <3>1 DEF Gains, Fl
    <3>3. Of(t) = i
      BY <1>0, <3>2, AtWork, RowTouches
    <3> QED BY <2>3, <3>2, <3>3 DEF Stored, Fills, InOrder
  <2>4. CASE i \notin muddled /\ Has("registry", i) /\ BeingDeleted(i)
    <3>1. PICK t \in Threads :
              /\ job[t].op = "delete" /\ Of(t) = i /\ InOrder(t) /\ rows' = rows
              /\ \A s : ~DropAhead(job[t], s)
      BY <1>2, <2>4, DeletionOver
    <3> QED BY <2>1, <2>4, <3>1, DroppedAll
  <2>5. CASE i \notin muddled /\ Has("registry", i) /\ ~BeingDeleted(i)
    BY <2>5 DEF Stored
  <2> QED BY <2>2, <2>3, <2>4, <2>5
<1>3. \/ i \notin muddled' /\ Row("registry", i) \in rows' /\ ~BeingDeleted(i)'
      \/ \E t \in Threads : Fl(job'[t]) /\ job'[t].item = i /\ InOrder(t)' /\ ~BumpAhead(job'[t])
  BY <1>0, SamePlaces DEF Stored, Fills, Of
<1> QED BY <1>1, <1>2, <1>3

(* and what is about to raise it remains so.                               *)
LEMMA BumpingKept ==
    ASSUME OrderInv, StepFacts, ~sqlite, version' = version, NEW i \in Items, Stored(i)', Bumping(i)
    PROVE  Bumping(i)'
<1>0. MixInv /\ TypeInv /\ AloneInv /\ version \in Nat
  BY StepParts DEF OrderInv, TypeInv
<1>1. PICK u \in Threads : Fl(job[u]) /\ Of(u) = i /\ BumpAhead(job[u])
  BY DEF Bumping, Fills
<1>2. CASE FillOn(u)
  <2>1. version # version + 1
    BY <1>0
  <2>2. Fl(job'[u]) /\ job'[u].item = i /\ BumpAhead(job'[u])
    BY <1>1, <1>2, <2>1 DEF FillOn, StaysOn, Of
  <2> QED BY <2>2 DEF Bumping, Fills, Of
<1>3. CASE job'[u] = Idle /\ FillEnds(u)
  <2>1. i \in muddled'
    BY <1>1, <1>3 DEF FillEnds, Touching
  <2>2. PICK t \in Threads : Fl(job'[t]) /\ job'[t].item = i /\ InOrder(t)' /\ ~BumpAhead(job'[t])
    BY <2>1 DEF Stored, Fills, Of
  <2>3. FillOn(t) /\ Lone(job'[t])
    BY <1>0, <2>1, <2>2, StepParts DEF FillPast, InOrder, Of
  <2>4. Rewriting(t) /\ Of(t) = i /\ i \in Touching(i) /\ Lone(job[t])
    BY <1>0, <2>2, <2>3, GoesInOrder DEF FillOn, StaysOn
  <2>5. u # t /\ Rewriting(u)
    BY <1>1, <1>3, <2>2, IdleAhead, Rewrite
  <2> QED BY <1>0, <1>1, <2>4, <2>5, Alone
<1> QED BY <1>0, <1>1, <1>2, <1>3, StepParts DEF FillFuture

(* What is stored is found.                                                *)
LEMMA StoredFound ==
    ASSUME KeepInv, WholeInv, ~sqlite, NEW i \in Items, Stored(i)
    PROVE  Has("chunks", i) \/ Bumping(i)
<1>0. OrderInv /\ GoneInv /\ TypeInv
  BY DEF KeepInv, OrderInv, MixInv, OwnInv
<1>1. Sound("chunks", i)
  <2>1. "chunks" \in Content /\ "registry" \in Alongside
    BY DEF Content, Alongside, Stores
  <2>2. AllSound(i)
    <3>1. CASE \E t \in Threads : Fills(t, i) /\ InOrder(t)
      BY <1>0, <3>1, FilledIsSound
    <3>2. CASE i \notin muddled /\ Has("registry", i) /\ ~BeingDeleted(i)
      <4>1. CASE record[i].id = 0
        <5>1. \E t \in Threads : Fills(t, i)
          BY <1>0, <2>1, <3>2, <4>1 DEF GoneInv
        <5> QED BY <1>0, <3>2, <5>1, FilledIsSound
      <4>2. CASE record[i].id # 0
        BY <3>2, <4>2 DEF WholeInv, HashOnly
      <4> QED BY <4>1, <4>2
    <3> QED BY <3>1, <3>2 DEF Stored
  <2> QED BY <2>1, <2>2 DEF AllSound
<1>2. ASSUME NEW u \in Threads, AddsAhead(job[u], "chunks"), Row("chunks", Of(u)) = Row("chunks", i)
      PROVE  Bumping(i)
  <2>1. BumpAhead(job[u]) /\ Fl(job[u]) /\ job[u].op # "idle"
    BY <1>0, <1>2, ChunksBump DEF AddsAhead, Fl
  <2>2. Of(u) = i
    BY <1>0, <1>2, <2>1, AtWork, RowTouches
  <2> QED BY <2>1, <2>2 DEF Bumping, Fills
<1> QED BY <1>1, <1>2 DEF Sound

(* CurrentInv is kept by every step.                                       *)
LEMMA CurrentStep ==
    ASSUME KeepInv, WholeInv, BeganInv, CurrentInv, OwnInv', StepFacts
    PROVE  CurrentInv'
<1>0. OrderInv /\ MixInv /\ TypeInv /\ sqlite' = sqlite
  BY StepParts DEF KeepInv, OrderInv
<1> SUFFICES ASSUME ~sqlite, NEW i \in Items, Stored(i)', ~Bumping(i)'
             PROVE  /\ cache'[Owner[i]].began = version' => i \in cache'[Owner[i]].ans
                    /\ \A x \in Threads :
                          /\ job'[x].op = "search" /\ ~RetrieveAhead(job'[x])
                          /\ job'[x].began = version' /\ Owner[job'[x].item] = Owner[i]
                          => i \in job'[x].ans
  BY <1>0 DEF CurrentInv, Asker, Of
<1>1. /\ version \in Nat /\ version # 0 /\ (version' = version \/ version' = version + 1)
      /\ \A u \in Users : cache[u].began <= version /\ cache[u].began \in Nat
      /\ \A x \in Threads : job[x].began \in Nat /\ (job[x].op = "search" => job[x].began <= version)
  BY DEF BeganInv, TypeInv, MixInv, OwnInv, OrderInv, KeepInv, StepFacts, VersionFacts, JobsOk,
         JobType, EntryType
<1>2. Owner[i] \in Users /\ CacheFacts(Owner[i])
  BY DEF Users, StepFacts
<1>3. version' = version => Stored(i) /\ ~Bumping(i)
  BY <1>0, StoredKept, BumpingKept
<1>4. version' = version =>
        /\ cache[Owner[i]].began = version => i \in cache[Owner[i]].ans
        /\ \A x \in Threads :
              /\ job[x].op = "search" /\ ~RetrieveAhead(job[x])
              /\ job[x].began = version /\ Asker(x) = Owner[i]
              => i \in job[x].ans
  BY <1>3 DEF CurrentInv
<1>5. ASSUME cache'[Owner[i]].began = version' PROVE i \in cache'[Owner[i]].ans
  <2>1. CASE cache'[Owner[i]] = cache[Owner[i]]
    <3>1. version' = version
      BY <1>1, <1>2, <1>5, <2>1
    <3> QED BY <1>4, <1>5, <2>1, <3>1
  <2>2. CASE cache'[Owner[i]] = NoAnswer
    BY <1>1, <1>5, <2>2 DEF NoAnswer
  <2>3. ASSUME NEW t \in Threads, StoresOn(t), Owner[i] = Asker(t),
               cache'[Owner[i]] = [ver |-> job[t].ver, began |-> job[t].began,
                                   ans |-> job[t].ans, late |-> job[t].late]
        PROVE  i \in cache'[Owner[i]].ans
    <3>1. /\ job[t].op = "search" /\ ~RetrieveAhead(job[t]) /\ cache'[Owner[i]].began = job[t].began
          /\ cache'[Owner[i]].ans = job[t].ans /\ version' = version
      BY <2>3 DEF StoresOn
    <3> QED BY <1>4, <1>5, <2>3, <3>1
  <2> QED BY <1>2, <2>1, <2>2, <2>3 DEF CacheFacts
<1>6. ASSUME NEW x \in Threads, job'[x].op = "search", ~RetrieveAhead(job'[x]),
             job'[x].began = version', Owner[job'[x].item] = Owner[i]
      PROVE  i \in job'[x].ans
  <2>1. StaysOn(x) /\ SearchGoes(x)
    BY <1>0, <1>6, StepParts DEF SearchPast
  <2>2. job[x].op = "search" /\ job[x].began = version' /\ Asker(x) = Owner[i]
    BY <1>6, <2>1 DEF StaysOn, SearchGoes, Asker, Of
  <2>3. version' = version
    BY <1>1, <2>2
  <2>4. CASE job'[x].ans = job[x].ans /\ ~RetrieveAhead(job[x])
    BY <1>4, <2>2, <2>3, <2>4
  <2>5. CASE job'[x].ans = Answers(x) /\ RowsSame
    <3>1. Has("chunks", i)
      BY <1>3, <2>3, StoredFound
    <3> QED BY <2>2, <2>5, <3>1 DEF Answers
  <2> QED BY <1>6, <2>1, <2>4, <2>5 DEF SearchGoes
<1> QED BY <1>5, <1>6

-----------------------------------------------------------------------------
(* The invariant of the memories.                                          *)

(* All of the invariant.                                                   *)
PlaneInv ==
    /\ KeepInv /\ ReviewInv /\ LivelyInv /\ NeededInv
    /\ WholeInv /\ AskedInv /\ LateInv /\ BeganInv /\ CurrentInv

(* The rows at the start: those of the items saved, and all their content. *)
LEMMA RowsAtFirst ==
    ASSUME NEW saved \in Starts, RecordsInit(saved), StoresInit(saved)
    PROVE  /\ \A i \in Items : \A s : Has(s, i) => \E j \in Touching(i) : j \in saved /\ Row(s, i) = Row(s, j)
           /\ \A i \in saved : \A s \in Content : Has(s, i)
<1> DEFINE V == {x \in saved : Source[x] \notin Pages}
           P == {x \in saved : Source[x] \in Pages}
<1>1. rows = {Row(s, i) : s \in Stores \ {"review"}, i \in V}
               \cup {Row(s, i) : s \in Stores \ {"review", "yt", "hash"}, i \in P}
  BY DEF StoresInit
<1>2. saved = V \cup P /\ saved \subseteq Items
  BY StartsAssumption
<1> HIDE DEF V, P
<1>3. ASSUME NEW i \in Items, NEW s, Has(s, i)
      PROVE  \E j \in Touching(i) : j \in saved /\ Row(s, i) = Row(s, j)
  <2>1. PICK r \in Stores, j \in saved : Row(s, i) = Row(r, j)
    BY <1>1, <1>2, <1>3 DEF Has
  <2>2. r = s
    BY <2>1 DEF Row
  <2>3. j \in Items /\ Row(s, i) = Row(s, j)
    BY <1>2, <2>1, <2>2
  <2> QED BY <2>3, RowTouches
<1>4. ASSUME NEW i \in saved, NEW s \in Content PROVE Has(s, i)
  <2>1. s \in Stores \ {"review", "yt", "hash"} /\ s \in Stores \ {"review"}
    BY DEF Content, Stores
  <2> QED BY <1>1, <1>2, <2>1 DEF Has
<1> QED BY <1>3, <1>4

(* PlaneInv holds at the start,                                            *)
LEMMA PlaneInit == Init => PlaneInv
<1> SUFFICES ASSUME NEW saved \in Starts, RecordsInit(saved), StoresInit(saved), Init PROVE PlaneInv
  BY DEF Init
<1>1. \A t \in Threads : job[t] = Idle /\ job[t].op = "idle" /\ ~Fl(job[t])
  BY IdleOk, IdleAhead DEF RecordsInit
<1>2. MixInv
  BY OwnInit, IdsInit, BesideInit DEF MixInv
<1>3. OrderInv
  BY <1>1, <1>2 DEF OrderInv, FilledInv, RecordedInv, MidInv, ForgottenInv, DroppedInv
<1>4. \A i \in Items : record[i].id # 0 <=> i \in saved
  BY DEF RecordsInit, Absent
<1>5. GoneInv
  <2> SUFFICES ASSUME NEW i \in Items, record[i].id = 0, NEW s \in Alongside, Has(s, i) PROVE FALSE
    BY DEF GoneInv
  <2>1. PICK j \in Touching(i) : j \in saved /\ Row(s, i) = Row(s, j)
    BY RowsAtFirst
  <2>2. j \in Items /\ s \notin {"capsule", "fts", "hash"}
    BY DEF Touching, Alongside
  <2> QED BY <1>4, <2>1, <2>2, RowTouches
<1>6. LivelyInv
  BY <1>4, RowsAtFirst DEF LivelyInv, Known, Touching
<1>7. WholeInv
  BY <1>1, <1>4, RowsAtFirst DEF WholeInv, AllSound, Sound, BeingMarked
<1>8. ReviewInv /\ NeededInv /\ SharedInv /\ AskedInv
  BY <1>1 DEF ReviewInv, NeededInv, SharedInv, AskedInv
<1>9. \A i \in Items : Owner[i] \in Users
  BY DEF Users
<1>10. version = 1 /\ \A u \in Users : cache[u].began = 0 /\ cache[u].ans = {}
  BY DEF StoresInit, NoAnswer
<1>11. LateInv
  BY <1>1, <1>9, <1>10 DEF LateInv
<1>12. BeganInv /\ CurrentInv
  BY <1>1, <1>9, <1>10 DEF BeganInv, CurrentInv
<1> QED BY <1>3, <1>5, <1>6, <1>7, <1>8, <1>11, <1>12 DEF PlaneInv, KeepInv

(* and is kept by every step.                                              *)
LEMMA PlaneStep == PlaneInv /\ [Next]_vars => PlaneInv'
<1> SUFFICES ASSUME PlaneInv, [Next]_vars PROVE PlaneInv'
  OBVIOUS
<1>1. OrderInv /\ MixInv /\ OwnInv /\ TypeInv /\ IdsInv
  BY DEF PlaneInv, KeepInv, OrderInv, MixInv, OwnInv
<1>2. OwnInv' /\ StepFacts /\ IdsInv'
  BY <1>1, OwnStep, NextFacts, IdsStep
<1>3. OrderInv'
  <2>1. BesideInv'
    BY <1>1, <1>2, BesideStep
  <2>2. FilledInv' /\ RecordedInv' /\ MidInv' /\ ForgottenInv' /\ DroppedInv'
    BY <1>1, <1>2, FilledStep, RecordedStep, MidStep, ForgottenStep, DroppedStep DEF OrderInv
  <2> QED BY <1>2, <2>1, <2>2 DEF OrderInv, MixInv
<1>4. GoneInv' /\ ReviewInv' /\ SharedInv'
  BY <1>1, <1>2, GoneStep, ReviewStep, SharedStep DEF PlaneInv, KeepInv
<1>5. LivelyInv' /\ NeededInv'
  BY <1>1, <1>2, LivelyStep, NeededStep DEF PlaneInv, KeepInv
<1>6. WholeInv' /\ AskedInv' /\ LateInv'
  BY <1>1, <1>2, WholeStep, AskedStep, LateStep DEF PlaneInv, KeepInv
<1>7. BeganInv' /\ CurrentInv'
  BY <1>1, <1>2, BeganStep, CurrentStep DEF PlaneInv, KeepInv
<1> QED BY <1>3, <1>4, <1>5, <1>6, <1>7 DEF PlaneInv, KeepInv

(* What PlaneInv says of a settled item.                                   *)
LEMMA SettledIs ==
    ASSUME PlaneInv, NEW i \in Items, Settled(i)
    PROVE  /\ i \in Touching(i) /\ ~BeingDeleted(i) /\ ~Bumping(i) /\ ~Replaced(i)
           /\ \A j \in Touching(i) : j \in Items /\ j \notin muddled /\ \A t \in Threads : ~Fills(t, j)
           /\ \A s : Sound(s, i) => Has(s, i)
<1>1. i \in Touching(i) /\ \A j \in Touching(i) : j \in Items /\ j \notin muddled
  BY DEF Settled, Touching
<1>2. \A t \in Threads : Of(t) \in Touching(i) => job[t].op \notin {"ingest", "delete"} /\ ~Fl(job[t])
  BY DEF Settled, Rewriting, Fl
<1>3. \A j \in Touching(i) : \A t \in Threads : ~Fills(t, j)
  BY <1>2 DEF Fills
<1>4. ~BeingDeleted(i) /\ ~Bumping(i) /\ ~Replaced(i)
  BY <1>1, <1>2, <1>3 DEF BeingDeleted, Bumping, Replaced
<1>5. ASSUME NEW s, Sound(s, i), ~Has(s, i) PROVE FALSE
  <2>1. PICK u \in Threads : AddsAhead(job[u], s) /\ Row(s, Of(u)) = Row(s, i)
    BY <1>5 DEF Sound
  <2>2. Fl(job[u])
    BY <2>1 DEF AddsAhead
  <2>3. TypeInv
    BY DEF PlaneInv, KeepInv, OrderInv, MixInv, OwnInv
  <2>4. Of(u) \in Items
    BY <2>2, <2>3, AtWork DEF Fl
  <2> QED BY <1>2, <2>1, <2>2, <2>4, RowTouches
<1> QED BY <1>1, <1>3, <1>4, <1>5

(* No record, no id.                                                       *)
LEMMA AbsentIs ==
    ASSUME PlaneInv, NEW i \in Items
    PROVE  record[i] = Absent <=> record[i].id = 0
BY DEF PlaneInv, KeepInv, OrderInv, MixInv, IdsInv, RecordIds, Absent

(* What the runs check follows: a memory is whole,                         *)
LEMMA PlaneWhole == PlaneInv => SettledMemoriesAreWhole
<1> SUFFICES ASSUME PlaneInv, NEW i \in Items, record[i] # Absent, Settled(i)
             PROVE  Whole(i) \/ (~Has("registry", i) /\ Has("hash", i))
  BY DEF SettledMemoriesAreWhole
<1>1. i \notin muddled /\ record[i].id # 0 /\ ~BeingDeleted(i)
  BY SettledIs, AbsentIs
<1>2. AllSound(i) \/ HashOnly(i)
  BY <1>1 DEF PlaneInv, WholeInv
<1>3. CASE AllSound(i)
  BY <1>3, SettledIs DEF AllSound, Whole
<1>4. CASE HashOnly(i)
  BY <1>4 DEF HashOnly
<1> QED BY <1>2, <1>3, <1>4

(* a deletion leaves nothing,                                              *)
LEMMA PlaneGone == PlaneInv => SettledDeletionsLeaveNothing
<1> SUFFICES ASSUME PlaneInv, NEW i \in Items, record[i] = Absent, Settled(i)
             PROVE  /\ \A s \in Stores \ {"yt", "hash", "fts", "capsule"} : ~Has(s, i)
                    /\ \A s \in {"fts", "capsule"} :
                          Has(s, i) => \E j \in Touching(i) : record[j] # Absent
  BY DEF SettledDeletionsLeaveNothing
<1>1. /\ i \in Touching(i) /\ record[i].id = 0
      /\ \A j \in Touching(i) : j \in Items /\ j \notin muddled /\ \A t \in Threads : ~Fills(t, j)
  BY SettledIs, AbsentIs
<1>2. \A s \in Stores \ {"yt", "hash", "fts", "capsule"} : ~Has(s, i)
  BY <1>1 DEF PlaneInv, KeepInv, GoneInv, Alongside
<1>3. ASSUME NEW s \in {"fts", "capsule"}, Has(s, i)
      PROVE  \E j \in Touching(i) : record[j] # Absent
  <2>1. PICK j \in Touching(i) : Known(j) \/ j \in muddled
    BY <1>3 DEF PlaneInv, LivelyInv
  <2>2. record[j].id # 0 /\ j \in Items
    BY <1>1, <2>1 DEF Known
  <2> QED BY <2>2, AbsentIs
<1> QED BY <1>2, <1>3

(* and the answers are current.                                            *)
LEMMA PlaneCurrent == PlaneInv => AnswersAreCurrent
<1> SUFFICES ASSUME PlaneInv, NEW i \in Items, Settled(i)
             PROVE  /\ ~sqlite /\ cache[Owner[i]].ver = version /\ cache[Owner[i]].began = version
                          /\ Has("registry", i)
                       => i \in cache[Owner[i]].ans
                    /\ i \in cache[Owner[i]].ans /\ record[i] = Absent => cache[Owner[i]].late = TRUE
  BY DEF AnswersAreCurrent
<1>1. i \notin muddled /\ ~BeingDeleted(i) /\ ~Bumping(i) /\ ~Replaced(i)
  BY SettledIs
<1>2. ASSUME ~sqlite, cache[Owner[i]].began = version, Has("registry", i)
      PROVE  i \in cache[Owner[i]].ans
  <2>1. Stored(i)
    BY <1>1, <1>2 DEF Stored
  <2> QED BY <1>1, <1>2, <2>1 DEF PlaneInv, CurrentInv
<1>3. ASSUME i \in cache[Owner[i]].ans, record[i] = Absent
      PROVE  cache[Owner[i]].late = TRUE
  <2>1. record[i].id = 0
    BY <1>3, AbsentIs
  <2> QED BY <1>1, <1>3, <2>1 DEF PlaneInv, LateInv
<1> QED BY <1>2, <1>3

(* A memory whose last ingest or deletion ran with no other on what it     *)
(* shares                                                                  *)
(* and without a failure since is in every store, or is a video with a     *)
(* known                                                                   *)
(* transcript and only a record: for any number of threads, items,         *)
(* operations                                                              *)
(* and failures.                                                           *)
THEOREM MemoryPlaneWhole == Spec => []SettledMemoriesAreWhole
BY PlaneInit, PlaneStep, PlaneWhole, PTL DEF Spec

(* A deleted memory leaves, once no ingest or deletion is under way, no    *)
(* row but                                                                 *)
(* the lexical rows and the capsule of a source that another user still    *)
(* has.                                                                    *)
THEOREM MemoryPlaneGone == Spec => []SettledDeletionsLeaveNothing
BY PlaneInit, PlaneStep, PlaneGone, PTL DEF Spec

(* In Postgres no current answer misses a memory that is completely        *)
(* stored, and                                                             *)
(* no answer holds a deleted memory but one whose search was under way.    *)
THEOREM MemoryPlaneCurrent == Spec => []AnswersAreCurrent
BY PlaneInit, PlaneStep, PlaneCurrent, PTL DEF Spec
=============================================================================
