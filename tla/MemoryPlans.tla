----------------------------- MODULE MemoryPlans -----------------------------
(***************************************************************************)
(* What the operations on memories do, as the sequence of their store      *)
(* calls, each <<kind, argument>>.  Calls on stores that no other step     *)
(* reads between them go together.                                         *)
(***************************************************************************)
EXTENDS Naturals, Sequences

Pipeline == <<"captured", "parsed", "enriched", "embedded", "connected", "verified", "trusted">>
States == {Pipeline[k] : k \in 1..Len(Pipeline)} \cup {"merged", "archived", "revived"}

(* finalize_ingest: the lifecycle, the graph and the trust of what was     *)
(* stored; the trust decides on the last transition.                       *)
Finalize(trusted) ==
    <<<<"put", "captured">>, <<"advance", "enriched">>, <<"put", "kept">>,
      <<"advance", "embedded">>, <<"add", {"links"}>>, <<"put", "kept">>,
      <<"advance", "connected">>, <<"advance", "verified">>, <<"put", "kept">>>>
    \o (IF trusted THEN <<<<"advance", "trusted">>>> ELSE <<>>)
    \o <<<<"add", {"topics"}>>>>

Replace ==
    <<<<"drop", {"vectors", "fts"}>>, <<"drop", {"chunks"}>>, <<"add", {"chunks"}>>,
      <<"add", {"vectors", "capsule", "fts"}>>>>

Bump(local) == IF local THEN <<<<"bump", {}>>, <<"wipe", {}>>>> ELSE <<<<"bump", {}>>>>

(* Mutant of VideoPlan: the chunks are never written again.                *)
VideoPlanKeepsOldChunks(local, trusted) ==
    SubSeq(Replace, 1, 2) \o SubSeq(Replace, 4, 4) \o <<<<"add", {"hash"}>>>> \o Bump(local)
    \o <<<<"add", {"registry"}>>>> \o Finalize(trusted) \o <<<<"add", {"url"}>>>>

VideoPlan(local, trusted) ==
    Replace \o <<<<"add", {"hash"}>>>> \o Bump(local) \o <<<<"add", {"registry"}>>>>
    \o Finalize(trusted) \o <<<<"add", {"url"}>>>>

PagePlan(local, trusted) ==
    Replace \o Bump(local) \o <<<<"add", {"registry"}>>>>
    \o Finalize(trusted) \o <<<<"add", {"url"}>>>>

(* mark_existing_indexed, for what is found to be indexed already.         *)
MarkPlan == <<<<"put", "captured">>, <<"put", "kept">>, <<"advance", "trusted">>>>

(* delete_memory, up to the links.                                         *)
Removals(page) ==
    <<<<"drop", {"chunks"}>>, <<"others", {}>>, <<"drop", {"fts"}>>,
      <<"drop", {"vectors", "capsule"}>>, <<"drop", {"review"}>>, <<"drop", {"registry"}>>,
      <<"drop", {"url"}>>>>
    \o (IF page THEN <<>> ELSE <<<<"drop", {"yt"}>>>>)

Links == <<"drop", {"links", "topics"}>>

(* Mutants of DeletionPlan: without the review schedule, and with the      *)
(* record before the links.                                                *)
DeletionPlanKeepsReviews(page) ==
    SelectSeq(Removals(page), LAMBDA call : call # <<"drop", {"review"}>>)
    \o <<Links, <<"forget", {}>>, <<"invalidate", {}>>>>

DeletionPlanForgetsFirst(page) ==
    Removals(page) \o <<<<"forget", {}>>, Links, <<"invalidate", {}>>>>

DeletionPlan(page) ==
    Removals(page) \o <<Links, <<"forget", {}>>, <<"invalidate", {}>>>>

SearchPlan == <<<<"get", {}>>, <<"retrieve", {}>>, <<"put?", {}>>, <<"store", {}>>>>

Names ==
    ({"video", "page"} \X BOOLEAN \X BOOLEAN) \cup ({"read"} \X {"transcript", "refetch"})
        \cup ({"delete"} \X BOOLEAN) \cup ({"to"} \X {"archived", "revived", "merged"})
        \cup {<<"mark">>, <<"review">>, <<"search">>}

Plan == [n \in Names |->
    CASE n[1] = "video"  -> VideoPlan(n[2], n[3])
      [] n[1] = "page"   -> PagePlan(n[2], n[3])
      [] n[1] = "read"   -> <<<<n[2], {}>>>>
      [] n[1] = "to"     -> <<n>>
      [] n[1] = "delete" -> DeletionPlan(n[2])
      [] n[1] = "mark"   -> MarkPlan
      [] n[1] = "review" -> <<<<"add", {"review"}>>>>
      [] n[1] = "search" -> SearchPlan]
=============================================================================
