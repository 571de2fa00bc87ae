----------------------------- MODULE MCServicePlane -----------------------------
(***************************************************************************)
(* Two threads; two routes with a budget of one call each; three videos    *)
(* that share a topic, which is the second of one of them: with every cap  *)
(* at one, this video is not found by it, and the third indexing may meet  *)
(* more videos than it compares with; two commands, and tokens good for    *)
(* one second of three.                                                    *)
(***************************************************************************)
EXTENDS ServicePlane, TLC

CONSTANTS t1, t2, h1, h2, best, other

MCThreads == {t1, t2}
MCHooks == {h1, h2}
MCPreference == <<best, other>>
MCBudget == [r \in {best, other} |-> 1]
MCVideos == {"v1", "v2", "v3"}
MCTopicsOf == [v1 |-> <<"a">>, v2 |-> <<"b", "a">>, v3 |-> <<"a">>]
MCEntitiesOf == [v1 |-> <<"b">>, v2 |-> <<>>, v3 |-> <<>>]
Symmetry == Permutations({t1, t2}) \cup Permutations({h1, h2}) \cup Permutations(Commands)
=============================================================================
