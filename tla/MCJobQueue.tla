----------------------------- MODULE MCJobQueue -----------------------------
(* Instances of JobQueue for TLC: one job with all the items, or two jobs, *)
(* the first with one item.                                                *)
EXTENDS JobQueue, TLC

CONSTANTS j1, j2, w1, w2, w3, w4, NItems

MCItems == 1..NItems
MCJobOf == [i \in MCItems |-> j1]
MCSplitJobOf == [i \in MCItems |-> IF i = 1 THEN j1 ELSE j2]

(* Two server starts of two worker threads each.                           *)
MCWorkers == {w1, w2, w3, w4}
MCStartOf == [w \in MCWorkers |-> IF w \in {w1, w2} THEN 1 ELSE 2]

(* Two threads at the first start, one at the second.                      *)
MCFewWorkers == {w1, w2, w3}
MCFewStartOf == [w \in MCFewWorkers |-> IF w = w3 THEN 2 ELSE 1]

Symmetric == Permutations({w1, w2}) \cup Permutations({w3, w4}) \cup Permutations(Clients)
=============================================================================
