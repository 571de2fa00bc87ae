---------------------------- MODULE MCPgJobQueue ----------------------------
(* Instances of PgJobQueue for TLC: one job.                               *)
EXTENDS PgJobQueue, TLC

CONSTANTS j1, NItems

MCItems == 1..NItems
MCJobOf == [i \in MCItems |-> j1]

Symmetric == Permutations(Workers)
=============================================================================
