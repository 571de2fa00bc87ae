---------------------------- MODULE MCMemoryPlane ----------------------------
(* Two users' copies a and b of one video v, and a page p of the first.      *)
EXTENDS MemoryPlane, TLC

CONSTANTS a, b, c, u1, u2, v, p, t1, t2

MCOwner  == a :> u1 @@ b :> u2 @@ c :> u1
MCSource == a :> v @@ b :> v @@ c :> p
MCStarts == {{b, c}}
MCSaved  == {{a, b, c}}
Alike == Permutations({t1, t2})
===============================================================================
