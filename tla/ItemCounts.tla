----------------------------- MODULE ItemCounts -----------------------------
(* Counting items by their job and their state: what the progress counters *)
(* of background_jobs count, for both job queues.                          *)
EXTENDS Integers, FiniteSetTheorems, TLAPS

(* The items of D that o assigns to job j and f holds in state s.          *)
Having(D, o, f, j, s) == {i \in D : o[i] = j /\ f[i] = s}

(* What is counted is finite.                                              *)
LEMMA HavingFinite ==
    ASSUME NEW D, IsFiniteSet(D), NEW o, NEW f, NEW j, NEW s
    PROVE  /\ IsFiniteSet(Having(D, o, f, j, s))
           /\ Cardinality(Having(D, o, f, j, s)) \in Nat
<1>1. Having(D, o, f, j, s) \subseteq D
  BY DEF Having
<1>2. IsFiniteSet(Having(D, o, f, j, s))
  BY <1>1, FS_Subset
<1> QED BY <1>2, FS_CardinalityType

(* g is f with the state of one item changed.                              *)
Moved(D, f, g, i, from, to) ==
    /\ from # to /\ f[i] = from
    /\ \A k \in D : g[k] = IF k = i THEN to ELSE f[k]

(* Changing the state of one item moves one unit between two counts of its *)
(* job and leaves every other count alone.                                 *)
LEMMA MoveOne ==
    ASSUME NEW D, IsFiniteSet(D), NEW o, NEW f, NEW g, NEW i \in D, NEW from, NEW to,
           Moved(D, f, g, i, from, to)
    PROVE  /\ Cardinality(Having(D, o, g, o[i], to))
                = Cardinality(Having(D, o, f, o[i], to)) + 1
           /\ Cardinality(Having(D, o, g, o[i], from))
                = Cardinality(Having(D, o, f, o[i], from)) - 1
           /\ Cardinality(Having(D, o, f, o[i], from)) > 0
           /\ \A k, s : k # o[i] \/ (s # to /\ s # from)
                          => Having(D, o, g, k, s) = Having(D, o, f, k, s)
<1> DEFINE A == Having(D, o, f, o[i], to)
           B == Having(D, o, f, o[i], from)
<1> USE DEF Moved
<1>1. i \in B /\ i \notin A
  BY DEF Having
<1>2. Having(D, o, g, o[i], to) = A \cup {i}
  BY DEF Having
<1>3. Having(D, o, g, o[i], from) = B \ {i}
  BY DEF Having
<1>4. ASSUME NEW k, NEW s, k # o[i] \/ (s # to /\ s # from)
      PROVE  Having(D, o, g, k, s) = Having(D, o, f, k, s)
  <2>1. \A l \in D : o[l] = k => ((g[l] = s) <=> (f[l] = s))
    BY <1>4
  <2> QED BY <2>1 DEF Having
<1>5. IsFiniteSet(A) /\ IsFiniteSet(B) /\ Cardinality(B) \in Nat
  BY HavingFinite
<1> HIDE DEF A, B
<1>6. Cardinality(A \cup {i}) = Cardinality(A) + 1
  BY <1>1, <1>5, FS_AddElement
<1>7. Cardinality(B \ {i}) = Cardinality(B) - 1
  BY <1>1, <1>5, FS_RemoveElement
<1>8. Cardinality(B) > 0
  BY <1>1, <1>5, FS_EmptySet
<1> QED BY <1>2, <1>3, <1>4, <1>6, <1>7, <1>8 DEF A, B
=============================================================================
