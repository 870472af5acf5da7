----------------------------- MODULE FiniteSums -----------------------------
(***************************************************************************)
(* Facts about the sum of a function over a finite set: it is 0 on the     *)
(* empty set, any element can be taken out first, and it depends on the    *)
(* values in the set only.  The fold of the community modules takes the    *)
(* elements in the order CHOOSE gives, so each fact is one about a         *)
(* recursive function on the subsets, shown on a smallest subset on which  *)
(* it would fail.                                                          *)
(***************************************************************************)
EXTENDS FiniteSetsExt, FiniteSetTheorems, TLAPS

SumOver(w, U) == MapThenSumSet(LAMBDA i : w[i], U)

AnyOf(s) == CHOOSE x \in s : TRUE

\* g sums w over every subset of U, taking out the elements as the fold does.
SumsTo(g, w, U) ==
    g = [s \in SUBSET U |-> IF s = {} THEN 0 ELSE w[AnyOf(s)] + g[s \ {AnyOf(s)}]]

LEMMA AnyOfIn ==
    ASSUME NEW s, s # {}
    PROVE  AnyOf(s) \in s
BY DEF AnyOf

\* A set of subsets of a finite set has a smallest one.
LEMMA SmallestSubset ==
    ASSUME NEW U, IsFiniteSet(U), NEW T \in SUBSET (SUBSET U), T # {}
    PROVE  \E m \in T : \A s \in T : s \subseteq m => s = m
<1>1. T \subseteq FiniteSubsetsOf(U)
  BY FS_FiniteSubsetsOfFinite
<1>2. PICK m \in T : \A s \in T : ~ (<<s, m>> \in StrictSubsetOrdering(U))
  BY <1>1, FS_StrictSubsetOrderingWellFounded, WFMin
<1>3. ASSUME NEW s \in T, s \subseteq m PROVE s = m
  BY <1>2, <1>3 DEF StrictSubsetOrdering
<1> QED BY <1>3

\* Two such functions agree wherever both are defined.
LEMMA SumsAgree ==
    ASSUME NEW w, NEW U, NEW V, IsFiniteSet(V), V \subseteq U,
           NEW g, SumsTo(g, w, U), NEW h, SumsTo(h, w, V),
           NEW s \in SUBSET V
    PROVE  g[s] = h[s]
<1>1. PICK T : T = {t \in SUBSET V : g[t] # h[t]}
  OBVIOUS
<1>2. SUFFICES ASSUME T # {} PROVE FALSE
  BY <1>1
<1>0. T \in SUBSET (SUBSET V)
  BY <1>1
<1>3. PICK m \in T : \A t \in T : t \subseteq m => t = m
  BY <1>0, <1>2, SmallestSubset
<1>4. m \in SUBSET V /\ m \in SUBSET U /\ g[m] # h[m]
  BY <1>1, <1>3
<1>5. CASE m = {}
  BY <1>4, <1>5 DEF SumsTo
<1>6. CASE m # {}
  <2>1. PICK p : p = AnyOf(m)
    OBVIOUS
  <2>2. p \in m
    BY <1>6, <2>1, AnyOfIn
  <2>3. m \ {p} \in SUBSET V /\ m \ {p} \subseteq m /\ m \ {p} # m
    BY <1>4, <2>2
  <2>4. g[m \ {p}] = h[m \ {p}]
    BY <1>1, <1>3, <2>3
  <2>5. g[m] = w[p] + g[m \ {p}]
    BY <1>4, <1>6, <2>1 DEF SumsTo
  <2>6. h[m] = w[p] + h[m \ {p}]
    BY <1>4, <1>6, <2>1 DEF SumsTo
  <2> QED BY <1>4, <2>4, <2>5, <2>6
<1> QED BY <1>5, <1>6

\* The recursion has a solution on every finite set.
LEMMA SumsExist ==
    ASSUME NEW w, NEW U, IsFiniteSet(U)
    PROVE  \E g : SumsTo(g, w, U)
<1>1. PICK T : T = {V \in SUBSET U : ~ \E g : SumsTo(g, w, V)}
  OBVIOUS
<1>2. SUFFICES ASSUME T # {} PROVE FALSE
  BY <1>1
<1>0. T \in SUBSET (SUBSET U)
  BY <1>1
<1>3. PICK m \in T : \A t \in T : t \subseteq m => t = m
  BY <1>2, <1>0, SmallestSubset
<1>4. m \in SUBSET U /\ ~ \E g : SumsTo(g, w, m)
  BY <1>1, <1>3
<1>5. PICK best : best = [V \in SUBSET U |-> CHOOSE g : SumsTo(g, w, V)]
  OBVIOUS
<1>6. ASSUME NEW V \in SUBSET m, V # m PROVE SumsTo(best[V], w, V)
  <2>1. V \in SUBSET U /\ \E g : SumsTo(g, w, V)
    BY <1>1, <1>3, <1>4, <1>6
  <2> QED BY <1>5, <2>1
<1>7. PICK g : g = [s \in SUBSET m |-> IF s = {} THEN 0
                                       ELSE w[AnyOf(s)] + best[s \ {AnyOf(s)}][s \ {AnyOf(s)}]]
  OBVIOUS
<1>8. ASSUME NEW s \in SUBSET m, s # {}
      PROVE  g[s \ {AnyOf(s)}] = best[s \ {AnyOf(s)}][s \ {AnyOf(s)}]
  <2>1. PICK r : r = s \ {AnyOf(s)}
    OBVIOUS
  <2>2. r \in SUBSET m /\ r # m /\ IsFiniteSet(r)
    BY <1>4, <1>8, <2>1, AnyOfIn, FS_Subset
  <2>3. SumsTo(best[r], w, r)
    BY <1>6, <2>2
  <2>4. CASE r = {}
    BY <1>7, <2>2, <2>3, <2>4, <2>1 DEF SumsTo
  <2>5. CASE r # {}
    <3>1. PICK p : p = AnyOf(r)
      OBVIOUS
    <3>2. p \in r
      BY <2>5, <3>1, AnyOfIn
    <3>3. PICK q : q = r \ {p}
      OBVIOUS
    <3>4. q \in SUBSET m /\ q # m /\ q \subseteq r /\ q \in SUBSET q /\ IsFiniteSet(q)
      BY <2>2, <3>2, <3>3, FS_Subset
    <3>5. PICK b : b = best[r]
      OBVIOUS
    <3>6. PICK c : c = best[q]
      OBVIOUS
    <3>7. SumsTo(b, w, r) /\ SumsTo(c, w, q)
      BY <1>6, <2>3, <3>4, <3>5, <3>6
    <3>8. b[q] = c[q]
      BY <3>4, <3>7, SumsAgree
    <3>9. b[r] = w[p] + b[q]
      BY <3>7, <2>5, <3>1, <3>3 DEF SumsTo
    <3>10. g[r] = w[p] + c[q]
      BY <1>7, <2>2, <2>5, <3>1, <3>3, <3>6
    <3> QED BY <2>1, <3>5, <3>8, <3>9, <3>10
  <2> QED BY <2>4, <2>5
<1>9. SumsTo(g, w, m)
  BY <1>7, <1>8 DEF SumsTo
<1> QED BY <1>4, <1>9

LEMMA SumIsSolution ==
    ASSUME NEW w, NEW U, IsFiniteSet(U), NEW g, SumsTo(g, w, U)
    PROVE  SumOver(w, U) = g[U]
<1>1. PICK c : c = CHOOSE h : SumsTo(h, w, U)
  OBVIOUS
<1>2. SumsTo(c, w, U)
  BY <1>1, SumsExist
<1>3. SumOver(w, U) = c[U]
  BY <1>1 DEF SumOver, MapThenSumSet, MapThenFoldSet, SumsTo, AnyOf
<1> QED BY <1>2, <1>3, SumsAgree

LEMMA SumEmpty == \A w : SumOver(w, {}) = 0
<1> SUFFICES ASSUME NEW w PROVE SumOver(w, {}) = 0
  OBVIOUS
<1>1. IsFiniteSet({})
  BY FS_EmptySet
<1>2. PICK g : SumsTo(g, w, {})
  BY <1>1, SumsExist
<1>3. g[{}] = 0
  BY <1>2 DEF SumsTo
<1> QED BY <1>1, <1>2, <1>3, SumIsSolution

LEMMA SumStep ==
    ASSUME NEW w, NEW U, IsFiniteSet(U), U # {}
    PROVE  SumOver(w, U) = w[AnyOf(U)] + SumOver(w, U \ {AnyOf(U)})
<1>1. PICK p : p = AnyOf(U)
  OBVIOUS
<1>2. PICK q : q = U \ {p}
  OBVIOUS
<1>3. p \in U /\ IsFiniteSet(q) /\ q \subseteq U /\ q \in SUBSET q
  BY <1>1, <1>2, AnyOfIn, FS_Subset
<1>4. PICK g : SumsTo(g, w, U)
  BY SumsExist
<1>5. PICK h : SumsTo(h, w, q)
  BY <1>3, SumsExist
<1>6. g[U] = w[p] + g[q]
  BY <1>1, <1>2, <1>4 DEF SumsTo
<1>7. g[q] = h[q]
  BY <1>3, <1>4, <1>5, SumsAgree
<1>8. SumOver(w, U) = g[U] /\ SumOver(w, q) = h[q]
  BY <1>3, <1>4, <1>5, SumIsSolution
<1> QED BY <1>1, <1>2, <1>6, <1>7, <1>8

\* A sum of naturals is a natural.
LEMMA SumNat ==
    ASSUME NEW w, NEW U, IsFiniteSet(U), \A x \in U : w[x] \in Nat
    PROVE  SumOver(w, U) \in Nat
<1>1. PICK T : T = {V \in SUBSET U : SumOver(w, V) \notin Nat}
  OBVIOUS
<1>2. SUFFICES ASSUME T # {} PROVE FALSE
  BY <1>1
<1>3. T \in SUBSET (SUBSET U)
  BY <1>1
<1>4. PICK m \in T : \A t \in T : t \subseteq m => t = m
  BY <1>2, <1>3, SmallestSubset
<1>5. m \subseteq U /\ SumOver(w, m) \notin Nat /\ IsFiniteSet(m)
  BY <1>1, <1>4, FS_Subset
<1>6. m # {}
  BY <1>5, SumEmpty
<1>7. PICK p : p = AnyOf(m)
  OBVIOUS
<1>8. p \in m
  BY <1>6, <1>7, AnyOfIn
<1>9. SumOver(w, m \ {p}) \in Nat
  BY <1>1, <1>4, <1>5, <1>8
<1>10. SumOver(w, m) = w[p] + SumOver(w, m \ {p})
  BY <1>5, <1>6, <1>7, SumStep
<1> QED BY <1>5, <1>8, <1>9, <1>10

\* Any element may be taken out first.
LEMMA SumRemove ==
    ASSUME NEW w, NEW U, IsFiniteSet(U), \A x \in U : w[x] \in Nat, NEW x \in U
    PROVE  SumOver(w, U) = w[x] + SumOver(w, U \ {x})
<1>1. PICK T : T = {V \in SUBSET U : \E y \in V : SumOver(w, V) # w[y] + SumOver(w, V \ {y})}
  OBVIOUS
<1>2. SUFFICES ASSUME T # {} PROVE FALSE
  BY <1>1
<1>3. T \in SUBSET (SUBSET U)
  BY <1>1
<1>4. PICK m \in T : \A t \in T : t \subseteq m => t = m
  BY <1>2, <1>3, SmallestSubset
<1>5. m \subseteq U /\ IsFiniteSet(m)
  BY <1>1, <1>4, FS_Subset
<1>6. PICK y \in m : SumOver(w, m) # w[y] + SumOver(w, m \ {y})
  BY <1>1, <1>4
<1>7. PICK p : p = AnyOf(m)
  OBVIOUS
<1>8. p \in m
  BY <1>6, <1>7, AnyOfIn
<1>9. SumOver(w, m) = w[p] + SumOver(w, m \ {p})
  BY <1>5, <1>6, <1>7, SumStep
<1>10. p # y
  BY <1>6, <1>9
<1>11. PICK q : q = m \ {p}
  OBVIOUS
<1>12. PICK r : r = m \ {y}
  OBVIOUS
<1>13. PICK s : s = q \ {y}
  OBVIOUS
<1>14. s = r \ {p}
  BY <1>11, <1>12, <1>13
<1>15. q \in SUBSET U /\ q \subseteq m /\ q # m /\ y \in q
  BY <1>5, <1>8, <1>10, <1>11
<1>16. r \in SUBSET U /\ r \subseteq m /\ r # m /\ p \in r
  BY <1>5, <1>6, <1>8, <1>10, <1>12
<1>17. q \notin T /\ r \notin T
  BY <1>4, <1>15, <1>16
<1>18. SumOver(w, q) = w[y] + SumOver(w, s)
  BY <1>1, <1>13, <1>15, <1>17
<1>19. SumOver(w, r) = w[p] + SumOver(w, s)
  BY <1>1, <1>14, <1>16, <1>17
<1>20. s \subseteq U /\ IsFiniteSet(s)
  BY <1>13, <1>15, FS_Subset
<1>21. SumOver(w, s) \in Nat
  BY <1>20, SumNat
<1>22. w[p] \in Nat /\ w[y] \in Nat
  BY <1>5, <1>6, <1>8
<1> QED BY <1>6, <1>9, <1>11, <1>12, <1>18, <1>19, <1>21, <1>22

LEMMA SumAdd ==
    ASSUME NEW w, NEW U, IsFiniteSet(U), \A x \in U : w[x] \in Nat,
           NEW x, x \notin U, w[x] \in Nat
    PROVE  SumOver(w, U \cup {x}) = w[x] + SumOver(w, U)
<1>1. PICK V : V = U \cup {x}
  OBVIOUS
<1>2. IsFiniteSet(V) /\ x \in V /\ V \ {x} = U /\ \A y \in V : w[y] \in Nat
  BY <1>1, FS_AddElement
<1> QED BY <1>1, <1>2, SumRemove

\* The sum depends on the values in the set only.
LEMMA SumSame ==
    ASSUME NEW w, NEW v, NEW U, IsFiniteSet(U), \A x \in U : w[x] = v[x]
    PROVE  SumOver(w, U) = SumOver(v, U)
<1>1. PICK T : T = {V \in SUBSET U : SumOver(w, V) # SumOver(v, V)}
  OBVIOUS
<1>2. SUFFICES ASSUME T # {} PROVE FALSE
  BY <1>1
<1>3. T \in SUBSET (SUBSET U)
  BY <1>1
<1>4. PICK m \in T : \A t \in T : t \subseteq m => t = m
  BY <1>2, <1>3, SmallestSubset
<1>5. m \subseteq U /\ SumOver(w, m) # SumOver(v, m) /\ IsFiniteSet(m)
  BY <1>1, <1>4, FS_Subset
<1>6. m # {}
  BY <1>5, SumEmpty
<1>7. PICK p : p = AnyOf(m)
  OBVIOUS
<1>8. p \in m
  BY <1>6, <1>7, AnyOfIn
<1>9. SumOver(w, m \ {p}) = SumOver(v, m \ {p})
  BY <1>1, <1>4, <1>5, <1>8
<1>10. SumOver(w, m) = w[p] + SumOver(w, m \ {p})
  BY <1>5, <1>6, <1>7, SumStep
<1>11. SumOver(v, m) = v[p] + SumOver(v, m \ {p})
  BY <1>5, <1>6, <1>7, SumStep
<1> QED BY <1>5, <1>8, <1>9, <1>10, <1>11

\* A subset of naturals sums to no more.
LEMMA SumSubset ==
    ASSUME NEW w, NEW U, IsFiniteSet(U), \A x \in U : w[x] \in Nat, NEW V, V \subseteq U
    PROVE  SumOver(w, V) <= SumOver(w, U)
<1>1. PICK T : T = {s \in SUBSET U : V \subseteq s /\ ~ (SumOver(w, V) <= SumOver(w, s))}
  OBVIOUS
<1>2. SUFFICES ASSUME T # {} PROVE FALSE
  BY <1>1
<1>3. T \in SUBSET (SUBSET U)
  BY <1>1
<1>4. PICK m \in T : \A t \in T : t \subseteq m => t = m
  BY <1>2, <1>3, SmallestSubset
<1>5. m \subseteq U /\ V \subseteq m /\ ~ (SumOver(w, V) <= SumOver(w, m)) /\ IsFiniteSet(m)
  BY <1>1, <1>4, FS_Subset
<1>6. IsFiniteSet(V) /\ SumOver(w, V) \in Nat
  BY FS_Subset, SumNat
<1>7. PICK x \in m : x \notin V
  BY <1>5, <1>6
<1>8. SumOver(w, m) = w[x] + SumOver(w, m \ {x})
  BY <1>5, <1>7, SumRemove
<1>9. SumOver(w, V) <= SumOver(w, m \ {x})
  BY <1>1, <1>4, <1>5, <1>7
<1>10. IsFiniteSet(m \ {x}) /\ \A y \in m \ {x} : w[y] \in Nat
  BY <1>5, FS_Subset
<1>11. SumOver(w, m \ {x}) \in Nat /\ w[x] \in Nat
  BY <1>5, <1>10, SumNat
<1> QED BY <1>5, <1>6, <1>8, <1>9, <1>11

\* A sum may be taken over the images of the elements under an injection.
LEMMA SumMoved ==
    ASSUME NEW w, NEW v, NEW f, NEW U, IsFiniteSet(U),
           \A x \in U : w[x] \in Nat /\ v[f[x]] = w[x],
           \A x, y \in U : f[x] = f[y] => x = y
    PROVE  SumOver(v, {f[x] : x \in U}) = SumOver(w, U)
<1>1. PICK T : T = {V \in SUBSET U : SumOver(v, {f[x] : x \in V}) # SumOver(w, V)}
  OBVIOUS
<1>2. SUFFICES ASSUME T # {} PROVE FALSE
  BY <1>1
<1>3. T \in SUBSET (SUBSET U)
  BY <1>1
<1>4. PICK m \in T : \A t \in T : t \subseteq m => t = m
  BY <1>2, <1>3, SmallestSubset
<1>5. m \subseteq U /\ SumOver(v, {f[x] : x \in m}) # SumOver(w, m) /\ IsFiniteSet(m)
  BY <1>1, <1>4, FS_Subset
<1>6. m # {}
  <2>1. {f[x] : x \in {}} = {}
    OBVIOUS
  <2> QED BY <1>5, <2>1, SumEmpty
<1>7. PICK p \in m : TRUE
  BY <1>6
<1>8. PICK r : r = m \ {p}
  OBVIOUS
<1>9. r \subseteq m /\ r # m /\ r \subseteq U /\ IsFiniteSet(r)
  BY <1>5, <1>7, <1>8, FS_Subset
<1>10. PICK R : R = {f[x] : x \in r}
  OBVIOUS
<1>11. SumOver(v, R) = SumOver(w, r)
  BY <1>1, <1>4, <1>9, <1>10
<1>12. SumOver(w, m) = w[p] + SumOver(w, r)
  BY <1>5, <1>7, <1>8, SumRemove
<1>13. IsFiniteSet(R)
  <2>1. PICK g : g = [x \in r |-> f[x]]
    OBVIOUS
  <2>2. g \in Surjection(r, R)
    BY <1>10, <2>1 DEF Surjection
  <2> QED BY <1>9, <2>2, FS_Surjection
<1>14. \A y \in R : v[y] \in Nat
  BY <1>9, <1>10
<1>15. f[p] \notin R /\ v[f[p]] = w[p] /\ w[p] \in Nat
  BY <1>5, <1>7, <1>8, <1>9, <1>10
<1>16. {f[x] : x \in m} = R \cup {f[p]}
  BY <1>7, <1>8, <1>10
<1>17. SumOver(v, R \cup {f[p]}) = v[f[p]] + SumOver(v, R)
  BY <1>13, <1>14, <1>15, SumAdd
<1> QED BY <1>5, <1>11, <1>12, <1>15, <1>16, <1>17
=============================================================================
