-------------------------------- MODULE Sums --------------------------------
(***************************************************************************)
(* Sums of natural numbers over finite sets, as MapThenSumSet of the       *)
(* community modules computes them, for use in proofs.  The summands are   *)
(* the values of a function, so that the facts below can be cited for any  *)
(* sum.  LeastElement and LeastSet are the induction principles: a         *)
(* statement that fails for some number, or some finite set, fails for a   *)
(* least one.                                                              *)
(***************************************************************************)
EXTENDS Integers, FiniteSetsExt, FiniteSetTheorems, WellFoundedInduction, TLAPS

LEMMA LeastElement ==
    ASSUME NEW T, T \subseteq Nat, T # {}
    PROVE  \E m \in T : \A n \in T : m <= n
<1> DEFINE R == OpToRel(<, Nat)
<1>1. IsWellFoundedOn(R, Nat)
  BY NatLessThanWellFounded
<1> HIDE DEF R
<1>2. PICK m \in T : \A y \in T : ~(<<y, m>> \in R)
  BY <1>1, WFMin
<1>3. \A y \in T : y \in Nat /\ m \in Nat /\ ~(y < m)
  BY <1>2 DEF R, OpToRel
<1> QED
  BY <1>3

\* A nonempty set of finite sets has a member of which no proper subset is one:
\* the induction principle for sums.
LEMMA LeastSet ==
    ASSUME NEW S, IsFiniteSet(S), NEW Bad, Bad \subseteq SUBSET S, Bad # {}
    PROVE  \E b \in Bad : \A t \in SUBSET b : t # b => t \notin Bad
<1> DEFINE sizes == {Cardinality(b) : b \in Bad}
<1>1. \A b \in SUBSET S : IsFiniteSet(b) /\ Cardinality(b) \in Nat
  BY FS_Subset, FS_CardinalityType
<1>2. sizes \subseteq Nat /\ sizes # {}
  BY <1>1
<1>3. PICK m \in sizes : \A n \in sizes : m <= n
  BY <1>2, LeastElement
<1>4. PICK b \in Bad : Cardinality(b) = m
  BY <1>3
<1>5. ASSUME NEW t \in SUBSET b, t # b, t \in Bad
      PROVE  FALSE
  <2>1. Cardinality(t) <= Cardinality(b) /\ Cardinality(t) # Cardinality(b)
    BY <1>1, <1>5, FS_Subset
  <2>2. m <= Cardinality(t)
    BY <1>3, <1>5
  <2>3. Cardinality(t) \in Nat /\ Cardinality(b) \in Nat
    BY <1>1, <1>5
  <2> QED
    BY <1>4, <2>1, <2>2, <2>3
<1> QED
  BY <1>4, <1>5

-----------------------------------------------------------------------------
\* The sum of w over the finite set S, as the community modules compute it.
SumOver(w, S) == MapThenSumSet(LAMBDA x : w[x], S)

Chosen(s) == CHOOSE x \in s : TRUE

\* g is the recursive function that MapThenSumSet evaluates.
IsSum(g, w, S) ==
    g = [s \in SUBSET S |->
           IF s = {} THEN 0 ELSE w[Chosen(s)] + g[s \ {Chosen(s)}]]

LEMMA SumOverIs == ASSUME NEW w, NEW S PROVE SumOver(w, S) = (CHOOSE g : IsSum(g, w, S))[S]
BY DEF SumOver, IsSum, Chosen, MapThenSumSet, MapThenFoldSet

LEMMA SumUnique ==
    ASSUME NEW S, IsFiniteSet(S), NEW w, NEW g, NEW h, IsSum(g, w, S), IsSum(h, w, S)
    PROVE  g = h
<1> DEFINE Bad == {t \in SUBSET S : g[t] # h[t]}
<1>1. SUFFICES ASSUME Bad # {} PROVE FALSE
  BY DEF IsSum
<1>2. PICK b \in Bad : \A t \in SUBSET b : t # b => t \notin Bad
  <2>1. Bad \subseteq SUBSET S
    OBVIOUS
  <2> HIDE DEF Bad
  <2> QED
    BY <1>1, <2>1, LeastSet
<1>3. g[b] = (IF b = {} THEN 0 ELSE w[Chosen(b)] + g[b \ {Chosen(b)}])
      /\ h[b] = (IF b = {} THEN 0 ELSE w[Chosen(b)] + h[b \ {Chosen(b)}])
  BY DEF IsSum
<1>4. b # {} => b \ {Chosen(b)} # b
  BY DEF Chosen
<1>5. b # {} => g[b \ {Chosen(b)}] = h[b \ {Chosen(b)}]
  BY <1>2, <1>4
<1> QED
  BY <1>2, <1>3, <1>5

LEMMA SumRestricts ==
    ASSUME NEW S, NEW t \in SUBSET S, NEW w, NEW g, IsSum(g, w, S)
    PROVE  IsSum([s \in SUBSET t |-> g[s]], w, t)
<1>1. \A s \in SUBSET t : s \in SUBSET S /\ s \ {Chosen(s)} \in SUBSET t
  OBVIOUS
<1>2. \A s \in SUBSET t :
        g[s] = IF s = {} THEN 0 ELSE w[Chosen(s)] + g[s \ {Chosen(s)}]
  BY <1>1 DEF IsSum
<1> QED
  BY <1>1, <1>2 DEF IsSum

LEMMA SumExists ==
    ASSUME NEW S, IsFiniteSet(S), NEW w
    PROVE  \E g : IsSum(g, w, S)
<1> DEFINE Bad == {t \in SUBSET S : ~ \E g : IsSum(g, w, t)}
<1>1. SUFFICES ASSUME Bad # {} PROVE FALSE
  OBVIOUS
<1>2. PICK b \in Bad : \A t \in SUBSET b : t # b => t \notin Bad
  <2>1. Bad \subseteq SUBSET S
    OBVIOUS
  <2> HIDE DEF Bad
  <2> QED
    BY <1>1, <2>1, LeastSet
<1> DEFINE f == [t \in SUBSET b |-> CHOOSE g : IsSum(g, w, t)]
           c == Chosen(b)
           v == IF b = {} THEN 0 ELSE w[c] + f[b \ {c}][b \ {c}]
           g == [t \in SUBSET b |-> IF t = b THEN v ELSE f[t][t]]
<1>3. \A t \in SUBSET b : t # b => IsSum(f[t], w, t)
  BY <1>2
<1> HIDE DEF f, Bad
<1>4. b # {} => c \in b
  BY DEF Chosen
<1>5. ASSUME NEW t \in SUBSET b
      PROVE  g[t] = IF t = {} THEN 0 ELSE w[Chosen(t)] + g[t \ {Chosen(t)}]
  <2>1. CASE t = b
    BY <1>4, <2>1
  <2>2. CASE t # b /\ t = {}
    <3>1. IsSum(f[t], w, t)
      BY <1>3, <2>2
    <3>2. f[t][t] = 0
      BY <2>2, <3>1 DEF IsSum
    <3> QED
      BY <2>2, <3>2
  <2>3. CASE t # b /\ t # {}
    <3> DEFINE x == Chosen(t)
               r == t \ {x}
    <3>1. x \in t /\ r \in SUBSET t /\ r \in SUBSET b /\ r # b /\ r # t
      BY <2>3 DEF Chosen
    <3>2. IsSum(f[t], w, t) /\ IsSum(f[r], w, r)
      BY <1>3, <2>3, <3>1
    <3>4. IsFiniteSet(r)
      BY <1>2, <3>1, FS_Subset DEF Bad
    <3> DEFINE ft == f[t]
    <3> HIDE DEF r, ft
    <3>3. IsSum([s \in SUBSET r |-> ft[s]], w, r)
      <4>1. IsSum(ft, w, t) /\ r \in SUBSET t
        BY <3>1, <3>2 DEF ft
      <4> QED
        BY <4>1, SumRestricts
    <3>5. [s \in SUBSET r |-> ft[s]] = f[r]
      BY <3>2, <3>3, <3>4, SumUnique
    <3>6. f[t][r] = f[r][r]
      BY <3>5 DEF ft
    <3>7. f[t][t] = w[x] + f[t][r]
      BY <2>3, <3>2 DEF IsSum, r
    <3> QED
      BY <2>3, <3>1, <3>6, <3>7 DEF r
  <2> QED
    BY <2>1, <2>2, <2>3
<1>6. IsSum(g, w, b)
  BY <1>5 DEF IsSum
<1> QED
  BY <1>2, <1>6 DEF Bad

\* How MapThenSumSet takes a sum apart.
LEMMA SumStep ==
    ASSUME NEW S, IsFiniteSet(S), NEW w
    PROVE  SumOver(w, S) =
             IF S = {} THEN 0 ELSE w[Chosen(S)] + SumOver(w, S \ {Chosen(S)})
<1> DEFINE g == CHOOSE g : IsSum(g, w, S)
           r == S \ {Chosen(S)}
           h == CHOOSE h : IsSum(h, w, r)
<1>1. IsSum(g, w, S)
  BY SumExists
<1>2. IsFiniteSet(r) /\ r \in SUBSET S
  BY FS_Subset
<1>3. IsSum(h, w, r)
  BY <1>2, SumExists
<1>4. SumOver(w, S) = g[S] /\ SumOver(w, r) = h[r]
  BY SumOverIs
<1> HIDE DEF g, h
<1>5. IsSum([s \in SUBSET r |-> g[s]], w, r)
  BY <1>1, <1>2, SumRestricts
<1>6. [s \in SUBSET r |-> g[s]] = h
  BY <1>2, <1>3, <1>5, SumUnique
<1>7. g[r] = h[r]
  BY <1>6
<1>8. g[S] = IF S = {} THEN 0 ELSE w[Chosen(S)] + g[r]
  BY <1>1 DEF IsSum
<1> QED
  BY <1>4, <1>7, <1>8

Naturals(w, S) == \A x \in S : w[x] \in Nat

LEMMA SumEmpty == ASSUME NEW w PROVE SumOver(w, {}) = 0
<1>1. IsFiniteSet({})
  BY FS_EmptySet
<1> QED
  BY <1>1, SumStep

LEMMA SumType ==
    ASSUME NEW S, IsFiniteSet(S), NEW w, Naturals(w, S)
    PROVE  SumOver(w, S) \in Nat
<1> DEFINE Bad == {t \in SUBSET S : SumOver(w, t) \notin Nat}
<1>1. SUFFICES ASSUME Bad # {} PROVE FALSE
  OBVIOUS
<1>2. Bad \subseteq SUBSET S
  OBVIOUS
<1> HIDE DEF Bad
<1>3. PICK b \in Bad : \A t \in SUBSET b : t # b => t \notin Bad
  BY <1>1, <1>2, LeastSet
<1>4. b \in SUBSET S /\ SumOver(w, b) \notin Nat
  BY DEF Bad
<1>5. b # {}
  BY SumEmpty, <1>4
<1> DEFINE c == Chosen(b)
<1>6. c \in b
  BY <1>5 DEF Chosen
<1>7. SumOver(w, b) = w[c] + SumOver(w, b \ {c})
  <2>1. IsFiniteSet(b)
    BY <1>4, FS_Subset
  <2> QED
    BY <1>5, <2>1, SumStep
<1>8. SumOver(w, b \ {c}) \in Nat
  BY <1>3, <1>4, <1>6 DEF Bad
<1>9. w[c] \in Nat
  BY <1>4, <1>6 DEF Naturals
<1> QED
  BY <1>4, <1>7, <1>8, <1>9

\* The order in which the elements are taken does not matter.
LEMMA SumRemove ==
    ASSUME NEW S, IsFiniteSet(S), NEW w, Naturals(w, S), NEW x \in S
    PROVE  SumOver(w, S) = SumOver(w, S \ {x}) + w[x]
<1> DEFINE Splits(t, y) == SumOver(w, t) = SumOver(w, t \ {y}) + w[y]
           Bad == {t \in SUBSET S : \E y \in t : ~Splits(t, y)}
<1>1. SUFFICES ASSUME Bad # {} PROVE FALSE
  OBVIOUS
<1>2. Bad \subseteq SUBSET S
  OBVIOUS
<1> HIDE DEF Bad
<1>3. PICK b \in Bad : \A t \in SUBSET b : t # b => t \notin Bad
  BY <1>1, <1>2, LeastSet
<1>4. b \in SUBSET S
  BY DEF Bad
<1>5. PICK y \in b : ~Splits(b, y)
  BY DEF Bad
<1>6. ASSUME NEW t \in SUBSET b, t # b, NEW z \in t
      PROVE  Splits(t, z)
  BY <1>3, <1>4, <1>6 DEF Bad
<1>7. ASSUME NEW t \in SUBSET b
      PROVE  IsFiniteSet(t) /\ SumOver(w, t) \in Nat
  <2>1. IsFiniteSet(t) /\ Naturals(w, t)
    BY <1>4, FS_Subset DEF Naturals
  <2> QED
    BY <2>1, SumType
<1> DEFINE c == Chosen(b)
           r == (b \ {c}) \ {y}
<1>8. c \in b
  BY <1>5 DEF Chosen
<1>9. SumOver(w, b) = w[c] + SumOver(w, b \ {c})
  <2>1. IsFiniteSet(b) /\ b # {}
    BY <1>5, <1>7
  <2> QED
    BY <2>1, SumStep
<1>10. w[c] \in Nat /\ w[y] \in Nat
  BY <1>4, <1>5, <1>8 DEF Naturals
<1> HIDE DEF c
<1>11. SumOver(w, b \ {c}) \in Nat /\ SumOver(w, b \ {y}) \in Nat /\ SumOver(w, r) \in Nat
  BY <1>7
<1>12. c # y
  BY <1>5, <1>9, <1>10, <1>11
<1>13. SumOver(w, b \ {c}) = SumOver(w, r) + w[y]
  <2>1. Splits(b \ {c}, y)
    BY <1>5, <1>6, <1>8, <1>12
  <2> QED
    BY <2>1
<1>14. SumOver(w, b \ {y}) = SumOver(w, r) + w[c]
  <2>1. Splits(b \ {y}, c)
    BY <1>5, <1>6, <1>8, <1>12
  <2>2. (b \ {y}) \ {c} = r
    OBVIOUS
  <2> QED
    BY <2>1, <2>2
<1> HIDE DEF r
<1> QED
  BY <1>5, <1>9, <1>10, <1>11, <1>13, <1>14

LEMMA SumAdd ==
    ASSUME NEW S, IsFiniteSet(S), NEW w, NEW x, x \notin S, Naturals(w, S \cup {x})
    PROVE  SumOver(w, S \cup {x}) = SumOver(w, S) + w[x]
<1>1. IsFiniteSet(S \cup {x})
  BY FS_AddElement
<1>2. (S \cup {x}) \ {x} = S
  OBVIOUS
<1>3. SumOver(w, S \cup {x}) = SumOver(w, (S \cup {x}) \ {x}) + w[x]
  BY <1>1, SumRemove
<1> QED
  BY <1>2, <1>3

\* Sums compare as their summands do, up to factors.
LEMMA SumScaled ==
    ASSUME NEW S, IsFiniteSet(S), NEW w, NEW z, Naturals(w, S), Naturals(z, S),
           NEW a \in Nat, NEW b \in Nat, \A x \in S : a * w[x] <= b * z[x]
    PROVE  a * SumOver(w, S) <= b * SumOver(z, S)
<1> DEFINE Bad == {t \in SUBSET S : ~(a * SumOver(w, t) <= b * SumOver(z, t))}
<1>1. SUFFICES ASSUME Bad # {} PROVE FALSE
  OBVIOUS
<1>2. Bad \subseteq SUBSET S
  OBVIOUS
<1> HIDE DEF Bad
<1>3. PICK t \in Bad : \A s \in SUBSET t : s # t => s \notin Bad
  BY <1>1, <1>2, LeastSet
<1>4. t \in SUBSET S /\ ~(a * SumOver(w, t) <= b * SumOver(z, t))
  BY DEF Bad
<1>5. t # {}
  BY SumEmpty, <1>4
<1>6. PICK x \in t : TRUE
  BY <1>5
<1>7. IsFiniteSet(t) /\ Naturals(w, t) /\ Naturals(z, t)
  BY <1>4, FS_Subset DEF Naturals
<1> DEFINE r == t \ {x}
           p == SumOver(w, r)
           q == SumOver(z, r)
<1>8. IsFiniteSet(r) /\ Naturals(w, r) /\ Naturals(z, r) /\ r \in SUBSET S /\ r # t
  BY <1>4, <1>6, <1>7, FS_Subset DEF Naturals
<1>9. SumOver(w, t) = p + w[x] /\ SumOver(z, t) = q + z[x]
  BY <1>6, <1>7, SumRemove
<1>10. p \in Nat /\ q \in Nat /\ w[x] \in Nat /\ z[x] \in Nat
  BY <1>6, <1>7, <1>8, SumType DEF Naturals
<1>11. a * p <= b * q
  BY <1>3, <1>8 DEF Bad
<1>12. a * w[x] <= b * z[x]
  BY <1>4, <1>6
<1> HIDE DEF p, q
<1>13. a * (p + w[x]) = a * p + a * w[x] /\ b * (q + z[x]) = b * q + b * z[x]
  BY <1>10
<1>14. a * (p + w[x]) <= b * (q + z[x])
  BY <1>10, <1>11, <1>12, <1>13
<1> QED
  BY <1>4, <1>9, <1>14

LEMMA SumMonotone ==
    ASSUME NEW S, IsFiniteSet(S), NEW w, NEW z, Naturals(w, S), Naturals(z, S),
           \A x \in S : w[x] <= z[x]
    PROVE  SumOver(w, S) <= SumOver(z, S)
<1>1. \A x \in S : 1 * w[x] <= 1 * z[x]
  BY DEF Naturals
<1>2. 1 * SumOver(w, S) <= 1 * SumOver(z, S)
  BY <1>1, SumScaled
<1> QED
  BY <1>2, SumType

LEMMA SumSame ==
    ASSUME NEW S, IsFiniteSet(S), NEW w, NEW z, Naturals(w, S),
           \A x \in S : w[x] = z[x]
    PROVE  SumOver(w, S) = SumOver(z, S)
<1>1. Naturals(z, S)
  BY DEF Naturals
<1>2. SumOver(w, S) <= SumOver(z, S) /\ SumOver(z, S) <= SumOver(w, S)
  <2>1. \A x \in S : w[x] <= z[x] /\ z[x] <= w[x]
    BY DEF Naturals
  <2> QED
    BY <1>1, <2>1, SumMonotone
<1> QED
  BY <1>1, <1>2, SumType

\* One summand changes.
LEMMA SumOneChanged ==
    ASSUME NEW S, IsFiniteSet(S), NEW w, NEW z, Naturals(w, S), Naturals(z, S),
           NEW x \in S, \A y \in S : y # x => z[y] = w[y]
    PROVE  SumOver(z, S) = SumOver(w, S) - w[x] + z[x]
<1> DEFINE r == S \ {x}
<1>1. IsFiniteSet(r) /\ Naturals(w, r) /\ Naturals(z, r)
  BY FS_Subset DEF Naturals
<1>2. SumOver(w, r) = SumOver(z, r)
  <2>1. \A y \in r : w[y] = z[y]
    OBVIOUS
  <2> QED
    BY <1>1, <2>1, SumSame
<1>3. SumOver(w, r) \in Nat
  BY <1>1, SumType
<1>4. SumOver(w, S) = SumOver(w, r) + w[x] /\ SumOver(z, S) = SumOver(z, r) + z[x]
  BY SumRemove
<1> QED
  BY <1>2, <1>3, <1>4 DEF Naturals

LEMMA SumChange ==
    ASSUME NEW S, IsFiniteSet(S), NEW w \in [S -> Nat], NEW x \in S, NEW m \in Nat
    PROVE  SumOver([w EXCEPT ![x] = m], S) = SumOver(w, S) - w[x] + m
<1> DEFINE z == [w EXCEPT ![x] = m]
<1>1. Naturals(w, S) /\ Naturals(z, S) /\ z[x] = m /\ \A y \in S : y # x => z[y] = w[y]
  BY DEF Naturals
<1> HIDE DEF z
<1>2. SumOver(z, S) = SumOver(w, S) - w[x] + z[x]
  BY <1>1, SumOneChanged
<1> QED
  BY <1>1, <1>2 DEF z

LEMMA SumZeros ==
    ASSUME NEW S, IsFiniteSet(S), NEW w, \A x \in S : w[x] = 0
    PROVE  SumOver(w, S) = 0
<1>1. Naturals(w, S)
  BY DEF Naturals
<1>2. \A x \in S : 1 * w[x] <= 0 * w[x]
  OBVIOUS
<1>3. 1 * SumOver(w, S) <= 0 * SumOver(w, S)
  BY <1>1, <1>2, SumScaled
<1> QED
  BY <1>1, <1>3, SumType

\* A sum is at least each of its summands.
LEMMA SumBounds ==
    ASSUME NEW S, IsFiniteSet(S), NEW w, Naturals(w, S), NEW x \in S
    PROVE  SumOver(w, S) \in Nat /\ w[x] <= SumOver(w, S)
<1>1. SumOver(w, S) = SumOver(w, S \ {x}) + w[x]
  BY SumRemove
<1>2. SumOver(w, S \ {x}) \in Nat
  <2>1. IsFiniteSet(S \ {x}) /\ Naturals(w, S \ {x})
    BY FS_Subset DEF Naturals
  <2> QED
    BY <2>1, SumType
<1> QED
  BY <1>1, <1>2 DEF Naturals

\* Only a part of the summands counts.
LEMMA SumOfPart ==
    ASSUME NEW S, IsFiniteSet(S), NEW w, Naturals(w, S), NEW T \in SUBSET S
    PROVE  SumOver(w, T) = SumOver([x \in S |-> IF x \in T THEN w[x] ELSE 0], S)
<1> DEFINE z == [x \in S |-> IF x \in T THEN w[x] ELSE 0]
           Bad == {t \in SUBSET S : SumOver(w, t \cap T) # SumOver(z, t)}
<1>1. SUFFICES ASSUME Bad # {} PROVE FALSE
  <2>1. S \in SUBSET S /\ S \cap T = T
    OBVIOUS
  <2> QED
    BY <2>1
<1>2. Bad \subseteq SUBSET S
  OBVIOUS
<1>2a. Naturals(z, S) /\ \A x \in S : z[x] = IF x \in T THEN w[x] ELSE 0
  BY DEF Naturals
<1> HIDE DEF Bad, z
<1>3. PICK t \in Bad : \A s \in SUBSET t : s # t => s \notin Bad
  BY <1>1, <1>2, LeastSet
<1>4. t \in SUBSET S /\ SumOver(w, t \cap T) # SumOver(z, t)
  BY DEF Bad
<1>5. t # {}
  <2>1. {} \cap T = {}
    OBVIOUS
  <2> QED
    BY <2>1, SumEmpty, <1>4
<1>6. PICK x \in t : TRUE
  BY <1>5
<1> DEFINE r == t \ {x}
<1>7. /\ IsFiniteSet(t) /\ Naturals(z, t)
      /\ IsFiniteSet(t \cap T) /\ Naturals(w, t \cap T)
      /\ IsFiniteSet(r) /\ Naturals(z, r)
  BY <1>2a, <1>4, FS_Subset DEF Naturals
<1>8. SumOver(w, r \cap T) = SumOver(z, r)
  BY <1>3, <1>4, <1>6 DEF Bad
<1>9. SumOver(z, t) = SumOver(z, r) + z[x]
  BY <1>6, <1>7, SumRemove
<1>10. SumOver(z, r) \in Nat
  BY <1>7, SumType
<1>11. CASE x \in T
  <2>1. x \in t \cap T /\ (t \cap T) \ {x} = r \cap T
    BY <1>6, <1>11
  <2>2. SumOver(w, t \cap T) = SumOver(w, r \cap T) + w[x]
    BY <1>7, <2>1, SumRemove
  <2>3. z[x] = w[x]
    BY <1>2a, <1>4, <1>6, <1>11
  <2> HIDE DEF r
  <2> QED
    BY <1>4, <1>8, <1>9, <2>2, <2>3
<1>12. CASE x \notin T
  <2>1. t \cap T = r \cap T /\ z[x] = 0
    BY <1>2a, <1>4, <1>6, <1>12
  <2>2. SumOver(w, t \cap T) = SumOver(w, r \cap T)
    BY <2>1
  <2> HIDE DEF r
  <2> QED
    BY <1>4, <1>8, <1>9, <1>10, <2>1, <2>2
<1> QED
  BY <1>11, <1>12

\* Two sums over the same set, summand by summand.
LEMMA SumPlus ==
    ASSUME NEW S, IsFiniteSet(S), NEW w, NEW z, NEW y, Naturals(w, S), Naturals(z, S),
           \A x \in S : y[x] = w[x] + z[x]
    PROVE  SumOver(y, S) = SumOver(w, S) + SumOver(z, S)
<1> DEFINE Bad == {t \in SUBSET S : SumOver(y, t) # SumOver(w, t) + SumOver(z, t)}
<1>1. SUFFICES ASSUME Bad # {} PROVE FALSE
  OBVIOUS
<1>2. Bad \subseteq SUBSET S
  OBVIOUS
<1> HIDE DEF Bad
<1>3. PICK t \in Bad : \A s \in SUBSET t : s # t => s \notin Bad
  BY <1>1, <1>2, LeastSet
<1>4. t \in SUBSET S /\ SumOver(y, t) # SumOver(w, t) + SumOver(z, t)
  BY DEF Bad
<1>5. t # {}
  BY SumEmpty, <1>4
<1>6. PICK x \in t : TRUE
  BY <1>5
<1>7. IsFiniteSet(t) /\ Naturals(w, t) /\ Naturals(z, t) /\ Naturals(y, t)
  BY <1>4, FS_Subset DEF Naturals
<1> DEFINE r == t \ {x}
<1>8. /\ IsFiniteSet(r) /\ Naturals(w, r) /\ Naturals(z, r) /\ Naturals(y, r)
      /\ r \in SUBSET t /\ r # t /\ r \in SUBSET S
  BY <1>4, <1>6, <1>7, FS_Subset DEF Naturals
<1>9. /\ SumOver(w, t) = SumOver(w, r) + w[x]
      /\ SumOver(z, t) = SumOver(z, r) + z[x]
      /\ SumOver(y, t) = SumOver(y, r) + y[x]
  BY <1>6, <1>7, SumRemove
<1>10. SumOver(y, r) = SumOver(w, r) + SumOver(z, r)
  BY <1>3, <1>8 DEF Bad
<1>11. SumOver(w, r) \in Nat /\ SumOver(z, r) \in Nat /\ w[x] \in Nat /\ z[x] \in Nat
       /\ y[x] = w[x] + z[x]
  BY <1>4, <1>6, <1>7, <1>8, SumType DEF Naturals
<1> HIDE DEF r
<1> QED
  BY <1>4, <1>9, <1>10, <1>11

LEMMA SumJoin ==
    ASSUME NEW S, IsFiniteSet(S), NEW T, IsFiniteSet(T), S \cap T = {},
           NEW w, Naturals(w, S \cup T)
    PROVE  SumOver(w, S \cup T) = SumOver(w, S) + SumOver(w, T)
<1> DEFINE U == S \cup T
           a == [x \in U |-> IF x \in S THEN w[x] ELSE 0]
           b == [x \in U |-> IF x \in T THEN w[x] ELSE 0]
<1>1. IsFiniteSet(U)
  BY FS_Union
<1>2. Naturals(a, U) /\ Naturals(b, U) /\ \A x \in U : w[x] = a[x] + b[x]
  BY DEF Naturals
<1>3. SumOver(w, S) = SumOver(a, U) /\ SumOver(w, T) = SumOver(b, U)
  <2>1. S \in SUBSET U /\ T \in SUBSET U
    OBVIOUS
  <2> HIDE DEF U
  <2> QED
    BY <1>1, <2>1, SumOfPart DEF U
<1> HIDE DEF U, a, b
<1>4. SumOver(w, U) = SumOver(a, U) + SumOver(b, U)
  BY <1>1, <1>2, SumPlus
<1> QED
  BY <1>3, <1>4 DEF U

LEMMA SumPart ==
    ASSUME NEW S, IsFiniteSet(S), NEW w, Naturals(w, S), NEW T \in SUBSET S
    PROVE  SumOver(w, T) <= SumOver(w, S)
<1> DEFINE z == [x \in S |-> IF x \in T THEN w[x] ELSE 0]
<1>1. Naturals(z, S) /\ \A x \in S : z[x] <= w[x]
  BY DEF Naturals
<1>2. SumOver(w, T) = SumOver(z, S)
  BY SumOfPart
<1> HIDE DEF z
<1> QED
  BY <1>1, <1>2, SumMonotone

\* Group by group.
LEMMA SumGroups ==
    ASSUME NEW S, IsFiniteSet(S), NEW K, IsFiniteSet(K), NEW w, Naturals(w, S),
           NEW key, \A x \in S : key[x] \in K
    PROVE  SumOver(w, S)
             = SumOver([k \in K |-> SumOver(w, {x \in S : key[x] = k})], K)
<1> DEFINE Group(t, k) == {x \in t : key[x] = k}
           G(t) == [k \in K |-> SumOver(w, Group(t, k))]
           Bad == {t \in SUBSET S : SumOver(w, t) # SumOver(G(t), K)}
<1>1. SUFFICES ASSUME Bad # {} PROVE FALSE
  OBVIOUS
<1>2. Bad \subseteq SUBSET S
  OBVIOUS
<1> HIDE DEF Bad
<1>3. PICK t \in Bad : \A s \in SUBSET t : s # t => s \notin Bad
  BY <1>1, <1>2, LeastSet
<1>4. t \in SUBSET S /\ SumOver(w, t) # SumOver(G(t), K)
  BY DEF Bad
<1>5. t # {}
  <2>1. ASSUME t = {}
        PROVE  FALSE
    <3>1. \A k \in K : Group(t, k) = {}
      BY <2>1
    <3>2. \A k \in K : G(t)[k] = 0
      BY <3>1, SumEmpty
    <3> HIDE DEF G
    <3>3. SumOver(G(t), K) = 0
      BY <3>2, SumZeros
    <3> QED
      BY <1>4, <2>1, <3>3, SumEmpty
  <2> QED
    BY <2>1
<1>6. PICK x \in t : TRUE
  BY <1>5
<1> DEFINE r == t \ {x}
           h == key[x]
<1>7. h \in K /\ r \in SUBSET t /\ r # t /\ r \in SUBSET S
  BY <1>4, <1>6
<1>8. ASSUME NEW s \in SUBSET S, NEW k \in K
      PROVE  /\ IsFiniteSet(Group(s, k)) /\ Naturals(w, Group(s, k))
             /\ SumOver(w, Group(s, k)) \in Nat
  <2> DEFINE g == Group(s, k)
  <2>1. g \in SUBSET S
    BY <1>8
  <2> HIDE DEF g
  <2>2. IsFiniteSet(g) /\ Naturals(w, g)
    BY <2>1, FS_Subset DEF Naturals
  <2> QED
    BY <2>2, SumType DEF g
<1>9. Naturals(G(t), K) /\ Naturals(G(r), K)
  BY <1>4, <1>7, <1>8 DEF Naturals
<1>10. \A k \in K : k # h => G(t)[k] = G(r)[k]
  <2>1. \A k \in K : k # h => Group(t, k) = Group(r, k)
    BY <1>6
  <2> HIDE DEF Group
  <2> QED
    BY <2>1
<1>11. G(t)[h] = G(r)[h] + w[x]
  <2>1. x \in Group(t, h) /\ Group(t, h) \ {x} = Group(r, h)
    BY <1>6
  <2> HIDE DEF Group, r
  <2>2. SumOver(w, Group(t, h)) = SumOver(w, Group(r, h)) + w[x]
    BY <1>4, <1>7, <1>8, <2>1, SumRemove
  <2> QED
    BY <1>7, <2>2
<1>12. SumOver(w, t) = SumOver(w, r) + w[x] /\ w[x] \in Nat /\ SumOver(w, r) \in Nat
  <2>1. IsFiniteSet(t) /\ Naturals(w, t) /\ IsFiniteSet(r) /\ Naturals(w, r)
    BY <1>4, FS_Subset DEF Naturals
  <2> HIDE DEF r
  <2> QED
    BY <1>6, <2>1, SumRemove, SumType DEF Naturals, r
<1>13. SumOver(w, r) = SumOver(G(r), K)
  BY <1>3, <1>7 DEF Bad
<1> DEFINE gt == G(t)
           gr == G(r)
<1> HIDE DEF r, G, h, gt, gr
<1>14. SumOver(gt, K) = SumOver(gr, K) - gr[h] + gt[h]
  BY <1>7, <1>9, <1>10, SumOneChanged DEF gt, gr
<1>15. gr[h] \in Nat /\ gt[h] = gr[h] + w[x]
  BY <1>7, <1>9, <1>11 DEF Naturals, gt, gr
<1>16. SumOver(w, r) = SumOver(gr, K) /\ SumOver(w, t) # SumOver(gt, K)
  BY <1>4, <1>13 DEF gt, gr
<1> QED
  BY <1>12, <1>14, <1>15, <1>16

\* Summands may be renamed.
LEMMA SumRenamed ==
    ASSUME NEW S, IsFiniteSet(S), NEW T, NEW f \in Bijection(S, T),
           NEW w, NEW z, Naturals(w, S), \A x \in S : z[f[x]] = w[x]
    PROVE  SumOver(z, T) = SumOver(w, S)
<1> DEFINE Im(t) == {y \in T : \E x \in t : y = f[x]}
           Bad == {t \in SUBSET S : SumOver(z, Im(t)) # SumOver(w, t)}
<1>1. /\ \A x \in S : f[x] \in T
      /\ \A x, y \in S : f[x] = f[y] => x = y
      /\ \A y \in T : \E x \in S : f[x] = y
  BY DEF Bijection, Injection, Surjection, IsInjective
<1>2. SUFFICES ASSUME Bad # {} PROVE FALSE
  <2>1. Im(S) = T /\ S \in SUBSET S
    BY <1>1
  <2> HIDE DEF Im
  <2> QED
    BY <2>1
<1>3. Bad \subseteq SUBSET S
  OBVIOUS
<1> HIDE DEF Bad
<1>4. PICK t \in Bad : \A s \in SUBSET t : s # t => s \notin Bad
  BY <1>2, <1>3, LeastSet
<1>5. t \in SUBSET S /\ SumOver(z, Im(t)) # SumOver(w, t)
  BY DEF Bad
<1>6. t # {}
  <2>1. Im({}) = {}
    OBVIOUS
  <2> HIDE DEF Im
  <2> QED
    BY <1>5, <2>1, SumEmpty
<1>7. PICK x \in t : TRUE
  BY <1>6
<1> DEFINE r == t \ {x}
<1>8. IsFiniteSet(t) /\ Naturals(w, t) /\ r \in SUBSET t /\ r # t
  BY <1>5, <1>7, FS_Subset DEF Naturals
<1>9. IsFiniteSet(T) /\ Naturals(z, T)
  <2>1. f \in Surjection(S, T)
    BY DEF Bijection
  <2> QED
    BY <1>1, <2>1, FS_Surjection DEF Naturals
<1>10. IsFiniteSet(Im(t)) /\ Naturals(z, Im(t))
  <2>1. Im(t) \in SUBSET T
    OBVIOUS
  <2> HIDE DEF Im
  <2> QED
    BY <1>9, <2>1, FS_Subset DEF Naturals
<1>11. f[x] \in Im(t) /\ Im(t) \ {f[x]} = Im(r)
  BY <1>1, <1>5, <1>7
<1> HIDE DEF Im
<1>12. SumOver(z, Im(t)) = SumOver(z, Im(r)) + z[f[x]]
  BY <1>10, <1>11, SumRemove
<1>13. SumOver(w, t) = SumOver(w, r) + w[x]
  BY <1>7, <1>8, SumRemove
<1>14. SumOver(z, Im(r)) = SumOver(w, r)
  BY <1>4, <1>5, <1>8 DEF Bad
<1> QED
  BY <1>5, <1>7, <1>12, <1>13, <1>14

-----------------------------------------------------------------------------
(***************************************************************************)
(* Sums over pairs.                                                        *)
(***************************************************************************)
LEMMA PairsFinite ==
    ASSUME NEW S, IsFiniteSet(S), NEW K, IsFiniteSet(K)
    PROVE  IsFiniteSet(S \X K)
<1> DEFINE Bad == {t \in SUBSET K : ~IsFiniteSet(S \X t)}
<1>1. SUFFICES ASSUME Bad # {} PROVE FALSE
  OBVIOUS
<1>2. Bad \subseteq SUBSET K
  OBVIOUS
<1> HIDE DEF Bad
<1>3. PICK t \in Bad : \A s \in SUBSET t : s # t => s \notin Bad
  BY <1>1, <1>2, LeastSet
<1>4. t \in SUBSET K /\ ~IsFiniteSet(S \X t)
  BY DEF Bad
<1>5. t # {}
  <2>1. S \X {} = {}
    OBVIOUS
  <2> QED
    BY <2>1, <1>4, FS_EmptySet
<1>6. PICK k \in t : TRUE
  BY <1>5
<1> DEFINE r == t \ {k}
           row == {<<x, k>> : x \in S}
           rest == S \X r
<1>7. IsFiniteSet(rest)
  BY <1>3, <1>4, <1>6 DEF Bad
<1>8. IsFiniteSet(row)
  <2> DEFINE f == [x \in S |-> <<x, k>>]
  <2>1. f \in Surjection(S, row)
    BY DEF Surjection
  <2> HIDE DEF f, row
  <2> QED
    BY <2>1, FS_Surjection
<1>9. S \X t = rest \cup row
  BY <1>6
<1> HIDE DEF rest, row
<1>10. IsFiniteSet(rest \cup row)
  BY <1>7, <1>8, FS_Union
<1> QED
  BY <1>4, <1>9, <1>10

\* The part of a sum over pairs with the same second member.
Slice(w, S, k) == [x \in S |-> w[<<x, k>>]]

LEMMA SumOfPairs ==
    ASSUME NEW S, IsFiniteSet(S), NEW K, IsFiniteSet(K), NEW w, Naturals(w, S \X K)
    PROVE  SumOver(w, S \X K) = SumOver([k \in K |-> SumOver(Slice(w, S, k), S)], K)
<1> DEFINE P == S \X K
           key == [p \in P |-> p[2]]
           row(k) == {p \in P : key[p] = k}
           byKey == [k \in K |-> SumOver(w, row(k))]
           byPair == [k \in K |-> SumOver(Slice(w, S, k), S)]
<1>1. IsFiniteSet(P)
  BY PairsFinite
<1>2. \A p \in P : key[p] \in K
  OBVIOUS
<1>3. SumOver(w, P) = SumOver(byKey, K)
  <2> HIDE DEF P, key
  <2> QED
    BY <1>1, <1>2, SumGroups DEF P
<1>4. ASSUME NEW k \in K
      PROVE  SumOver(w, row(k)) = SumOver(Slice(w, S, k), S)
  <2> DEFINE f == [x \in S |-> <<x, k>>]
             v == [x \in S |-> w[<<x, k>>]]
  <2>1. f \in Bijection(S, row(k))
    <3>1. \A p \in row(k) : p[1] \in S /\ p = <<p[1], k>>
      OBVIOUS
    <3> QED
      BY <3>1 DEF Bijection, Injection, Surjection, IsInjective
  <2>3. Naturals(v, S) /\ \A x \in S : w[f[x]] = v[x]
    BY DEF Naturals
  <2> HIDE DEF row, f, v
  <2>4. SumOver(w, row(k)) = SumOver(v, S)
    BY <2>1, <2>3, SumRenamed
  <2> QED
    BY <2>4 DEF v, Slice
<1>5. byKey = byPair
  <2> HIDE DEF row
  <2> QED
    BY <1>4
<1> QED
  BY <1>3, <1>5

=============================================================================
