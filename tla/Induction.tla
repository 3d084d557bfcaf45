------------------------------- MODULE Induction -------------------------------
(***************************************************************************)
(* Induction as the proofs of this project need it: among the numbers, or  *)
(* the finite sets, for which a claim fails there is a smallest one.  From *)
(* it, what sums over finite sets are.                                     *)
(***************************************************************************)
EXTENDS Integers, FiniteSetsExt, FiniteSetTheorems, WellFoundedInduction, TLAPS

Less == {p \in Nat \X Nat : p[1] < p[2]}

LEMMA LeastIn ==
  ASSUME NEW S \in SUBSET Nat, S # {}
  PROVE  \E m \in S : \A n \in S : m <= n
<1>1. IsWellFoundedOn(Less, Nat)
  BY NatLessThanWellFounded DEF OpToRel, Less
<1>2. PICK m \in S : \A n \in S : <<n, m>> \notin Less
  BY <1>1, WFMin
<1>3. ASSUME NEW n \in S PROVE m <= n
  <2>1. <<n, m>> \in Nat \X Nat /\ <<n, m>>[1] = n /\ <<n, m>>[2] = m
    OBVIOUS
  <2>2. ~(n < m)
    BY <1>2, <2>1 DEF Less
  <2>3. n \in Nat /\ m \in Nat
    OBVIOUS
  <2>4. QED
    BY <2>2, <2>3
<1>4. QED
  BY <1>2, <1>3

LEMMA MinIs ==
  ASSUME NEW S \in SUBSET Nat, S # {}
  PROVE  Min(S) \in S /\ \A n \in S : Min(S) <= n
BY LeastIn DEF Min

LEMMA MaxIs ==
  ASSUME NEW N \in Nat, NEW S \in SUBSET (1..N), S # {}
  PROVE  Max(S) \in S
<1> DEFINE T == {N - x : x \in S}
<1>0. \A x \in S : x \in Nat /\ N - x \in Nat
  <2>1. ASSUME NEW x \in 1..N PROVE x \in Nat /\ N - x \in Nat
    OBVIOUS
  <2>2. QED
    BY <2>1
<1>1. T \in SUBSET Nat /\ T # {}
  BY <1>0
<1>2. PICK m \in T : \A n \in T : m <= n
  BY <1>1, LeastIn
<1>3. PICK x \in S : m = N - x
  BY <1>2
<1>4. ASSUME NEW y \in S PROVE x >= y
  <2>1. m <= N - y
    BY <1>2
  <2>2. x \in Nat /\ y \in Nat
    BY <1>0
  <2>3. QED
    BY <1>3, <2>1, <2>2
<1>5. QED
  BY <1>4 DEF Max

\* A collection of finite sets has a smallest one.
LEMMA SmallestIn ==
  ASSUME NEW C, C # {}, \A s \in C : IsFiniteSet(s)
  PROVE  \E s \in C : \A t \in C : Cardinality(s) <= Cardinality(t)
<1> DEFINE N == {Cardinality(s) : s \in C}
<1>1. N \in SUBSET Nat /\ N # {}
  BY FS_CardinalityType
<1>2. PICK m \in N : \A n \in N : m <= n
  BY <1>1, LeastIn
<1>3. QED
  BY <1>2

\* What an element is taken from a finite set leaves a smaller one.
LEMMA Smaller ==
  ASSUME NEW s, IsFiniteSet(s), NEW x \in s
  PROVE  IsFiniteSet(s \ {x}) /\ Cardinality(s \ {x}) < Cardinality(s)
<1>1. IsFiniteSet(s \ {x}) /\ Cardinality(s \ {x}) = Cardinality(s) - 1
  BY FS_RemoveElement
<1>2. Cardinality(s) \in Nat /\ Cardinality(s \ {x}) \in Nat
  BY <1>1, FS_CardinalityType
<1>3. QED
  BY <1>1, <1>2

-----------------------------------------------------------------------------
(* Sums over finite sets are what their recursive definition says.         *)

Chosen(s) == CHOOSE x \in s : TRUE

\* g is the sum of the weights w over each subset of S, one chosen element after another.
SumsUp(g, w, S) ==
  g = [s \in SUBSET S |-> IF s = {} THEN 0 ELSE w[Chosen(s)] + g[s \ {Chosen(s)}]]

Sum(w, S) == (CHOOSE g : SumsUp(g, w, S))[S]

LEMMA ChosenIn == ASSUME NEW s, s # {} PROVE Chosen(s) \in s
BY DEF Chosen

LEMMA SumsUpAt ==
  ASSUME NEW g, NEW w, NEW S, SumsUp(g, w, S), NEW s \in SUBSET S
  PROVE  g[s] = IF s = {} THEN 0 ELSE w[Chosen(s)] + g[s \ {Chosen(s)}]
BY DEF SumsUp

\* Whatever set they are defined for, two sums of the same weights agree.
LEMMA SumsAgree ==
  ASSUME NEW S, NEW T, NEW v, NEW w, NEW g, NEW h, SumsUp(g, v, S), SumsUp(h, w, T),
         T \subseteq S, IsFiniteSet(T), \A x \in T : v[x] = w[x]
  PROVE  \A s \in SUBSET T : g[s] = h[s]
<1> DEFINE C == {s \in SUBSET T : g[s] # h[s]}
<1>1. SUFFICES ASSUME C # {} PROVE FALSE
  OBVIOUS
<1>2. \A s \in C : IsFiniteSet(s)
  BY FS_Subset
<1>3. PICK s \in C : \A t \in C : Cardinality(s) <= Cardinality(t)
  <2> HIDE DEF C
  <2>1. QED
    BY <1>1, <1>2, SmallestIn
<1>4. s \in SUBSET T /\ s \in SUBSET S /\ IsFiniteSet(s)
  BY <1>2
<1>5. s # {}
  BY <1>4, SumsUpAt
<1> DEFINE x == Chosen(s)
<1>6. x \in s /\ v[x] = w[x]
  BY <1>4, <1>5, ChosenIn
<1>7. g[s \ {x}] = h[s \ {x}]
  <2>1. Cardinality(s \ {x}) < Cardinality(s)
    BY <1>4, <1>6, Smaller
  <2>2. Cardinality(s \ {x}) \in Nat /\ Cardinality(s) \in Nat
    BY <1>4, <1>6, Smaller, FS_CardinalityType
  <2>3. s \ {x} \notin C
    BY <1>3, <2>1, <2>2
  <2>4. QED
    BY <1>4, <2>3
<1>8. g[s] = v[x] + g[s \ {x}] /\ h[s] = w[x] + h[s \ {x}]
  BY <1>4, <1>5, SumsUpAt
<1>9. QED
  BY <1>6, <1>7, <1>8

LEMMA SumsExist ==
  ASSUME NEW w, NEW T, IsFiniteSet(T)
  PROVE  \E g : SumsUp(g, w, T)
<1> DEFINE C == {s \in SUBSET T : ~\E g : SumsUp(g, w, s)}
<1>1. SUFFICES ASSUME C # {} PROVE FALSE
  OBVIOUS
<1>2. \A s \in C : IsFiniteSet(s)
  BY FS_Subset
<1>3. PICK S \in C : \A t \in C : Cardinality(S) <= Cardinality(t)
  <2> HIDE DEF C
  <2>1. QED
    BY <1>1, <1>2, SmallestIn
<1>4. S \in SUBSET T /\ IsFiniteSet(S) /\ ~\E g : SumsUp(g, w, S)
  BY <1>2
<1> DEFINE h(U) == CHOOSE g : SumsUp(g, w, U)
           G == [s \in SUBSET S |-> IF s = {} THEN 0
                  ELSE w[Chosen(s)] + h(s \ {Chosen(s)})[s \ {Chosen(s)}]]
<1>5. ASSUME NEW U \in SUBSET S, U # S PROVE SumsUp(h(U), w, U) /\ IsFiniteSet(U)
  <2>1. PICK x \in S : x \notin U
    BY <1>5
  <2>2. U \subseteq S \ {x} /\ IsFiniteSet(S \ {x}) /\ Cardinality(S \ {x}) < Cardinality(S)
    BY <1>4, <2>1, Smaller
  <2>3. IsFiniteSet(U) /\ Cardinality(U) <= Cardinality(S \ {x})
    BY <2>2, FS_Subset
  <2>4. Cardinality(U) \in Nat /\ Cardinality(S) \in Nat /\ Cardinality(S \ {x}) \in Nat
    BY <1>4, <2>2, <2>3, FS_CardinalityType
  <2>5. U \notin C
    BY <1>3, <2>2, <2>3, <2>4
  <2>6. \E g : SumsUp(g, w, U)
    BY <1>4, <2>5
  <2>7. QED
    BY <2>3, <2>6
<1>6. ASSUME NEW U \in SUBSET S, U # S PROVE G[U] = h(U)[U]
  <2>1. SumsUp(h(U), w, U) /\ IsFiniteSet(U)
    BY <1>5, <1>6
  <2>2. CASE U = {}
    BY <2>1, <2>2, SumsUpAt
  <2>3. CASE U # {}
    <3> DEFINE V == U \ {Chosen(U)}
    <3>1. Chosen(U) \in U
      BY <2>3, ChosenIn
    <3>2. V \in SUBSET S /\ V # S /\ V \subseteq U
      BY <3>1
    <3>3. SumsUp(h(V), w, V) /\ IsFiniteSet(V)
      BY <1>5, <3>2
    <3>4. h(U)[V] = h(V)[V]
      <4> HIDE DEF h, V
      <4>1. QED
        BY <2>1, <3>2, <3>3, SumsAgree
    <3>5. h(U)[U] = w[Chosen(U)] + h(U)[V]
      <4> HIDE DEF h
      <4>1. QED
        BY <2>1, <2>3, SumsUpAt
    <3>6. G[U] = w[Chosen(U)] + h(V)[V]
      <4> HIDE DEF h
      <4>1. QED
        BY <2>3
    <3>7. QED
      BY <3>4, <3>5, <3>6
  <2>4. QED
    BY <2>2, <2>3
<1>7. ASSUME NEW s \in SUBSET S, s # {}
      PROVE  G[s \ {Chosen(s)}] = h(s \ {Chosen(s)})[s \ {Chosen(s)}]
  <2>1. Chosen(s) \in s
    BY <1>7, ChosenIn
  <2>2. s \ {Chosen(s)} \in SUBSET S /\ s \ {Chosen(s)} # S
    BY <2>1
  <2>3. QED
    BY <1>6, <2>2
<1>8. SumsUp(G, w, S)
  <2>1. ASSUME NEW s \in SUBSET S
        PROVE  G[s] = IF s = {} THEN 0 ELSE w[Chosen(s)] + G[s \ {Chosen(s)}]
    <3> HIDE DEF h
    <3>1. G[s] = IF s = {} THEN 0 ELSE w[Chosen(s)] + h(s \ {Chosen(s)})[s \ {Chosen(s)}]
      OBVIOUS
    <3>2. QED
      BY <1>7, <3>1
  <2>2. G = [s \in SUBSET S |-> G[s]]
    OBVIOUS
  <2> HIDE DEF G
  <2>3. QED
    BY <2>1, <2>2 DEF SumsUp
<1>9. QED
  BY <1>4, <1>8

LEMMA SumIsSum ==
  ASSUME NEW w, NEW S, IsFiniteSet(S)
  PROVE  \E g : SumsUp(g, w, S) /\ Sum(w, S) = g[S]
<1>1. PICK g : SumsUp(g, w, S)
  BY SumsExist
<1>2. SumsUp(CHOOSE f : SumsUp(f, w, S), w, S)
  BY <1>1
<1>3. QED
  BY <1>2 DEF Sum

\* The sum depends on the weights of the elements and on nothing else.
LEMMA SumAgrees ==
  ASSUME NEW v, NEW w, NEW S, IsFiniteSet(S), \A x \in S : v[x] = w[x]
  PROVE  Sum(v, S) = Sum(w, S)
<1>1. PICK g : SumsUp(g, v, S) /\ Sum(v, S) = g[S]
  BY SumIsSum
<1>2. PICK h : SumsUp(h, w, S) /\ Sum(w, S) = h[S]
  BY SumIsSum
<1>3. \A s \in SUBSET S : g[s] = h[s]
  BY <1>1, <1>2, SumsAgree
<1>4. QED
  BY <1>1, <1>2, <1>3

LEMMA SumOfNone == ASSUME NEW w PROVE Sum(w, {}) = 0
<1>1. IsFiniteSet({})
  BY FS_EmptySet
<1>2. PICK g : SumsUp(g, w, {}) /\ Sum(w, {}) = g[{}]
  BY <1>1, SumIsSum
<1>3. QED
  BY <1>2, SumsUpAt

LEMMA SumByChosen ==
  ASSUME NEW w, NEW S, IsFiniteSet(S), S # {}
  PROVE  Sum(w, S) = w[Chosen(S)] + Sum(w, S \ {Chosen(S)})
<1> DEFINE T == S \ {Chosen(S)}
<1>1. IsFiniteSet(T) /\ T \subseteq S
  BY FS_Subset
<1>2. PICK g : SumsUp(g, w, S) /\ Sum(w, S) = g[S]
  BY SumIsSum
<1>3. PICK h : SumsUp(h, w, T) /\ Sum(w, T) = h[T]
  BY <1>1, SumIsSum
<1>4. \A s \in SUBSET T : g[s] = h[s]
  BY <1>1, <1>2, <1>3, SumsAgree
<1>5. g[S] = w[Chosen(S)] + g[T]
  BY <1>2, SumsUpAt
<1>6. QED
  BY <1>2, <1>3, <1>4, <1>5

LEMMA SumType ==
  ASSUME NEW w, NEW S, IsFiniteSet(S), \A x \in S : w[x] \in Nat
  PROVE  Sum(w, S) \in Nat
<1> DEFINE C == {s \in SUBSET S : Sum(w, s) \notin Nat}
<1>1. SUFFICES ASSUME C # {} PROVE FALSE
  OBVIOUS
<1>2. \A s \in C : IsFiniteSet(s)
  BY FS_Subset
<1>3. PICK s \in C : \A t \in C : Cardinality(s) <= Cardinality(t)
  <2> HIDE DEF C
  <2>1. QED
    BY <1>1, <1>2, SmallestIn
<1>4. s \in SUBSET S /\ IsFiniteSet(s) /\ Sum(w, s) \notin Nat
  BY <1>2
<1>5. s # {}
  BY <1>4, SumOfNone
<1> DEFINE x == Chosen(s)
<1>6. x \in s /\ w[x] \in Nat
  BY <1>4, <1>5, ChosenIn
<1>7. Sum(w, s \ {x}) \in Nat
  <2>1. Cardinality(s \ {x}) < Cardinality(s)
    BY <1>4, <1>6, Smaller
  <2>2. Cardinality(s \ {x}) \in Nat /\ Cardinality(s) \in Nat
    BY <1>4, <1>6, Smaller, FS_CardinalityType
  <2>3. s \ {x} \notin C
    BY <1>3, <2>1, <2>2
  <2>4. QED
    BY <1>4, <2>3
<1>8. Sum(w, s) = w[x] + Sum(w, s \ {x})
  BY <1>4, <1>5, SumByChosen
<1>9. QED
  BY <1>4, <1>6, <1>7, <1>8

\* The order of the additions does not matter: any element may be added last.
LEMMA SumByAny ==
  ASSUME NEW w, NEW S, IsFiniteSet(S), \A x \in S : w[x] \in Nat
  PROVE  \A x \in S : Sum(w, S) = w[x] + Sum(w, S \ {x})
<1> DEFINE C == {s \in SUBSET S : \E x \in s : Sum(w, s) # w[x] + Sum(w, s \ {x})}
<1>1. SUFFICES ASSUME C # {} PROVE FALSE
  OBVIOUS
<1>2. \A s \in C : IsFiniteSet(s)
  BY FS_Subset
<1>3. PICK s \in C : \A t \in C : Cardinality(s) <= Cardinality(t)
  <2> HIDE DEF C
  <2>1. QED
    BY <1>1, <1>2, SmallestIn
<1>4. s \in SUBSET S /\ IsFiniteSet(s)
  BY <1>2
<1>5. PICK x \in s : Sum(w, s) # w[x] + Sum(w, s \ {x})
  BY <1>3
<1> DEFINE y == Chosen(s)
<1>6. y \in s /\ Sum(w, s) = w[y] + Sum(w, s \ {y})
  BY <1>4, <1>5, ChosenIn, SumByChosen
<1>7. x # y
  BY <1>5, <1>6
<1> DEFINE r == (s \ {x}) \ {y}
<1>8. r = (s \ {y}) \ {x} /\ r \subseteq S
  BY <1>4
<1>9. ASSUME NEW z \in s PROVE s \ {z} \in SUBSET S /\ s \ {z} \notin C
  <2>1. Cardinality(s \ {z}) < Cardinality(s)
    BY <1>4, Smaller
  <2>2. Cardinality(s \ {z}) \in Nat /\ Cardinality(s) \in Nat
    BY <1>4, Smaller, FS_CardinalityType
  <2>3. QED
    BY <1>3, <1>4, <2>1, <2>2
<1>10. Sum(w, s \ {y}) = w[x] + Sum(w, (s \ {y}) \ {x})
  BY <1>6, <1>7, <1>9
<1>11. Sum(w, s \ {x}) = w[y] + Sum(w, (s \ {x}) \ {y})
  BY <1>6, <1>7, <1>9
<1>12. w[x] \in Nat /\ w[y] \in Nat /\ Sum(w, r) \in Nat
  <2>1. IsFiniteSet(r)
    BY <1>8, FS_Subset
  <2>2. \A z \in r : w[z] \in Nat
    BY <1>8
  <2>3. QED
    BY <1>4, <1>6, <2>1, <2>2, SumType
<1> HIDE DEF y, r
<1>13. Sum(w, s) = w[y] + (w[x] + Sum(w, r)) /\ Sum(w, s \ {x}) = w[y] + Sum(w, r)
  BY <1>6, <1>8, <1>10, <1>11 DEF r
<1>14. QED
  BY <1>5, <1>12, <1>13

\* A part weighs no more than the whole.
LEMMA SumOfPart ==
  ASSUME NEW w, NEW S, IsFiniteSet(S), \A x \in S : w[x] \in Nat, NEW T \in SUBSET S
  PROVE  Sum(w, T) <= Sum(w, S)
<1> DEFINE C == {s \in SUBSET S : T \subseteq s /\ ~(Sum(w, T) <= Sum(w, s))}
<1>1. SUFFICES ASSUME C # {} PROVE FALSE
  OBVIOUS
<1>2. \A s \in C : IsFiniteSet(s)
  BY FS_Subset
<1>3. PICK s \in C : \A t \in C : Cardinality(s) <= Cardinality(t)
  <2> HIDE DEF C
  <2>1. QED
    BY <1>1, <1>2, SmallestIn
<1>4. s \in SUBSET S /\ IsFiniteSet(s) /\ T \subseteq s /\ ~(Sum(w, T) <= Sum(w, s))
  BY <1>2
<1>5. Sum(w, T) \in Nat /\ IsFiniteSet(T)
  BY FS_Subset, SumType
<1>6. PICK x \in s : x \notin T
  BY <1>4, <1>5
<1>7. Sum(w, T) <= Sum(w, s \ {x})
  <2>1. Cardinality(s \ {x}) < Cardinality(s)
    BY <1>4, Smaller
  <2>2. Cardinality(s \ {x}) \in Nat /\ Cardinality(s) \in Nat
    BY <1>4, Smaller, FS_CardinalityType
  <2>3. s \ {x} \notin C
    BY <1>3, <2>1, <2>2
  <2>4. QED
    BY <1>4, <1>6, <2>3
<1>8. \A z \in s : w[z] \in Nat
  BY <1>4
<1>9. Sum(w, s) = w[x] + Sum(w, s \ {x})
  BY <1>4, <1>8, SumByAny
<1>10. Sum(w, s \ {x}) \in Nat
  <2>1. IsFiniteSet(s \ {x})
    BY <1>4, FS_Subset
  <2>2. QED
    BY <1>8, <2>1, SumType
<1>11. QED
  BY <1>4, <1>5, <1>7, <1>8, <1>9, <1>10

LEMMA SumOfOne == ASSUME NEW w, NEW x, w[x] \in Nat PROVE Sum(w, {x}) = w[x]
<1>1. IsFiniteSet({x}) /\ {x} \ {x} = {}
  BY FS_Singleton
<1>2. \A z \in {x} : w[z] \in Nat
  OBVIOUS
<1>3. Sum(w, {x}) = w[x] + Sum(w, {x} \ {x})
  BY <1>1, <1>2, SumByAny
<1>4. QED
  BY <1>1, <1>3, SumOfNone

LEMMA SumOfUnion ==
  ASSUME NEW w, NEW S, NEW T, IsFiniteSet(S), IsFiniteSet(T), S \cap T = {},
         \A x \in S \cup T : w[x] \in Nat
  PROVE  Sum(w, S \cup T) = Sum(w, S) + Sum(w, T)
<1> DEFINE C == {t \in SUBSET T : Sum(w, S \cup t) # Sum(w, S) + Sum(w, t)}
<1>1. SUFFICES ASSUME C # {} PROVE FALSE
  OBVIOUS
<1>2. \A t \in C : IsFiniteSet(t)
  BY FS_Subset
<1>3. PICK t \in C : \A u \in C : Cardinality(t) <= Cardinality(u)
  <2> HIDE DEF C
  <2>1. QED
    BY <1>1, <1>2, SmallestIn
<1>4. t \in SUBSET T /\ IsFiniteSet(t) /\ Sum(w, S \cup t) # Sum(w, S) + Sum(w, t)
  BY <1>2
<1>5. Sum(w, S) \in Nat /\ Sum(w, {}) = 0
  BY SumType, SumOfNone
<1>6. PICK x \in t : TRUE
  <2>1. t = {} => S \cup t = S /\ Sum(w, t) = 0 /\ Sum(w, S) + 0 = Sum(w, S)
    BY <1>5
  <2>2. t # {}
    BY <1>4, <2>1
  <2>3. QED
    BY <2>2
<1> DEFINE r == t \ {x}
<1>7. Sum(w, S \cup r) = Sum(w, S) + Sum(w, r)
  <2>1. r \in SUBSET T /\ Cardinality(r) < Cardinality(t)
    BY <1>4, Smaller
  <2>2. Cardinality(r) \in Nat /\ Cardinality(t) \in Nat
    BY <1>4, Smaller, FS_CardinalityType
  <2>3. r \notin C
    BY <1>3, <2>1, <2>2
  <2>4. QED
    BY <2>1, <2>3
<1>8. Sum(w, t) = w[x] + Sum(w, r)
  <2>1. \A y \in t : w[y] \in Nat
    BY <1>4
  <2>2. QED
    BY <1>4, <2>1, SumByAny
<1>9. Sum(w, S \cup t) = w[x] + Sum(w, S \cup r)
  <2>1. IsFiniteSet(S \cup t) /\ \A y \in S \cup t : w[y] \in Nat
    BY <1>4, FS_Union
  <2>2. (S \cup t) \ {x} = S \cup r /\ x \in S \cup t
    BY <1>4
  <2>3. QED
    BY <2>1, <2>2, SumByAny
<1>10. w[x] \in Nat /\ Sum(w, r) \in Nat
  <2>1. IsFiniteSet(r) /\ \A y \in r : w[y] \in Nat
    BY <1>4, FS_Subset
  <2>2. QED
    BY <1>4, <2>1, SumType
<1>11. QED
  BY <1>4, <1>5, <1>7, <1>8, <1>9, <1>10

\* All that the parts of R hold.
Whole(part, R) == UNION {part[r] : r \in R}

\* The sum of the sums of parts that are apart is the sum of the whole.
LEMMA SumOfParts ==
  ASSUME NEW R, IsFiniteSet(R), NEW part, NEW v, NEW w,
         \A r \in R : IsFiniteSet(part[r]) /\ v[r] = Sum(w, part[r]),
         \A r \in R : \A x \in part[r] : w[x] \in Nat,
         \A r, q \in R : r # q => part[r] \cap part[q] = {}
  PROVE  IsFiniteSet(Whole(part, R)) /\ Sum(v, R) = Sum(w, Whole(part, R))
<1> USE DEF Whole
<1> DEFINE Holds(Q) == IsFiniteSet(Whole(part, Q)) /\ Sum(v, Q) = Sum(w, Whole(part, Q))
           C == {Q \in SUBSET R : ~Holds(Q)}
<1>1. SUFFICES ASSUME C # {} PROVE FALSE
  OBVIOUS
<1>2. \A Q \in C : IsFiniteSet(Q)
  BY FS_Subset
<1>3. PICK Q \in C : \A P \in C : Cardinality(Q) <= Cardinality(P)
  <2> HIDE DEF C
  <2>1. QED
    BY <1>1, <1>2, SmallestIn
<1>4. Q \in SUBSET R /\ IsFiniteSet(Q) /\ ~Holds(Q)
  BY <1>2
<1>5. Q # {}
  <2>1. Whole(part, {}) = {}
    OBVIOUS
  <2>2. Holds({})
    BY <2>1, SumOfNone, FS_EmptySet
  <2>3. QED
    BY <1>4, <2>2
<1>6. PICK q \in Q : TRUE
  BY <1>5
<1> DEFINE P == Q \ {q}
<1>7. Holds(P)
  <2>1. P \in SUBSET R /\ Cardinality(P) < Cardinality(Q)
    BY <1>4, Smaller
  <2>2. Cardinality(P) \in Nat /\ Cardinality(Q) \in Nat
    BY <1>4, Smaller, FS_CardinalityType
  <2>3. P \notin C
    BY <1>3, <2>1, <2>2
  <2>4. QED
    BY <2>1, <2>3
<1> DEFINE all == Whole(part, Q)
           rest == Whole(part, P)
           last == part[q]
<1>8. all = rest \cup last /\ rest \cap last = {}
  BY <1>4
<1>9. IsFiniteSet(rest) /\ IsFiniteSet(last) /\ \A x \in rest \cup last : w[x] \in Nat
  BY <1>4, <1>7
<1>10. \A r \in Q : v[r] \in Nat
  BY <1>4, SumType
<1>11. Sum(v, Q) = v[q] + Sum(v, P)
  BY <1>4, <1>10, SumByAny
<1>12. Sum(w, last) = v[q] /\ Sum(v, P) = Sum(w, rest) /\ v[q] \in Nat
  BY <1>4, <1>7, <1>10
<1> HIDE DEF all, rest, last, P
<1>13. IsFiniteSet(all)
  BY <1>8, <1>9, FS_Union
<1>14. Sum(w, all) = Sum(w, rest) + Sum(w, last)
  BY <1>8, <1>9, SumOfUnion
<1>15. Sum(w, rest) \in Nat
  <2>1. \A x \in rest : w[x] \in Nat
    BY <1>9
  <2>2. QED
    BY <1>9, <2>1, SumType
<1>16. Sum(v, Q) = Sum(w, all)
  BY <1>11, <1>12, <1>14, <1>15
<1>17. QED
  BY <1>4, <1>13, <1>16 DEF all
=============================================================================
