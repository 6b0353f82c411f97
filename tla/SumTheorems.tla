---------------------------- MODULE SumTheorems ----------------------------
(***************************************************************************)
(* Induction over numbers and finite sets, from the library's well-founded *)
(* orderings, and what it gives: what SumOver computes, whatever order it  *)
(* folds the set in, and that a finite set has a greatest element.         *)
(***************************************************************************)
EXTENDS Sums, WellFoundedInduction, FiniteSetTheorems, TLAPS

\* A set that holds 0 and, with a number, the next holds every number.
LEMMA NatSets ==
    ASSUME NEW S, 0 \in S, \A n \in Nat : n \in S => n + 1 \in S
    PROVE  \A n \in Nat : n \in S
  <1> DEFINE T == Nat \ S
  <1>1. ASSUME T # {} PROVE FALSE
    <2>1. IsWellFoundedOn(OpToRel(<, Nat), Nat)
      BY NatLessThanWellFounded
    <2>2. PICK n \in T : \A m \in T : <<m, n>> \notin OpToRel(<, Nat)
      BY <1>1, <2>1, WFMin
    <2>3. n \in Nat /\ n # 0
      OBVIOUS
    <2>4. n - 1 \in Nat /\ n - 1 < n /\ n - 1 + 1 = n
      BY <2>3
    <2>5. n - 1 \in T
      BY <2>4
    <2> QED BY <2>2, <2>3, <2>4, <2>5 DEF OpToRel
  <1> QED BY <1>1

\* Of some subsets of a finite set one has none of the others below it.
LEMMA MinimalSubset ==
    ASSUME NEW S, IsFiniteSet(S), NEW B \in SUBSET SUBSET S, B # {}
    PROVE  \E T \in B : \A U \in B : U \subseteq T => U = T
  <1>1. /\ IsWellFoundedOn(StrictSubsetOrdering(S), FiniteSubsetsOf(S))
        /\ FiniteSubsetsOf(S) = SUBSET S
    BY FS_StrictSubsetOrderingWellFounded, FS_FiniteSubsetsOfFinite
  <1>2. PICK T \in B : \A U \in B : <<U, T>> \notin StrictSubsetOrdering(S)
    BY <1>1, WFMin
  <1>3. ASSUME NEW U \in B, U \subseteq T, U # T PROVE FALSE
    BY <1>2, <1>3 DEF StrictSubsetOrdering
  <1> QED BY <1>3

\* What holds of {} and, with a subset, of the subset and one element more holds
\* of the finite set.
LEMMA FiniteSubsets ==
    ASSUME NEW S, IsFiniteSet(S), NEW F, {} \in F,
           \A T \in SUBSET S : \A x \in S \ T : T \in F => T \cup {x} \in F
    PROVE  S \in F
  <1> DEFINE B == (SUBSET S) \ F
  <1>1. ASSUME S \notin F PROVE FALSE
    <2>1. B # {} /\ B \in SUBSET SUBSET S
      BY <1>1
    <2>2. PICK T \in B : \A U \in B : U \subseteq T => U = T
      <3> HIDE DEF B
      <3> QED BY <2>1, MinimalSubset
    <2>3. PICK x : x \in T
      <3>1. T \notin F
        OBVIOUS
      <3> QED BY <3>1
    <2>4. T \ {x} \in SUBSET S /\ x \in S \ (T \ {x}) /\ (T \ {x}) \cup {x} = T
      BY <2>3
    <2>5. T \ {x} \in B
      BY <2>4
    <2> QED BY <2>2, <2>3, <2>5
  <1> QED BY <1>1

\* Of the elements of a finite set one is the greatest, as f ranks them.
LEMMA Greatest ==
    ASSUME NEW S, IsFiniteSet(S), S # {}, NEW f, \A x \in S : f[x] \in Nat
    PROVE  \E x \in S : \A y \in S : f[y] <= f[x]
  <1> DEFINE F == {T \in SUBSET S : T # {} => \E x \in T : \A y \in T : f[y] <= f[x]}
  <1>1. ASSUME NEW T \in SUBSET S, NEW z \in S \ T, T \in F PROVE T \cup {z} \in F
    <2>1. CASE T = {}
      <3>1. \A y \in T \cup {z} : f[y] <= f[z]
        BY <2>1
      <3> QED BY <3>1
    <2>2. CASE T # {}
      <3>1. PICK x \in T : \A y \in T : f[y] <= f[x]
        BY <1>1, <2>2
      <3>2. CASE f[z] <= f[x]
        BY <3>1, <3>2
      <3>3. CASE ~(f[z] <= f[x])
        <4>1. \A y \in T \cup {z} : f[y] <= f[z]
          BY <3>1, <3>3
        <4> QED BY <4>1
      <3> QED BY <3>2, <3>3
    <2> QED BY <2>1, <2>2
  <1>2. {} \in F
    OBVIOUS
  <1>3. S \in F
    <2> HIDE DEF F
    <2> QED BY <1>1, <1>2, FiniteSubsets
  <1> QED BY <1>3

-----------------------------------------------------------------------------
(* Sums *)

\* The element the fold takes of a set.
Some(T) == CHOOSE x \in T : TRUE

\* s is the table the fold of f over S is looked up in.
IsTable(f, S, s) ==
    s = [T \in SUBSET S |-> IF T = {} THEN 0 ELSE f[Some(T)] + s[T \ {Some(T)}]]

LEMMA SumLookup ==
    ASSUME NEW f, NEW S
    PROVE  SumOver(f, S) = (CHOOSE s : IsTable(f, S, s))[S]
  BY DEF SumOver, FoldFunctionOnSet, MapThenFoldSet, IsTable, Some

LEMMA TableEntry ==
    ASSUME NEW f, NEW S, NEW s, IsTable(f, S, s), NEW T \in SUBSET S
    PROVE  /\ T = {} => s[T] = 0
           /\ T # {} => /\ s[T] = f[Some(T)] + s[T \ {Some(T)}]
                        /\ Some(T) \in T /\ T \ {Some(T)} \in SUBSET S
  <1>1. T # {} => Some(T) \in T
    BY DEF Some
  <1> QED BY <1>1 DEF IsTable

\* Two tables agree on what both hold.
LEMMA TablesAgree ==
    ASSUME NEW f, NEW S, NEW s, IsTable(f, S, s), IsFiniteSet(S),
           NEW R \in SUBSET S, NEW r, IsTable(f, R, r)
    PROVE  \A T \in SUBSET R : r[T] = s[T]
  <1> DEFINE B == {T \in SUBSET R : r[T] # s[T]}
  <1>1. ASSUME B # {} PROVE FALSE
    <2>1. IsFiniteSet(R) /\ B \in SUBSET SUBSET R
      BY FS_Subset
    <2>2. PICK T \in B : \A U \in B : U \subseteq T => U = T
      <3> HIDE DEF B
      <3> QED BY <1>1, <2>1, MinimalSubset
    <2>3. T \in SUBSET R /\ T \in SUBSET S /\ T # {}
      <3>1. T \in SUBSET R /\ T \in SUBSET S /\ r[T] # s[T]
        OBVIOUS
      <3>2. ASSUME T = {} PROVE FALSE
        BY <3>1, <3>2, TableEntry
      <3> QED BY <3>1, <3>2
    <2>4. /\ r[T] = f[Some(T)] + r[T \ {Some(T)}] /\ s[T] = f[Some(T)] + s[T \ {Some(T)}]
          /\ Some(T) \in T
      BY <2>3, TableEntry
    <2>5. T \ {Some(T)} \notin B
      BY <2>2, <2>4
    <2>6. r[T \ {Some(T)}] = s[T \ {Some(T)}]
      BY <2>3, <2>5
    <2>7. r[T] = s[T]
      BY <2>4, <2>6
    <2> QED BY <2>7
  <1> QED BY <1>1

\* A finite set has a table.
LEMMA TableExists ==
    ASSUME NEW f, NEW S, IsFiniteSet(S)
    PROVE  \E s : IsTable(f, S, s)
  <1> DEFINE B == {T \in SUBSET S : ~ \E s : IsTable(f, T, s)}
  <1>1. ASSUME B # {} PROVE FALSE
    <2>1. PICK T \in B : \A U \in B : U \subseteq T => U = T
      <3>1. B \in SUBSET SUBSET S
        OBVIOUS
      <3> HIDE DEF B
      <3> QED BY <1>1, <3>1, MinimalSubset
    <2>2. T \in SUBSET S /\ IsFiniteSet(T) /\ ~ \E s : IsTable(f, T, s)
      BY FS_Subset
    <2> DEFINE Table(U) == CHOOSE s : IsTable(f, U, s)
               Value(U) == Table(U)[U]
               s == [U \in SUBSET T |-> IF U = {} THEN 0 ELSE f[Some(U)] + Value(U \ {Some(U)})]
    <2>3. ASSUME NEW U \in SUBSET T, U # T PROVE IsTable(f, U, Table(U))
      <3>1. U \notin B /\ U \in SUBSET S
        BY <2>1, <2>2, <2>3
      <3>2. \E r : IsTable(f, U, r)
        BY <3>1
      <3> QED BY <3>2
    <2>4. ASSUME NEW U \in SUBSET T, U # T PROVE s[U] = Value(U)
      <3>1. IsTable(f, U, Table(U))
        BY <2>3, <2>4
      <3>2. CASE U = {}
        <4>1. U \in SUBSET U
          OBVIOUS
        <4>2. Table(U)[U] = 0
          <5> HIDE DEF Table
          <5> QED BY <3>1, <3>2, <4>1, TableEntry
        <4> QED BY <3>2, <4>2
      <3>3. CASE U # {}
        <4> DEFINE V == U \ {Some(U)}
        <4>1. /\ Some(U) \in U /\ V \in SUBSET U /\ Table(U)[U] = f[Some(U)] + Table(U)[V]
          <5>1. U \in SUBSET U
            OBVIOUS
          <5> HIDE DEF Table
          <5> QED BY <3>1, <3>3, <5>1, TableEntry
        <4>2. V \in SUBSET T /\ V # T
          BY <4>1
        <4>3. IsTable(f, V, Table(V))
          BY <2>3, <4>2
        <4>4. IsFiniteSet(U)
          BY <2>2, FS_Subset
        <4>5. Table(V)[V] = Table(U)[V]
          <5> HIDE DEF Table, V
          <5> QED BY <3>1, <4>1, <4>3, <4>4, TablesAgree
        <4>6. s[U] = f[Some(U)] + Value(V)
          BY <3>3
        <4> QED BY <4>1, <4>5, <4>6
      <3> QED BY <3>2, <3>3
    <2>5. ASSUME NEW U \in SUBSET T, U # {}
          PROVE  Value(U \ {Some(U)}) = s[U \ {Some(U)}]
      <3>1. Some(U) \in U
        BY <2>5 DEF Some
      <3>2. U \ {Some(U)} \in SUBSET T /\ U \ {Some(U)} # T
        BY <3>1
      <3> HIDE DEF s, Value
      <3> QED BY <2>4, <3>2
    <2>6. s = [U \in SUBSET T |-> IF U = {} THEN 0 ELSE f[Some(U)] + s[U \ {Some(U)}]]
      <3> DEFINE g == [U \in SUBSET T |-> IF U = {} THEN 0 ELSE f[Some(U)] + s[U \ {Some(U)}]]
      <3>1. \A U \in SUBSET T : s[U] = g[U]
        <4> HIDE DEF Value
        <4> QED BY <2>5
      <3>2. s = [U \in SUBSET T |-> s[U]]
        OBVIOUS
      <3>3. g = [U \in SUBSET T |-> g[U]]
        OBVIOUS
      <3> HIDE DEF s, g
      <3>4. s = g
        BY <3>1, <3>2, <3>3
      <3> QED BY <3>4 DEF g
    <2>7. IsTable(f, T, s)
      <3> HIDE DEF s
      <3> QED BY <2>6 DEF IsTable
    <2> QED BY <2>2, <2>7
  <1>2. S \notin B
    BY <1>1
  <1> QED BY <1>2

\* What the fold computes: the element it takes, and the sum over the others.
LEMMA SumUnfolds ==
    ASSUME NEW f, NEW S, IsFiniteSet(S)
    PROVE  /\ S = {} => SumOver(f, S) = 0
           /\ S # {} => /\ SumOver(f, S) = f[Some(S)] + SumOver(f, S \ {Some(S)})
                        /\ Some(S) \in S
  <1> DEFINE s == CHOOSE r : IsTable(f, S, r)
             R == S \ {Some(S)}
             t == CHOOSE r : IsTable(f, R, r)
  <1>1. IsTable(f, S, s)
    BY TableExists
  <1>2. IsFiniteSet(R) /\ R \in SUBSET S
    BY FS_Subset
  <1>3. IsTable(f, R, t)
    <2> HIDE DEF R
    <2> QED BY <1>2, TableExists
  <1>4. SumOver(f, S) = s[S] /\ SumOver(f, R) = t[R]
    BY SumLookup
  <1>5. t[R] = s[R]
    <2> HIDE DEF s, t, R
    <2> QED BY <1>1, <1>2, <1>3, TablesAgree
  <1>6. S \in SUBSET S
    OBVIOUS
  <1>7. /\ S = {} => s[S] = 0
        /\ S # {} => s[S] = f[Some(S)] + s[R] /\ Some(S) \in S
    <2> HIDE DEF s
    <2> QED BY <1>1, <1>6, TableEntry
  <1> QED BY <1>4, <1>5, <1>7

\* A sum of integers is an integer, and of naturals a natural.
LEMMA SumType ==
    ASSUME NEW V, V = Int \/ V = Nat, NEW f, NEW S, IsFiniteSet(S), \A x \in S : f[x] \in V
    PROVE  SumOver(f, S) \in V
  <1> DEFINE B == {T \in SUBSET S : SumOver(f, T) \notin V}
  <1>1. ASSUME B # {} PROVE FALSE
    <2>1. PICK T \in B : \A U \in B : U \subseteq T => U = T
      <3>1. B \in SUBSET SUBSET S
        OBVIOUS
      <3> HIDE DEF B
      <3> QED BY <1>1, <3>1, MinimalSubset
    <2>2. T \in SUBSET S /\ SumOver(f, T) \notin V /\ IsFiniteSet(T)
      BY FS_Subset
    <2>3. T # {}
      BY <2>2, SumUnfolds
    <2>4. SumOver(f, T) = f[Some(T)] + SumOver(f, T \ {Some(T)}) /\ Some(T) \in T
      BY <2>2, <2>3, SumUnfolds
    <2>5. T \ {Some(T)} \in SUBSET S /\ T \ {Some(T)} \notin B
      BY <2>1, <2>2, <2>4
    <2>6. SumOver(f, T \ {Some(T)}) \in V /\ f[Some(T)] \in V
      BY <2>2, <2>4, <2>5
    <2> QED BY <2>2, <2>4, <2>6
  <1>2. S \notin B
    BY <1>1
  <1> QED BY <1>2

\* Any element may be added last.
LEMMA SumAdds ==
    ASSUME NEW f, NEW S, IsFiniteSet(S), NEW z, z \notin S, \A x \in S \cup {z} : f[x] \in Int
    PROVE  SumOver(f, S \cup {z}) = SumOver(f, S) + f[z]
  <1> DEFINE W == S \cup {z}
             Adds(T, x) == SumOver(f, T \cup {x}) = SumOver(f, T) + f[x]
             B == {T \in SUBSET W : \E x \in W \ T : ~Adds(T, x)}
  <1>1. IsFiniteSet(W)
    BY FS_AddElement
  <1>2. ASSUME B # {} PROVE FALSE
    <2>1. PICK T \in B : \A U \in B : U \subseteq T => U = T
      <3>1. B \in SUBSET SUBSET W
        OBVIOUS
      <3> HIDE DEF B, W
      <3> QED BY <1>1, <1>2, <3>1, MinimalSubset
    <2>2. PICK x \in W \ T : ~Adds(T, x)
      OBVIOUS
    <2> DEFINE U == T \cup {x}
               p == Some(U)
    <2>3. /\ T \in SUBSET W /\ U \in SUBSET W /\ x \notin T
          /\ IsFiniteSet(T) /\ IsFiniteSet(U)
      BY <1>1, FS_Subset
    <2>4. SumOver(f, U) = f[p] + SumOver(f, U \ {p}) /\ p \in U
      <3>1. U # {}
        OBVIOUS
      <3> HIDE DEF U
      <3> QED BY <2>3, <3>1, SumUnfolds
    <2>5. SumOver(f, T) \in Int /\ f[p] \in Int /\ f[x] \in Int
      <3>1. \A y \in T : f[y] \in Int
        BY <2>3
      <3>2. SumOver(f, T) \in Int
        <4> HIDE DEF W
        <4> QED BY <2>3, <3>1, SumType
      <3> QED BY <2>3, <2>4, <3>2
    <2>6. CASE p = x
      <3>1. U \ {p} = T
        BY <2>3, <2>6
      <3>2. SumOver(f, U) = f[x] + SumOver(f, T)
        <4> HIDE DEF p, U
        <4> QED BY <2>4, <2>6, <3>1
      <3>3. SumOver(f, U) = SumOver(f, T) + f[x]
        <4> HIDE DEF U
        <4> QED BY <2>5, <3>2
      <3> QED BY <2>2, <3>3
    <2>7. CASE p # x
      <3> DEFINE R == T \ {p}
      <3>1. p \in T /\ U \ {p} = R \cup {x} /\ R \cup {p} = T /\ x \notin R /\ p \notin R
        BY <2>3, <2>4, <2>7
      <3>2. R \in SUBSET W /\ R \notin B /\ IsFiniteSet(R)
        BY <2>1, <2>3, <3>1, FS_Subset
      <3>3. Adds(R, x) /\ Adds(R, p)
        BY <2>3, <3>1, <3>2
      <3>4. SumOver(f, R) \in Int
        <4>1. \A y \in R : f[y] \in Int
          BY <3>2
        <4> HIDE DEF R
        <4> QED BY <3>2, <4>1, SumType
      <3>5. /\ SumOver(f, U) = f[p] + (SumOver(f, R) + f[x])
            /\ SumOver(f, T) = SumOver(f, R) + f[p]
        <4> HIDE DEF U, R, p
        <4> QED BY <2>4, <3>1, <3>3
      <3>6. SumOver(f, U) = SumOver(f, T) + f[x]
        <4> HIDE DEF U, R, p
        <4> QED BY <2>5, <3>4, <3>5
      <3> QED BY <2>2, <3>6
    <2> QED BY <2>6, <2>7
  <1>3. S \in SUBSET W /\ z \in W \ S
    OBVIOUS
  <1>4. S \notin B
    BY <1>2
  <1> QED BY <1>3, <1>4

\* Any element may be taken first.
LEMMA SumTakes ==
    ASSUME NEW f, NEW S, IsFiniteSet(S), NEW z \in S, \A x \in S : f[x] \in Int
    PROVE  SumOver(f, S) = f[z] + SumOver(f, S \ {z}) /\ SumOver(f, S \ {z}) \in Int
  <1>1. IsFiniteSet(S \ {z}) /\ (S \ {z}) \cup {z} = S /\ z \notin S \ {z}
    BY FS_Subset
  <1>2. SumOver(f, S \ {z}) \in Int
    BY <1>1, SumType
  <1>3. SumOver(f, (S \ {z}) \cup {z}) = SumOver(f, S \ {z}) + f[z]
    BY <1>1, SumAdds
  <1>4. SumOver(f, S) = SumOver(f, S \ {z}) + f[z]
    BY <1>1, <1>3
  <1> QED BY <1>2, <1>4

\* The sum is of the values alone.
LEMMA SumSame ==
    ASSUME NEW f, NEW g, NEW S, IsFiniteSet(S), \A x \in S : f[x] = g[x]
    PROVE  SumOver(f, S) = SumOver(g, S)
  <1> DEFINE B == {T \in SUBSET S : SumOver(f, T) # SumOver(g, T)}
  <1>1. ASSUME B # {} PROVE FALSE
    <2>1. PICK T \in B : \A U \in B : U \subseteq T => U = T
      <3>1. B \in SUBSET SUBSET S
        OBVIOUS
      <3> HIDE DEF B
      <3> QED BY <1>1, <3>1, MinimalSubset
    <2>2. T \in SUBSET S /\ SumOver(f, T) # SumOver(g, T) /\ IsFiniteSet(T)
      BY FS_Subset
    <2>3. T # {}
      BY <2>2, SumUnfolds
    <2>4. /\ SumOver(f, T) = f[Some(T)] + SumOver(f, T \ {Some(T)})
          /\ SumOver(g, T) = g[Some(T)] + SumOver(g, T \ {Some(T)})
          /\ Some(T) \in T
      BY <2>2, <2>3, SumUnfolds
    <2>5. T \ {Some(T)} \in SUBSET S /\ T \ {Some(T)} \notin B
      BY <2>1, <2>2, <2>4
    <2>6. SumOver(f, T \ {Some(T)}) = SumOver(g, T \ {Some(T)}) /\ f[Some(T)] = g[Some(T)]
      BY <2>2, <2>4, <2>5
    <2> QED BY <2>2, <2>4, <2>6
  <1>2. S \notin B
    BY <1>1
  <1> QED BY <1>2

\* What is added to one value is added to the sum.
LEMMA SumChanges ==
    ASSUME NEW f, NEW g, NEW S, IsFiniteSet(S), NEW z \in S, NEW d \in Int,
           \A x \in S : f[x] \in Int, g[z] = f[z] + d, \A x \in S \ {z} : g[x] = f[x]
    PROVE  SumOver(g, S) = SumOver(f, S) + d
  <1> DEFINE R == S \ {z}
  <1>1. IsFiniteSet(R)
    BY FS_Subset
  <1>2. \A x \in S : g[x] \in Int
    OBVIOUS
  <1>3. SumOver(f, S) = f[z] + SumOver(f, R) /\ SumOver(f, R) \in Int
    BY SumTakes
  <1>4. SumOver(g, S) = g[z] + SumOver(g, R)
    BY <1>2, SumTakes
  <1>5. SumOver(g, R) = SumOver(f, R)
    <2>1. \A x \in R : g[x] = f[x]
      OBVIOUS
    <2> HIDE DEF R
    <2> QED BY <1>1, <2>1, SumSame
  <1> QED BY <1>3, <1>4, <1>5

\* A sum of zeros is zero.
LEMMA SumZero ==
    ASSUME NEW f, NEW S, IsFiniteSet(S), \A x \in S : f[x] = 0
    PROVE  SumOver(f, S) = 0
  <1> DEFINE F == {T \in SUBSET S : SumOver(f, T) = 0}
  <1>1. {} \in F
    BY FS_EmptySet, SumUnfolds
  <1>2. ASSUME NEW T \in SUBSET S, NEW z \in S \ T, T \in F PROVE T \cup {z} \in F
    <2>1. IsFiniteSet(T) /\ SumOver(f, T) = 0
      BY <1>2, FS_Subset
    <2>2. SumOver(f, T \cup {z}) = SumOver(f, T) + f[z]
      BY <2>1, SumAdds
    <2> QED BY <2>1, <2>2
  <1>3. S \in F
    <2> HIDE DEF F
    <2> QED BY <1>1, <1>2, FiniteSubsets
  <1> QED BY <1>3

\* The elements of T that p puts in the part w.
Part(p, w, T) == {x \in T : p[x] = w}

\* The sums over the parts of a set add up to the sum over the set.
LEMMA SumOfParts ==
    ASSUME NEW f, NEW p, NEW S, NEW W, IsFiniteSet(S), IsFiniteSet(W),
           \A x \in S : f[x] \in Int /\ p[x] \in W
    PROVE  SumOver([w \in W |-> SumOver(f, Part(p, w, S))], W) = SumOver(f, S)
  <1> DEFINE of(T) == [w \in W |-> SumOver(f, Part(p, w, T))]
             F == {T \in SUBSET S : SumOver(of(T), W) = SumOver(f, T)}
  <1>1. {} \in F
    <2>1. \A w \in W : Part(p, w, {}) = {}
      BY DEF Part
    <2>2. SumOver(f, {}) = 0
      BY FS_EmptySet, SumUnfolds
    <2>3. \A w \in W : of({})[w] = 0
      BY <2>1, <2>2
    <2>4. SumOver(of({}), W) = 0
      <3> HIDE DEF of
      <3> QED BY <2>3, SumZero
    <2> QED BY <2>2, <2>4
  <1>2. ASSUME NEW T \in SUBSET S, NEW z \in S \ T, T \in F PROVE T \cup {z} \in F
    <2>1. IsFiniteSet(T) /\ f[z] \in Int /\ p[z] \in W /\ \A x \in T \cup {z} : f[x] \in Int
      BY FS_Subset
    <2>2. SumOver(f, T \cup {z}) = SumOver(f, T) + f[z]
      BY <2>1, SumAdds
    <2>3. ASSUME NEW w \in W
          PROVE  IsFiniteSet(Part(p, w, T)) /\ of(T)[w] \in Int
      <3>1. Part(p, w, T) \subseteq T
        BY DEF Part
      <3>2. IsFiniteSet(Part(p, w, T)) /\ \A x \in Part(p, w, T) : f[x] \in Int
        BY <2>1, <3>1, FS_Subset
      <3> QED BY <3>2, SumType
    <2>4. of(T \cup {z})[p[z]] = of(T)[p[z]] + f[z]
      <3> DEFINE P == Part(p, p[z], T)
      <3>1. Part(p, p[z], T \cup {z}) = P \cup {z} /\ z \notin P
        BY DEF Part
      <3>2. IsFiniteSet(P) /\ \A x \in P \cup {z} : f[x] \in Int
        BY <2>1, <2>3 DEF Part
      <3>3. SumOver(f, P \cup {z}) = SumOver(f, P) + f[z]
        <4> HIDE DEF P
        <4> QED BY <3>1, <3>2, SumAdds
      <3> QED BY <2>1, <3>1, <3>3
    <2>5. \A w \in W \ {p[z]} : of(T \cup {z})[w] = of(T)[w]
      <3>1. \A w \in W \ {p[z]} : Part(p, w, T \cup {z}) = Part(p, w, T)
        BY DEF Part
      <3> QED BY <3>1
    <2>6. SumOver(of(T \cup {z}), W) = SumOver(of(T), W) + f[z]
      <3>0. PICK v \in W, d \in Int : v = p[z] /\ d = f[z]
        BY <2>1
      <3>1. PICK a, b : a = of(T) /\ b = of(T \cup {z})
        OBVIOUS
      <3>2. /\ \A w \in W : a[w] \in Int
            /\ b[v] = a[v] + d /\ \A w \in W \ {v} : b[w] = a[w]
        <4> HIDE DEF of
        <4> QED BY <2>3, <2>4, <2>5, <3>0, <3>1
      <3>3. SumOver(b, W) = SumOver(a, W) + d
        BY <3>2, SumChanges
      <3> HIDE DEF of
      <3> QED BY <3>0, <3>1, <3>3
    <2> QED BY <1>2, <2>2, <2>6
  <1>3. S \in F
    <2> HIDE DEF F
    <2> QED BY <1>1, <1>2, FiniteSubsets
  <1> QED BY <1>3

\* A cardinality is a sum of ones...
LEMMA CardIsSum ==
    ASSUME NEW f, NEW S, IsFiniteSet(S), \A x \in S : f[x] = 1
    PROVE  SumOver(f, S) = Cardinality(S)
  <1> DEFINE F == {T \in SUBSET S : SumOver(f, T) = Cardinality(T)}
  <1>1. {} \in F
    BY FS_EmptySet, SumUnfolds
  <1>2. ASSUME NEW T \in SUBSET S, NEW z \in S \ T, T \in F PROVE T \cup {z} \in F
    <2>1. IsFiniteSet(T) /\ SumOver(f, T) = Cardinality(T)
      BY <1>2, FS_Subset
    <2>2. SumOver(f, T \cup {z}) = SumOver(f, T) + f[z]
      BY <2>1, SumAdds
    <2>3. Cardinality(T \cup {z}) = Cardinality(T) + 1
      BY <2>1, FS_AddElement
    <2> QED BY <2>1, <2>2, <2>3
  <1>3. S \in F
    <2> HIDE DEF F
    <2> QED BY <1>1, <1>2, FiniteSubsets
  <1> QED BY <1>3

\* ... so those of the parts of a set add up to that of the set.
LEMMA CardOfParts ==
    ASSUME NEW p, NEW S, NEW W, IsFiniteSet(S), IsFiniteSet(W), \A x \in S : p[x] \in W
    PROVE  SumOver([w \in W |-> Cardinality(Part(p, w, S))], W) = Cardinality(S)
  <1> DEFINE one == [x \in S |-> 1]
             g == [w \in W |-> SumOver(one, Part(p, w, S))]
             h == [w \in W |-> Cardinality(Part(p, w, S))]
  <1>1. ASSUME NEW w \in W PROVE SumOver(one, Part(p, w, S)) = Cardinality(Part(p, w, S))
    <2>1. Part(p, w, S) \subseteq S
      BY DEF Part
    <2>2. IsFiniteSet(Part(p, w, S)) /\ \A x \in Part(p, w, S) : one[x] = 1
      BY <2>1, FS_Subset
    <2> HIDE DEF one
    <2> QED BY <2>2, CardIsSum
  <1>2. \A w \in W : h[w] = g[w]
    BY <1>1
  <1>3. SumOver(h, W) = SumOver(g, W)
    <2> HIDE DEF g, h
    <2> QED BY <1>2, SumSame
  <1>4. SumOver(g, W) = SumOver(one, S)
    <2>1. \A x \in S : one[x] \in Int
      OBVIOUS
    <2> HIDE DEF one
    <2> QED BY <2>1, SumOfParts
  <1>5. SumOver(one, S) = Cardinality(S)
    <2>1. \A x \in S : one[x] = 1
      OBVIOUS
    <2> HIDE DEF one
    <2> QED BY <2>1, CardIsSum
  <1> QED BY <1>3, <1>4, <1>5
=============================================================================
