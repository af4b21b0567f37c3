---------------------------- MODULE SumTheorems ----------------------------
(***************************************************************************)
(* Facts about SumFunctionOnSet, the sum of the values of a function over  *)
(* a finite set of arguments.  They are stated for functions (values), not *)
(* for operators, so that the provers can instantiate them.                *)
(*                                                                         *)
(* The induction they need is the one over the strict subsets of a finite  *)
(* set, in the form "a set of sets without a minimal element is empty".    *)
(***************************************************************************)
EXTENDS Functions, Integers, FiniteSetTheorems, TLAPS

-----------------------------------------------------------------------------
(* Induction.                                                              *)

(* A set of subsets of a finite set, if not empty, has a minimal one.       *)
LEMMA MinimalSubset ==
  ASSUME NEW S, IsFiniteSet(S), NEW X \in SUBSET SUBSET S, X # {}
  PROVE  \E T \in X : \A U \in SUBSET T : U # T => U \notin X
<1>1. X \subseteq FiniteSubsetsOf(S)
  BY FS_FiniteSubsetsOfFinite
<1>2. \E T \in X : \A U \in X : <<U, T>> \notin StrictSubsetOrdering(S)
  BY <1>1, FS_StrictSubsetOrderingWellFounded, WFMin
<1> QED
  BY <1>2 DEF StrictSubsetOrdering

(* A non-empty set of naturals has a least element.                        *)
LEMMA LeastNatural ==
  ASSUME NEW T \in SUBSET Nat, T # {}
  PROVE  \E n \in T : \A m \in T : n <= m
<1>1. PICK top \in T : TRUE
  OBVIOUS
<1> DEFINE X == {0..m : m \in {n \in T : n <= top}}
<1>2. IsFiniteSet(0..top)
  BY FS_Interval
<1>3. X \in SUBSET SUBSET (0..top) /\ X # {}
  <2>1. 0..top \in X
    BY SMTT(30)
  <2> QED
    BY <2>1
<1>4. PICK I \in X : \A U \in SUBSET I : U # I => U \notin X
  <2> HIDE DEF X
  <2> QED
    BY <1>2, <1>3, MinimalSubset
<1>5. PICK n \in T : n <= top /\ I = 0..n
  BY <1>4
<1>6. ASSUME NEW m \in T, m < n PROVE FALSE
  <2>1. 0..m \in X
    BY <1>5, <1>6
  <2>2. 0..m \subseteq 0..n /\ n \notin 0..m /\ n \in 0..n
    BY <1>6
  <2> QED
    BY <1>4, <1>5, <2>1, <2>2
<1> QED
  BY <1>6

-----------------------------------------------------------------------------
(* The sum is what its recursive definition says.                          *)

Pick(s) == CHOOSE x \in s : TRUE

\* g gives the sums of f over the subsets of S.
IsTable(g, f, S) ==
  g = [s \in SUBSET S |-> IF s = {} THEN 0 ELSE f[Pick(s)] + g[s \ {Pick(s)}]]

LEMMA PickIn == ASSUME NEW s, s # {} PROVE Pick(s) \in s
BY DEF Pick

LEMMA TableExists ==
  ASSUME NEW S, IsFiniteSet(S), NEW f
  PROVE  \E g : IsTable(g, f, S)
<1> DEFINE Small(n) == {s \in SUBSET S : Cardinality(s) <= n}
           Sum(g, s) == IF s = {} THEN 0 ELSE f[Pick(s)] + g[s \ {Pick(s)}]
           Bad == {n \in Nat : ~\E g : g = [s \in Small(n) |-> Sum(g, s)]}
<1>0. \A s \in SUBSET S : IsFiniteSet(s) /\ Cardinality(s) \in Nat
  BY FS_Subset, FS_CardinalityType
<1>1. 0 \notin Bad
  <2>1. \A s \in Small(0) : s = {}
    BY <1>0, FS_EmptySet
  <2> DEFINE g == [s \in Small(0) |-> 0]
  <2>2. g = [s \in Small(0) |-> Sum(g, s)]
    BY <2>1
  <2> QED
    BY <2>2
<1>2. ASSUME NEW n \in Nat, n \notin Bad PROVE n + 1 \notin Bad
  <2>1. PICK g : g = [s \in Small(n) |-> Sum(g, s)]
    BY <1>2
  <2> DEFINE h == [s \in Small(n + 1) |-> Sum(g, s)]
  <2>2. ASSUME NEW s \in Small(n + 1), s # {} PROVE s \ {Pick(s)} \in Small(n)
    <3>1. Pick(s) \in s
      BY <2>2, PickIn
    <3>2. Cardinality(s \ {Pick(s)}) = Cardinality(s) - 1
      BY <1>0, <3>1, FS_RemoveElement
    <3>3. Cardinality(s) \in Nat /\ Cardinality(s) <= n + 1
      BY <1>0
    <3> QED
      BY <1>0, <3>2, <3>3
  <2>3. ASSUME NEW s \in Small(n) PROVE s \in Small(n + 1) /\ h[s] = g[s]
    <3>1. s \in Small(n + 1)
      BY <1>0
    <3>2. h[s] = Sum(g, s)
      BY <3>1
    <3>3. g[s] = Sum(g, s)
      BY <2>1
    <3> QED
      BY <3>1, <3>2, <3>3
  <2>4. h = [s \in Small(n + 1) |-> Sum(h, s)]
    BY <2>2, <2>3
  <2> QED
    BY <2>4
<1>3. Bad = {}
  <2> SUFFICES ASSUME Bad # {} PROVE FALSE
    OBVIOUS
  <2>0. Bad \subseteq Nat
    OBVIOUS
  <2> HIDE DEF Bad
  <2>1. PICK n \in Bad : \A m \in Bad : n <= m
    BY <2>0, LeastNatural
  <2>2. n - 1 \in Nat
    BY <1>1, <2>0, <2>1
  <2>3. n - 1 \notin Bad
    BY <2>0, <2>1
  <2>4. n - 1 + 1 \notin Bad
    BY <1>2, <2>2, <2>3
  <2> QED
    BY <2>0, <2>1, <2>4
<1>4. Cardinality(S) \in Nat /\ Small(Cardinality(S)) = SUBSET S
  BY FS_Subset, FS_CardinalityType
<1>5. PICK g : g = [s \in Small(Cardinality(S)) |-> Sum(g, s)]
  BY <1>3, <1>4
<1>6. IsTable(g, f, S)
  BY <1>4, <1>5 DEF IsTable
<1> QED
  BY <1>6

(* The sum over S is the entry of S in a table.                            *)
LEMMA SumIsInTable ==
  ASSUME NEW S, IsFiniteSet(S), NEW f
  PROVE  \E g : IsTable(g, f, S) /\ SumFunctionOnSet(f, S) = g[S]
<1> DEFINE g == CHOOSE t : IsTable(t, f, S)
<1>1. IsTable(g, f, S)
  BY TableExists
<1>2. SumFunctionOnSet(f, S) = g[S]
  BY DEF SumFunctionOnSet, FoldFunctionOnSet, MapThenFoldSet, IsTable, Pick
<1> QED
  BY <1>1, <1>2

(* Two tables agree where both are defined.                                *)
LEMMA TablesAgree ==
  ASSUME NEW S, IsFiniteSet(S), NEW T, NEW f, NEW g, NEW h,
         IsTable(g, f, S), IsTable(h, f, T),
         NEW U \in SUBSET S, U \subseteq T
  PROVE  g[U] = h[U]
<1> DEFINE X == {V \in SUBSET S : V \subseteq T /\ g[V] # h[V]}
<1>1. SUFFICES X = {}
  OBVIOUS
<1>2. SUFFICES ASSUME X # {} PROVE FALSE
  OBVIOUS
<1>3. X \in SUBSET SUBSET S
  OBVIOUS
<1>4. PICK V \in X : \A W \in SUBSET V : W # V => W \notin X
  <2> HIDE DEF X
  <2> QED
    BY <1>2, <1>3, MinimalSubset
<1>5. /\ g[V] = IF V = {} THEN 0 ELSE f[Pick(V)] + g[V \ {Pick(V)}]
      /\ h[V] = IF V = {} THEN 0 ELSE f[Pick(V)] + h[V \ {Pick(V)}]
  BY DEF IsTable
<1>6. V # {}
  BY <1>5
<1>7. Pick(V) \in V
  BY <1>6, PickIn
<1>8. g[V \ {Pick(V)}] = h[V \ {Pick(V)}]
  BY <1>4, <1>7
<1> QED
  BY <1>5, <1>8

(* In a table, the element the recursion removes may be any.               *)
LEMMA TableStep ==
  ASSUME NEW S, IsFiniteSet(S), NEW f, \A x \in S : f[x] \in Int,
         NEW g, IsTable(g, f, S)
  PROVE  \A V \in SUBSET S :
           g[V] \in Int /\ \A x \in V : g[V] = f[x] + g[V \ {x}]
<1> DEFINE Good(V) == g[V] \in Int /\ \A x \in V : g[V] = f[x] + g[V \ {x}]
           X == {V \in SUBSET S : ~Good(V)}
<1>1. SUFFICES ASSUME X # {} PROVE FALSE
  OBVIOUS
<1>2. X \in SUBSET SUBSET S
  OBVIOUS
<1>3. PICK V \in X : \A W \in SUBSET V : W # V => W \notin X
  <2> HIDE DEF X
  <2> QED
    BY <1>1, <1>2, MinimalSubset
<1> DEFINE p == Pick(V)
<1>4. g[V] = IF V = {} THEN 0 ELSE f[p] + g[V \ {p}]
  BY DEF IsTable
<1>5. V # {}
  BY <1>4
<1>6. p \in V
  BY <1>5, PickIn
<1> HIDE DEF p
<1>7. \A x \in V : V \ {x} \in SUBSET S /\ Good(V \ {x})
  <2> SUFFICES ASSUME NEW x \in V PROVE V \ {x} \in SUBSET S /\ Good(V \ {x})
    OBVIOUS
  <2>1. V \ {x} \in SUBSET V /\ V \ {x} # V /\ V \ {x} \in SUBSET S
    OBVIOUS
  <2>2. V \ {x} \notin X
    BY <1>3, <2>1
  <2> QED
    BY <2>1, <2>2
<1>8. g[V] = f[p] + g[V \ {p}] /\ f[p] \in Int /\ g[V \ {p}] \in Int
  BY <1>4, <1>5, <1>6, <1>7
<1>9. ASSUME NEW x \in V, x # p PROVE g[V] = f[x] + g[V \ {x}]
  <2>1. (V \ {p}) \ {x} = (V \ {x}) \ {p}
    OBVIOUS
  <2>2. /\ g[V \ {p}] = f[x] + g[(V \ {p}) \ {x}]
        /\ g[V \ {x}] = f[p] + g[(V \ {p}) \ {x}]
    BY <1>6, <1>7, <1>9, <2>1
  <2>3. f[x] \in Int /\ g[(V \ {p}) \ {x}] \in Int
    <3>1. (V \ {p}) \ {x} \in SUBSET V /\ (V \ {p}) \ {x} # V
      OBVIOUS
    <3>2. (V \ {p}) \ {x} \notin X
      BY <1>3, <3>1
    <3> QED
      BY <3>2
  <2> QED
    BY <1>8, <2>2, <2>3
<1>10. g[V] \in Int
  BY <1>8
<1>11. Good(V)
  BY <1>8, <1>9, <1>10
<1> QED
  BY <1>11

-----------------------------------------------------------------------------
(* The sum of an empty set, of one element less, and of one more.          *)

LEMMA SumEmpty == ASSUME NEW f PROVE SumFunctionOnSet(f, {}) = 0
<1>1. PICK g : IsTable(g, f, {}) /\ SumFunctionOnSet(f, {}) = g[{}]
  BY SumIsInTable, FS_EmptySet
<1> QED
  BY <1>1 DEF IsTable

LEMMA SumInt ==
  ASSUME NEW S, IsFiniteSet(S), NEW f, \A x \in S : f[x] \in Int
  PROVE  SumFunctionOnSet(f, S) \in Int
BY SumIsInTable, TableStep

LEMMA SumRemove ==
  ASSUME NEW S, IsFiniteSet(S), NEW f, \A x \in S : f[x] \in Int, NEW x \in S
  PROVE  SumFunctionOnSet(f, S) = f[x] + SumFunctionOnSet(f, S \ {x})
<1>1. PICK g : IsTable(g, f, S) /\ SumFunctionOnSet(f, S) = g[S]
  BY SumIsInTable
<1>2. PICK h : /\ IsTable(h, f, S \ {x})
               /\ SumFunctionOnSet(f, S \ {x}) = h[S \ {x}]
  BY SumIsInTable, FS_RemoveElement
<1>3. g[S \ {x}] = h[S \ {x}]
  BY <1>1, <1>2, TablesAgree
<1>4. g[S] = f[x] + g[S \ {x}]
  BY <1>1, TableStep
<1> QED
  BY <1>1, <1>2, <1>3, <1>4

LEMMA SumAdd ==
  ASSUME NEW S, IsFiniteSet(S), NEW x, x \notin S, NEW f,
         \A y \in S \union {x} : f[y] \in Int
  PROVE  SumFunctionOnSet(f, S \union {x}) = f[x] + SumFunctionOnSet(f, S)
<1>1. IsFiniteSet(S \union {x}) /\ (S \union {x}) \ {x} = S
  BY FS_AddElement
<1> QED
  BY <1>1, SumRemove

(* The sum over one element, and over two.                                  *)
LEMMA SumOne ==
  ASSUME NEW f, NEW x, f[x] \in Int
  PROVE  SumFunctionOnSet(f, {x}) = f[x]
<1>1. SumFunctionOnSet(f, {} \union {x}) = f[x] + SumFunctionOnSet(f, {})
  BY FS_EmptySet, SumAdd
<1>2. {} \union {x} = {x}
  OBVIOUS
<1> QED
  BY <1>1, <1>2, SumEmpty

LEMMA SumTwo ==
  ASSUME NEW f, NEW x, NEW y, x # y, f[x] \in Int, f[y] \in Int
  PROVE  SumFunctionOnSet(f, {y} \union {x}) = f[x] + f[y]
<1>1. IsFiniteSet({y}) /\ x \notin {y}
  BY FS_Singleton
<1>2. SumFunctionOnSet(f, {y}) = f[y]
  BY SumOne
<1>3. SumFunctionOnSet(f, {y} \union {x}) = f[x] + SumFunctionOnSet(f, {y})
  <2> DEFINE X == {y}
  <2>1. \A z \in X \union {x} : f[z] \in Int
    OBVIOUS
  <2> HIDE DEF X
  <2>2. IsFiniteSet(X) /\ x \notin X
    BY <1>1 DEF X
  <2>3. SumFunctionOnSet(f, X \union {x}) = f[x] + SumFunctionOnSet(f, X)
    BY <2>1, <2>2, SumAdd
  <2> QED
    BY <2>3 DEF X
<1> QED
  BY <1>2, <1>3

(* What holds of {} and is kept by adding an element of S holds of S.       *)
LEMMA GrowSet ==
  ASSUME NEW S, IsFiniteSet(S), NEW X \in SUBSET SUBSET S, {} \in X,
         \A T \in X : \A x \in S \ T : T \union {x} \in X
  PROVE  S \in X
<1> SUFFICES ASSUME S \notin X PROVE FALSE
  OBVIOUS
<1> DEFINE Y == (SUBSET S) \ X
<1>1. Y \in SUBSET SUBSET S /\ Y # {}
  OBVIOUS
<1>2. PICK T \in Y : \A U \in SUBSET T : U # T => U \notin Y
  <2> HIDE DEF Y
  <2> QED
    BY <1>1, MinimalSubset
<1>3. PICK x \in T : TRUE
  BY <1>2
<1>4. T \ {x} \in X
  BY <1>2, <1>3
<1>5. (T \ {x}) \union {x} = T /\ x \in S \ (T \ {x})
  BY <1>3
<1> QED
  BY <1>4, <1>5

(* The values of a function on a finite set are finitely many.             *)
LEMMA FiniteImage ==
  ASSUME NEW S, IsFiniteSet(S), NEW b
  PROVE  IsFiniteSet({b[x] : x \in S})
<1> DEFINE f == [x \in S |-> b[x]]
           T == {b[x] : x \in S}
<1>1. f \in Surjection(S, T)
  BY DEF Surjection
<1> QED
  BY <1>1, FS_Surjection

-----------------------------------------------------------------------------
(* Sums of different functions, over different sets.                       *)

(* Only the values on S matter.                                            *)
LEMMA SumSame ==
  ASSUME NEW S, IsFiniteSet(S), NEW f, NEW g,
         \A x \in S : f[x] \in Int /\ g[x] = f[x]
  PROVE  SumFunctionOnSet(g, S) = SumFunctionOnSet(f, S)
<1> DEFINE X == {T \in SUBSET S : SumFunctionOnSet(g, T) = SumFunctionOnSet(f, T)}
<1>1. {} \in X
  BY SumEmpty
<1>2. ASSUME NEW T \in X, NEW x \in S \ T PROVE T \union {x} \in X
  <2>1. IsFiniteSet(T)
    BY FS_Subset
  <2>2. \A y \in T \union {x} : f[y] \in Int /\ g[y] \in Int
    OBVIOUS
  <2>3. SumFunctionOnSet(f, T \union {x}) = f[x] + SumFunctionOnSet(f, T)
    BY <2>1, <2>2, SumAdd
  <2>4. SumFunctionOnSet(g, T \union {x}) = g[x] + SumFunctionOnSet(g, T)
    BY <2>1, <2>2, SumAdd
  <2> QED
    BY <2>3, <2>4
<1>3. X \in SUBSET SUBSET S
  OBVIOUS
<1>4. S \in X
  <2> HIDE DEF X
  <2> QED
    BY <1>1, <1>2, <1>3, GrowSet
<1> QED
  BY <1>4

(* The sum of a difference.                                                *)
LEMMA SumMinus ==
  ASSUME NEW S, IsFiniteSet(S), NEW f, NEW g, NEW h,
         \A x \in S : f[x] \in Int /\ g[x] \in Int /\ h[x] = f[x] - g[x]
  PROVE  SumFunctionOnSet(h, S) = SumFunctionOnSet(f, S) - SumFunctionOnSet(g, S)
<1> DEFINE X == {T \in SUBSET S :
                   SumFunctionOnSet(h, T)
                     = SumFunctionOnSet(f, T) - SumFunctionOnSet(g, T)}
<1>1. {} \in X
  BY SumEmpty
<1>2. ASSUME NEW T \in X, NEW x \in S \ T PROVE T \union {x} \in X
  <2>1. IsFiniteSet(T)
    BY FS_Subset
  <2>2. \A y \in T \union {x} : f[y] \in Int /\ g[y] \in Int /\ h[y] \in Int
    OBVIOUS
  <2>3. /\ SumFunctionOnSet(f, T \union {x}) = f[x] + SumFunctionOnSet(f, T)
        /\ SumFunctionOnSet(g, T \union {x}) = g[x] + SumFunctionOnSet(g, T)
        /\ SumFunctionOnSet(h, T \union {x}) = h[x] + SumFunctionOnSet(h, T)
    BY <2>1, <2>2, SumAdd
  <2>4. SumFunctionOnSet(f, T) \in Int /\ SumFunctionOnSet(g, T) \in Int
    BY <2>1, <2>2, SumInt
  <2>5. h[x] = f[x] - g[x] /\ f[x] \in Int /\ g[x] \in Int
    OBVIOUS
  <2>6. SumFunctionOnSet(h, T) = SumFunctionOnSet(f, T) - SumFunctionOnSet(g, T)
    OBVIOUS
  <2>7. SumFunctionOnSet(h, T \union {x})
          = SumFunctionOnSet(f, T \union {x}) - SumFunctionOnSet(g, T \union {x})
    BY <2>3, <2>4, <2>5, <2>6
  <2> QED
    BY <2>7
<1>3. X \in SUBSET SUBSET S
  OBVIOUS
<1>4. S \in X
  <2> HIDE DEF X
  <2> QED
    BY <1>1, <1>2, <1>3, GrowSet
<1> QED
  BY <1>4

(* Values 0 sum up to 0.                                                   *)
LEMMA SumZero ==
  ASSUME NEW S, IsFiniteSet(S), NEW f, \A x \in S : f[x] = 0
  PROVE  SumFunctionOnSet(f, S) = 0
<1>1. SumFunctionOnSet(f, S) = SumFunctionOnSet(f, S) - SumFunctionOnSet(f, S)
  BY SumMinus
<1>2. SumFunctionOnSet(f, S) \in Int
  BY SumInt
<1> QED
  BY <1>1, <1>2

(* The sum of a sum.                                                       *)
LEMMA SumPlus ==
  ASSUME NEW S, IsFiniteSet(S), NEW f, NEW g, NEW h,
         \A x \in S : f[x] \in Int /\ g[x] \in Int /\ h[x] = f[x] + g[x]
  PROVE  SumFunctionOnSet(h, S) = SumFunctionOnSet(f, S) + SumFunctionOnSet(g, S)
<1>1. \A x \in S : h[x] \in Int /\ g[x] \in Int /\ f[x] = h[x] - g[x]
  OBVIOUS
<1>2. SumFunctionOnSet(f, S) = SumFunctionOnSet(h, S) - SumFunctionOnSet(g, S)
  BY <1>1, SumMinus
<1>3. SumFunctionOnSet(h, S) \in Int /\ SumFunctionOnSet(g, S) \in Int
  BY <1>1, SumInt
<1> QED
  BY <1>2, <1>3

(* A sum one of whose values changes.                                      *)
LEMMA SumChanged ==
  ASSUME NEW S, IsFiniteSet(S), NEW f, NEW g, NEW x \in S,
         \A y \in S : f[y] \in Int /\ g[y] \in Int,
         \A y \in S : y # x => g[y] = f[y]
  PROVE  SumFunctionOnSet(g, S) = SumFunctionOnSet(f, S) + (g[x] - f[x])
<1>1. IsFiniteSet(S \ {x})
  BY FS_RemoveElement
<1>2. SumFunctionOnSet(g, S) = g[x] + SumFunctionOnSet(g, S \ {x})
  BY SumRemove
<1>3. SumFunctionOnSet(f, S) = f[x] + SumFunctionOnSet(f, S \ {x})
  BY SumRemove
<1>4. SumFunctionOnSet(g, S \ {x}) = SumFunctionOnSet(f, S \ {x})
  BY <1>1, SumSame
<1>5. SumFunctionOnSet(f, S \ {x}) \in Int
  BY <1>1, SumInt
<1> QED
  BY <1>2, <1>3, <1>4, <1>5

(* The sum over two disjoint sets.                                         *)
LEMMA SumUnion ==
  ASSUME NEW S, IsFiniteSet(S), NEW R, IsFiniteSet(R), S \intersect R = {},
         NEW f, \A x \in S \union R : f[x] \in Int
  PROVE  SumFunctionOnSet(f, S \union R)
           = SumFunctionOnSet(f, S) + SumFunctionOnSet(f, R)
<1> DEFINE X == {T \in SUBSET S :
                   SumFunctionOnSet(f, T \union R)
                     = SumFunctionOnSet(f, T) + SumFunctionOnSet(f, R)}
<1>1. {} \in X
  <2>1. SumFunctionOnSet(f, R) \in Int
    BY SumInt
  <2>2. {} \union R = R
    OBVIOUS
  <2> QED
    BY <2>1, <2>2, SumEmpty
<1>2. ASSUME NEW T \in X, NEW x \in S \ T PROVE T \union {x} \in X
  <2>1. IsFiniteSet(T) /\ IsFiniteSet(T \union R)
    BY FS_Subset, FS_Union
  <2>2. x \notin T \union R /\ (T \union {x}) \union R = (T \union R) \union {x}
    OBVIOUS
  <2>3. SumFunctionOnSet(f, (T \union R) \union {x})
          = f[x] + SumFunctionOnSet(f, T \union R)
    BY <2>1, <2>2, SumAdd
  <2>4. SumFunctionOnSet(f, T \union {x}) = f[x] + SumFunctionOnSet(f, T)
    BY <2>1, SumAdd
  <2>5. /\ f[x] \in Int /\ SumFunctionOnSet(f, T) \in Int
        /\ SumFunctionOnSet(f, R) \in Int
    BY <2>1, SumInt
  <2>6. SumFunctionOnSet(f, T \union R)
          = SumFunctionOnSet(f, T) + SumFunctionOnSet(f, R)
    OBVIOUS
  <2>7. SumFunctionOnSet(f, (T \union {x}) \union R)
          = SumFunctionOnSet(f, T \union {x}) + SumFunctionOnSet(f, R)
    <3>1. SumFunctionOnSet(f, (T \union {x}) \union R)
            = f[x] + (SumFunctionOnSet(f, T) + SumFunctionOnSet(f, R))
      BY <2>2, <2>3, <2>6
    <3> QED
      BY <2>4, <2>5, <3>1
  <2> QED
    BY <2>7
<1>3. X \in SUBSET SUBSET S
  OBVIOUS
<1>4. S \in X
  <2> HIDE DEF X
  <2> QED
    BY <1>1, <1>2, <1>3, GrowSet
<1> QED
  BY <1>4

(* Where f is 0 outside T, the elements outside T do not count.            *)
LEMMA SumSupport ==
  ASSUME NEW S, IsFiniteSet(S), NEW T \in SUBSET S, NEW f, NEW g,
         \A x \in T : g[x] \in Int /\ f[x] = g[x],
         \A x \in S \ T : f[x] = 0
  PROVE  SumFunctionOnSet(f, S) = SumFunctionOnSet(g, T)
<1>1. IsFiniteSet(T) /\ IsFiniteSet(S \ T)
  BY FS_Subset
<1>2. S = T \union (S \ T) /\ T \intersect (S \ T) = {}
  OBVIOUS
<1>3. SumFunctionOnSet(f, S) = SumFunctionOnSet(f, T) + SumFunctionOnSet(f, S \ T)
  BY <1>1, <1>2, SumUnion
<1>4. SumFunctionOnSet(f, S \ T) = 0
  BY <1>1, SumZero
<1>5. SumFunctionOnSet(f, T) = SumFunctionOnSet(g, T)
  BY <1>1, SumSame
<1>6. SumFunctionOnSet(f, T) \in Int
  BY <1>1, SumInt
<1> QED
  BY <1>3, <1>4, <1>5, <1>6

(* The sum grouped by a key: over the elements of each key, then over the   *)
(* keys.                                                                   *)
LEMMA SumByKey ==
  ASSUME NEW S, IsFiniteSet(S), NEW K, IsFiniteSet(K), NEW key, NEW f,
         \A x \in S : f[x] \in Int
  PROVE  SumFunctionOnSet([k \in K |-> SumFunctionOnSet(f, {x \in S : key[x] = k})], K)
           = SumFunctionOnSet(f, {x \in S : key[x] \in K})
<1> DEFINE Of(k) == {x \in S : key[x] = k}
           In(T) == {x \in S : key[x] \in T}
           F == [k \in K |-> SumFunctionOnSet(f, Of(k))]
           X == {T \in SUBSET K : SumFunctionOnSet(F, T) = SumFunctionOnSet(f, In(T))}
<1>0. /\ \A k : IsFiniteSet(Of(k)) /\ Of(k) \subseteq S
      /\ \A T : IsFiniteSet(In(T)) /\ In(T) \subseteq S
  BY FS_Subset
<1>1. {} \in X
  <2>1. In({}) = {}
    OBVIOUS
  <2> QED
    BY <2>1, SumEmpty
<1>2. ASSUME NEW T \in X, NEW k \in K \ T PROVE T \union {k} \in X
  <2>1. IsFiniteSet(T)
    BY FS_Subset
  <2>2. \A j \in K : F[j] = SumFunctionOnSet(f, Of(j)) /\ F[j] \in Int
    BY <1>0, SumInt
  <2>3. SumFunctionOnSet(F, T \union {k}) = F[k] + SumFunctionOnSet(F, T)
    <3> HIDE DEF F
    <3> QED
      BY <2>1, <2>2, SumAdd
  <2>4. In(T \union {k}) = Of(k) \union In(T) /\ Of(k) \intersect In(T) = {}
    OBVIOUS
  <2>5. SumFunctionOnSet(f, In(T \union {k}))
          = SumFunctionOnSet(f, Of(k)) + SumFunctionOnSet(f, In(T))
    <3>1. \A x \in Of(k) \union In(T) : f[x] \in Int
      OBVIOUS
    <3>2. IsFiniteSet(Of(k)) /\ IsFiniteSet(In(T))
      BY <1>0
    <3> HIDE DEF Of, In
    <3>3. SumFunctionOnSet(f, Of(k) \union In(T))
            = SumFunctionOnSet(f, Of(k)) + SumFunctionOnSet(f, In(T))
      BY <2>4, <3>1, <3>2, SumUnion
    <3> QED
      BY <2>4, <3>3
  <2>6. SumFunctionOnSet(F, T) = SumFunctionOnSet(f, In(T))
    OBVIOUS
  <2>7. SumFunctionOnSet(F, T \union {k}) = SumFunctionOnSet(f, In(T \union {k}))
    <3> HIDE DEF F, Of, In
    <3> QED
      BY <2>2, <2>3, <2>5, <2>6
  <2> HIDE DEF F, In
  <2> QED
    BY <2>7
<1>3. X \in SUBSET SUBSET K
  OBVIOUS
<1>4. K \in X
  <2> HIDE DEF X
  <2> QED
    BY <1>1, <1>2, <1>3, GrowSet
<1>5. SumFunctionOnSet(F, K) = SumFunctionOnSet(f, In(K))
  <2> HIDE DEF F, In
  <2> QED
    BY <1>4
<1> QED
  BY <1>5

(* The order of two sums does not matter.                                  *)
LEMMA SumSwap ==
  ASSUME NEW S, IsFiniteSet(S), NEW R, IsFiniteSet(R), NEW f,
         \A x \in S : \A y \in R : f[x][y] \in Int
  PROVE  SumFunctionOnSet([x \in S |-> SumFunctionOnSet(f[x], R)], S)
           = SumFunctionOnSet(
               [y \in R |-> SumFunctionOnSet([x \in S |-> f[x][y]], S)], R)
<1> DEFINE Row == [x \in S |-> SumFunctionOnSet(f[x], R)]
           Column(y) == [x \in S |-> f[x][y]]
           Columns(T) == [y \in R |-> SumFunctionOnSet(Column(y), T)]
           X == {T \in SUBSET S :
                   SumFunctionOnSet(Row, T) = SumFunctionOnSet(Columns(T), R)}
<1>0. /\ \A x \in S : Row[x] = SumFunctionOnSet(f[x], R) /\ Row[x] \in Int
      /\ \A y \in R : \A x \in S : Column(y)[x] = f[x][y] /\ Column(y)[x] \in Int
      /\ \A T \in SUBSET S : \A y \in R : Columns(T)[y] = SumFunctionOnSet(Column(y), T)
  BY SumInt
<1>1. {} \in X
  <2>1. \A y \in R : Columns({})[y] = 0
    BY SumEmpty
  <2>2. SumFunctionOnSet(Columns({}), R) = 0
    <3> HIDE DEF Columns
    <3> QED
      BY <2>1, SumZero
  <2> QED
    BY <2>2, SumEmpty
<1>2. ASSUME NEW T \in X, NEW x \in S \ T PROVE T \union {x} \in X
  <2>1. IsFiniteSet(T) /\ T \in SUBSET S /\ T \union {x} \in SUBSET S
    BY FS_Subset
  <2>2. SumFunctionOnSet(Row, T) = SumFunctionOnSet(Columns(T), R)
    OBVIOUS
  <2> HIDE DEF Row, Column, Columns
  <2>3. SumFunctionOnSet(Row, T \union {x}) = SumFunctionOnSet(f[x], R)
                                                + SumFunctionOnSet(Row, T)
    <3>1. \A z \in T \union {x} : Row[z] \in Int
      BY <1>0
    <3>2. Row[x] = SumFunctionOnSet(f[x], R)
      BY <1>0
    <3>3. SumFunctionOnSet(Row, T \union {x}) = Row[x] + SumFunctionOnSet(Row, T)
      BY <2>1, <3>1, SumAdd
    <3> QED
      BY <3>2, <3>3
  <2>4. ASSUME NEW y \in R
        PROVE  /\ f[x][y] \in Int /\ Columns(T)[y] \in Int
               /\ Columns(T \union {x})[y] = f[x][y] + Columns(T)[y]
    <3>1. SumFunctionOnSet(Column(y), T \union {x})
            = Column(y)[x] + SumFunctionOnSet(Column(y), T)
      BY <1>0, <2>1, SumAdd
    <3>2. SumFunctionOnSet(Column(y), T) \in Int
      BY <1>0, <2>1, SumInt
    <3> QED
      BY <1>0, <2>1, <3>1, <3>2
  <2>5. SumFunctionOnSet(Columns(T \union {x}), R)
          = SumFunctionOnSet(f[x], R) + SumFunctionOnSet(Columns(T), R)
    BY <2>4, SumPlus
  <2>6. SumFunctionOnSet(Row, T \union {x}) = SumFunctionOnSet(Columns(T \union {x}), R)
    BY <2>2, <2>3, <2>5
  <2> QED
    BY <2>1, <2>6
<1>3. X \in SUBSET SUBSET S
  OBVIOUS
<1>4. S \in X
  <2> HIDE DEF X
  <2> QED
    BY <1>1, <1>2, <1>3, GrowSet
<1> QED
  BY <1>4

(* The sum over the elements b yields is the sum over the arguments of b.   *)
LEMMA SumImage ==
  ASSUME NEW S, IsFiniteSet(S), NEW b,
         \A x, y \in S : b[x] = b[y] => x = y,
         NEW f, NEW g, \A x \in S : f[b[x]] \in Int /\ g[x] = f[b[x]]
  PROVE  /\ IsFiniteSet({b[x] : x \in S})
         /\ SumFunctionOnSet(f, {b[x] : x \in S}) = SumFunctionOnSet(g, S)
<1> DEFINE Image(T) == {b[x] : x \in T}
           X == {T \in SUBSET S :
                   /\ IsFiniteSet(Image(T))
                   /\ SumFunctionOnSet(f, Image(T)) = SumFunctionOnSet(g, T)}
<1>1. {} \in X
  <2>1. Image({}) = {}
    OBVIOUS
  <2> QED
    BY <2>1, SumEmpty, FS_EmptySet
<1>2. ASSUME NEW T \in X, NEW x \in S \ T PROVE T \union {x} \in X
  <2>1. IsFiniteSet(T) /\ T \in SUBSET S /\ T \union {x} \in SUBSET S
    BY FS_Subset
  <2>2. IsFiniteSet(Image(T)) /\ SumFunctionOnSet(f, Image(T)) = SumFunctionOnSet(g, T)
    OBVIOUS
  <2>3. b[x] \notin Image(T) /\ Image(T \union {x}) = Image(T) \union {b[x]}
    OBVIOUS
  <2>4. \A y \in Image(T) \union {b[x]} : f[y] \in Int
    OBVIOUS
  <2>5. \A y \in T \union {x} : g[y] \in Int
    OBVIOUS
  <2>6. f[b[x]] = g[x]
    OBVIOUS
  <2> DEFINE bx == b[x]
  <2>10. bx \notin Image(T) /\ \A y \in Image(T) \union {bx} : f[y] \in Int
    BY <2>3, <2>4
  <2>11. Image(T \union {x}) = Image(T) \union {bx} /\ f[bx] = f[b[x]]
    BY <2>3
  <2> HIDE DEF Image, bx
  <2>7. IsFiniteSet(Image(T \union {x}))
    <3>1. IsFiniteSet(Image(T) \union {bx})
      BY <2>2, FS_AddElement
    <3> QED
      BY <2>11, <3>1
  <2>8. SumFunctionOnSet(f, Image(T \union {x})) = f[b[x]] + SumFunctionOnSet(f, Image(T))
    <3>1. SumFunctionOnSet(f, Image(T) \union {bx}) = f[bx] + SumFunctionOnSet(f, Image(T))
      BY <2>2, <2>10, SumAdd
    <3> QED
      BY <2>11, <3>1
  <2>9. SumFunctionOnSet(g, T \union {x}) = g[x] + SumFunctionOnSet(g, T)
    BY <2>1, <2>5, SumAdd
  <2> QED
    BY <2>1, <2>2, <2>6, <2>7, <2>8, <2>9
<1>3. X \in SUBSET SUBSET S
  OBVIOUS
<1>4. S \in X
  <2> HIDE DEF X
  <2> QED
    BY <1>1, <1>2, <1>3, GrowSet
<1> QED
  BY <1>4

(* Values of Nat have a sum in Nat.                                        *)
LEMMA SumNat ==
  ASSUME NEW S, IsFiniteSet(S), NEW f, \A x \in S : f[x] \in Nat
  PROVE  SumFunctionOnSet(f, S) \in Nat
<1> DEFINE X == {T \in SUBSET S : SumFunctionOnSet(f, T) \in Nat}
<1>1. {} \in X
  BY SumEmpty
<1>2. ASSUME NEW T \in X, NEW x \in S \ T PROVE T \union {x} \in X
  <2>1. IsFiniteSet(T)
    BY FS_Subset
  <2>2. \A y \in T \union {x} : f[y] \in Int
    OBVIOUS
  <2>3. SumFunctionOnSet(f, T \union {x}) = f[x] + SumFunctionOnSet(f, T)
    BY <2>1, <2>2, SumAdd
  <2> QED
    BY <2>3
<1>3. X \in SUBSET SUBSET S
  OBVIOUS
<1>4. S \in X
  <2> HIDE DEF X
  <2> QED
    BY <1>1, <1>2, <1>3, GrowSet
<1> QED
  BY <1>4

(* A sum of values within c of 0 is within c for each of them.             *)
LEMMA SumBound ==
  ASSUME NEW S, IsFiniteSet(S), NEW f, NEW c \in Nat,
         \A x \in S : f[x] \in Int /\ -c <= f[x] /\ f[x] <= c
  PROVE  /\ SumFunctionOnSet(f, S) <= c * Cardinality(S)
         /\ -SumFunctionOnSet(f, S) <= c * Cardinality(S)
<1> DEFINE X == {T \in SUBSET S :
                   /\ SumFunctionOnSet(f, T) <= c * Cardinality(T)
                   /\ -SumFunctionOnSet(f, T) <= c * Cardinality(T)}
<1>1. {} \in X
  BY SumEmpty, FS_EmptySet
<1>2. ASSUME NEW T \in X, NEW x \in S \ T PROVE T \union {x} \in X
  <2>1. IsFiniteSet(T) /\ Cardinality(T) \in Nat
    BY FS_Subset, FS_CardinalityType
  <2>2. Cardinality(T \union {x}) = Cardinality(T) + 1
    BY <2>1, FS_AddElement
  <2>3. SumFunctionOnSet(f, T \union {x}) = f[x] + SumFunctionOnSet(f, T)
    BY <2>1, SumAdd
  <2>4. SumFunctionOnSet(f, T) \in Int
    BY <2>1, SumInt
  <2>5. c * (Cardinality(T) + 1) = c * Cardinality(T) + c
    BY <2>1
  <2>6. c * Cardinality(T) \in Int
    BY <2>1
  <2>7. /\ SumFunctionOnSet(f, T) <= c * Cardinality(T)
        /\ -SumFunctionOnSet(f, T) <= c * Cardinality(T)
    OBVIOUS
  <2>8. /\ f[x] + SumFunctionOnSet(f, T) <= c * Cardinality(T) + c
        /\ -(f[x] + SumFunctionOnSet(f, T)) <= c * Cardinality(T) + c
    BY <2>4, <2>6, <2>7
  <2> QED
    BY <2>2, <2>3, <2>5, <2>8
<1>3. X \in SUBSET SUBSET S
  OBVIOUS
<1>4. S \in X
  <2> HIDE DEF X
  <2> QED
    BY <1>1, <1>2, <1>3, GrowSet
<1> QED
  BY <1>4

=============================================================================
