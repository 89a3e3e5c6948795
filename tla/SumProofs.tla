----------------------------- MODULE SumProofs -----------------------------
(***************************************************************************)
(* Finite sets and sums over them, for Policy and Readings, which add with *)
(* MapThenSumSet.  A sum is a recursive function; what it adds up to is    *)
(* shown through its measures: a measure of f gives every part of a set    *)
(* the total of f over it, so taking one element away takes its value.     *)
(* Induction over finite sets is by a smallest counterexample.             *)
(***************************************************************************)
EXTENDS FiniteSetsExt, FiniteSetTheorems, TLAPS

Measures(g, f, S) ==
  /\ g \in [SUBSET S -> Int] /\ g[{}] = 0
  /\ \A T \in SUBSET S : \A x \in S \ T : g[T \cup {x}] = f[x] + g[T]

\* The recursion MapThenSumSet goes through.
AddsUp(h, f, S) ==
  h = [T \in SUBSET S |-> IF T = {} THEN 0
                          ELSE LET x == CHOOSE y \in T : TRUE IN f[x] + h[T \ {x}]]

Total(f, S) == MapThenSumSet(LAMBDA x : f[x], S)

\* Of the subsets of a finite set in a nonempty collection, one has no proper
\* part in the collection.
LEMMA SmallestSet ==
  ASSUME NEW S, IsFiniteSet(S), NEW C, C \subseteq SUBSET S, C # {}
  PROVE  \E T \in C : \A x \in T : T \ {x} \notin C
<1> DEFINE R == StrictSubsetOrdering(S)
<1>1. IsWellFoundedOn(R, FiniteSubsetsOf(S))
  BY FS_StrictSubsetOrderingWellFounded
<1>2. C \subseteq FiniteSubsetsOf(S)
  BY FS_Subset DEF FiniteSubsetsOf
<1>3. PICK T \in C : \A U \in C : <<U, T>> \notin R
  BY <1>1, <1>2, WFMin
<1>4. ASSUME NEW x \in T, T \ {x} \in C PROVE <<T \ {x}, T>> \in R
  BY <1>3, <1>4 DEF StrictSubsetOrdering
<1>. QED
  BY <1>3, <1>4

\* Every function on a finite set has a measure.
LEMMA MeasureExists ==
  ASSUME NEW S, IsFiniteSet(S), NEW f, \A x \in S : f[x] \in Int
  PROVE  \E g : Measures(g, f, S)
<1> DEFINE C == {T \in SUBSET S : ~ \E g : Measures(g, f, T)}
<1>1. SUFFICES ASSUME C # {} PROVE FALSE
  OBVIOUS
<1>2. PICK T \in C : \A x \in T : T \ {x} \notin C
  <2>1. C \subseteq SUBSET S
    OBVIOUS
  <2> HIDE DEF C
  <2> QED BY <1>1, <2>1, SmallestSet
<1>3. T # {}
  <2> DEFINE z == [U \in {{}} |-> 0]
  <2>1. SUBSET {} = {{}}
    OBVIOUS
  <2>2. z \in [SUBSET {} -> Int] /\ z[{}] = 0
    BY <2>1
  <2>3. Measures(z, f, {})
    BY <2>2 DEF Measures
  <2> QED BY <1>2, <2>3
<1>4. PICK x \in T : TRUE
  BY <1>3
<1>5. T \ {x} \in SUBSET S /\ T \in SUBSET S /\ x \in S
  BY <1>2, <1>4
<1>6. PICK g : Measures(g, f, T \ {x})
  BY <1>2, <1>4, <1>5
<1> DEFINE h == [U \in SUBSET T |-> IF x \in U THEN f[x] + g[U \ {x}] ELSE g[U]]
<1>7. /\ \A U \in SUBSET T : U \ {x} \in SUBSET (T \ {x})
      /\ \A U \in SUBSET T : x \notin U => U \in SUBSET (T \ {x})
  OBVIOUS
<1>8. g \in [SUBSET (T \ {x}) -> Int] /\ f[x] \in Int
  BY <1>5, <1>6 DEF Measures
<1>9. \A U \in SUBSET T : g[U \ {x}] \in Int /\ (x \notin U => g[U] \in Int)
  BY <1>7, <1>8
<1>10. h \in [SUBSET T -> Int]
  BY <1>8, <1>9
<1>11. h[{}] = 0
  BY <1>6 DEF Measures
<1>12. ASSUME NEW U \in SUBSET T, NEW y \in T \ U
       PROVE  h[U \cup {y}] = f[y] + h[U]
  <2>1. U \cup {y} \in SUBSET T
    OBVIOUS
  <2>2. f[y] \in Int
    BY <1>5
  <2>3. CASE y = x
    <3>1. (U \cup {y}) \ {x} = U
      BY <2>3
    <3>2. h[U \cup {y}] = f[x] + g[U]
      BY <2>1, <2>3, <3>1
    <3>3. h[U] = g[U]
      BY <2>3
    <3> QED BY <2>3, <3>2, <3>3
  <2>4. CASE y # x /\ x \notin U
    <3>1. U \in SUBSET (T \ {x}) /\ y \in (T \ {x}) \ U
      BY <2>4
    <3>2. g[U \cup {y}] = f[y] + g[U]
      BY <1>6, <3>1 DEF Measures
    <3>3. h[U \cup {y}] = g[U \cup {y}] /\ h[U] = g[U]
      BY <2>1, <2>4
    <3> QED BY <3>2, <3>3
  <2>5. CASE y # x /\ x \in U
    <3>1. U \ {x} \in SUBSET (T \ {x}) /\ y \in (T \ {x}) \ (U \ {x})
      BY <2>5
    <3>2. g[(U \ {x}) \cup {y}] = f[y] + g[U \ {x}]
      BY <1>6, <3>1 DEF Measures
    <3>3. (U \cup {y}) \ {x} = (U \ {x}) \cup {y}
      BY <2>5
    <3>4. h[U \cup {y}] = f[x] + g[(U \ {x}) \cup {y}] /\ h[U] = f[x] + g[U \ {x}]
      BY <2>1, <2>5, <3>3
    <3>5. g[U \ {x}] \in Int
      BY <1>9
    <3> QED BY <1>8, <2>2, <3>2, <3>4, <3>5
  <2> QED BY <2>3, <2>4, <2>5
<1>13. Measures(h, f, T)
  BY <1>10, <1>11, <1>12 DEF Measures
<1> QED BY <1>2, <1>13

\* A measure goes through the recursion.
LEMMA MeasureAddsUp ==
  ASSUME NEW S, NEW f, NEW g, Measures(g, f, S)
  PROVE  AddsUp(g, f, S)
<1>1. g = [T \in SUBSET S |-> g[T]]
  BY DEF Measures
<1>2. ASSUME NEW T \in SUBSET S
      PROVE  g[T] = IF T = {} THEN 0
                    ELSE LET x == CHOOSE y \in T : TRUE IN f[x] + g[T \ {x}]
  <2>1. CASE T = {}
    BY <2>1 DEF Measures
  <2>2. CASE T # {}
    <3> DEFINE x == CHOOSE y \in T : TRUE
    <3>1. x \in T
      BY <2>2
    <3> HIDE DEF x
    <3>2. g[(T \ {x}) \cup {x}] = f[x] + g[T \ {x}]
      BY <3>1 DEF Measures
    <3>3. (T \ {x}) \cup {x} = T
      BY <3>1
    <3> QED BY <2>2, <3>2, <3>3 DEF x
  <2> QED BY <2>1, <2>2
<1> QED BY <1>1, <1>2 DEF AddsUp

\* Whatever goes through the recursion is the measure.
LEMMA RecursionMeasures ==
  ASSUME NEW S, IsFiniteSet(S), NEW f, NEW g, Measures(g, f, S), NEW h, AddsUp(h, f, S)
  PROVE  h = g
<1> DEFINE C == {T \in SUBSET S : h[T] # g[T]}
<1>1. C = {}
  <2>1. SUFFICES ASSUME C # {} PROVE FALSE
    OBVIOUS
  <2>2. PICK T \in C : \A x \in T : T \ {x} \notin C
    <3>1. C \subseteq SUBSET S
      OBVIOUS
    <3> HIDE DEF C
    <3> QED BY <2>1, <3>1, SmallestSet
  <2>3. h[T] = IF T = {} THEN 0 ELSE LET x == CHOOSE y \in T : TRUE IN f[x] + h[T \ {x}]
    BY <2>2 DEF AddsUp
  <2>4. g[T] = IF T = {} THEN 0 ELSE LET x == CHOOSE y \in T : TRUE IN f[x] + g[T \ {x}]
    <3>1. AddsUp(g, f, S)
      BY MeasureAddsUp
    <3> QED BY <2>2, <3>1 DEF AddsUp
  <2>5. T # {}
    BY <2>2, <2>3, <2>4
  <2> DEFINE x == CHOOSE y \in T : TRUE
  <2>6. x \in T
    BY <2>5
  <2>7. h[T \ {x}] = g[T \ {x}]
    BY <2>2, <2>6
  <2> QED BY <2>2, <2>3, <2>4, <2>5, <2>7
<1>2. h = [T \in SUBSET S |-> h[T]] /\ g = [T \in SUBSET S |-> g[T]]
  BY DEF AddsUp, Measures
<1> QED BY <1>1, <1>2

\* A sum is what any measure gives the whole set.
LEMMA TotalIsMeasured ==
  ASSUME NEW S, IsFiniteSet(S), NEW f, NEW g, Measures(g, f, S)
  PROVE  Total(f, S) = g[S]
<1> DEFINE P(h) == h = [T \in SUBSET S |-> IF T = {} THEN 0
                          ELSE LET x == CHOOSE y \in T : TRUE IN f[x] + h[T \ {x}]]
           iter == CHOOSE h : P(h)
<1>1. P(g)
  BY MeasureAddsUp DEF AddsUp
<1>2. P(iter)
  <2> HIDE DEF P
  <2> QED BY <1>1
<1>3. AddsUp(iter, f, S)
  <2> HIDE DEF iter
  <2> QED BY <1>2 DEF AddsUp
<1>4. iter = g
  <2> HIDE DEF iter
  <2> QED BY <1>3, RecursionMeasures
<1>5. Total(f, S) = iter[S]
  BY DEF Total, MapThenSumSet, MapThenFoldSet
<1> QED BY <1>4, <1>5

\* Sums of integers are a measure: nothing adds up to nothing, and each element
\* adds its value.
LEMMA TotalMeasures ==
  ASSUME NEW S, IsFiniteSet(S), NEW f, \A x \in S : f[x] \in Int
  PROVE  Measures([T \in SUBSET S |-> Total(f, T)], f, S)
<1>1. PICK g : Measures(g, f, S)
  BY MeasureExists
<1>2. ASSUME NEW T \in SUBSET S PROVE Total(f, T) = g[T]
  <2> DEFINE h == [U \in SUBSET T |-> g[U]]
  <2>1. \A U \in SUBSET T : U \in SUBSET S /\ g[U] \in Int
    BY <1>1 DEF Measures
  <2>2. h \in [SUBSET T -> Int] /\ h[{}] = 0
    BY <1>1, <2>1 DEF Measures
  <2>3. ASSUME NEW U \in SUBSET T, NEW x \in T \ U PROVE h[U \cup {x}] = f[x] + h[U]
    BY <1>1, <2>1 DEF Measures
  <2>4. Measures(h, f, T)
    BY <2>2, <2>3 DEF Measures
  <2>5. IsFiniteSet(T) /\ h[T] = g[T]
    BY FS_Subset
  <2> HIDE DEF h
  <2> QED BY <2>4, <2>5, TotalIsMeasured
<1> DEFINE t == [T \in SUBSET S |-> Total(f, T)]
<1>3. t = [T \in SUBSET S |-> g[T]]
  BY <1>2
<1>4. t = g
  BY <1>1, <1>3 DEF Measures
<1> QED BY <1>1, <1>4

\* The two ends of a sum.
LEMMA TotalSteps ==
  ASSUME NEW S, IsFiniteSet(S), NEW f, \A x \in S : f[x] \in Int
  PROVE  /\ Total(f, S) \in Int /\ Total(f, {}) = 0
         /\ \A x \in S : Total(f, S) = f[x] + Total(f, S \ {x})
<1> DEFINE t == [T \in SUBSET S |-> Total(f, T)]
<1>1. Measures(t, f, S)
  BY TotalMeasures
<1>2. t[S] = Total(f, S) /\ t[{}] = Total(f, {})
  OBVIOUS
<1>3. ASSUME NEW x \in S PROVE Total(f, S) = f[x] + Total(f, S \ {x})
  <2>1. (S \ {x}) \cup {x} = S /\ S \ {x} \in SUBSET S
    OBVIOUS
  <2>2. t[S \ {x}] = Total(f, S \ {x})
    BY <2>1
  <2> HIDE DEF t
  <2> QED BY <1>1, <1>2, <2>1, <2>2 DEF Measures
<1> HIDE DEF t
<1> QED BY <1>1, <1>2, <1>3 DEF Measures

\* Sums are compared element by element.
LEMMA TotalMonotone ==
  ASSUME NEW S, IsFiniteSet(S), NEW f, NEW h,
         \A x \in S : f[x] \in Int /\ h[x] \in Int /\ f[x] <= h[x]
  PROVE  Total(f, S) <= Total(h, S)
<1> DEFINE C == {T \in SUBSET S : ~(Total(f, T) <= Total(h, T))}
<1>1. SUFFICES ASSUME C # {} PROVE FALSE
  OBVIOUS
<1>2. PICK T \in C : \A x \in T : T \ {x} \notin C
  <2>1. C \subseteq SUBSET S
    OBVIOUS
  <2> HIDE DEF C
  <2> QED BY <1>1, <2>1, SmallestSet
<1>3. T \subseteq S /\ IsFiniteSet(T)
  BY <1>2, FS_Subset
<1>4. /\ Total(f, T) \in Int /\ Total(f, {}) = 0
      /\ \A x \in T : Total(f, T) = f[x] + Total(f, T \ {x})
  BY <1>3, TotalSteps
<1>5. /\ Total(h, T) \in Int /\ Total(h, {}) = 0
      /\ \A x \in T : Total(h, T) = h[x] + Total(h, T \ {x})
  BY <1>3, TotalSteps
<1>6. CASE T = {}
  BY <1>2, <1>4, <1>5, <1>6
<1>7. ASSUME NEW x \in T PROVE FALSE
  <2>1. T \ {x} \subseteq S /\ IsFiniteSet(T \ {x})
    BY <1>3, FS_Subset
  <2>2. Total(f, T \ {x}) \in Int /\ Total(h, T \ {x}) \in Int
    BY <2>1, TotalSteps
  <2>3. Total(f, T \ {x}) <= Total(h, T \ {x})
    BY <1>2, <2>1
  <2>4. f[x] \in Int /\ h[x] \in Int /\ f[x] <= h[x]
    BY <1>3
  <2>6. Total(f, T) = f[x] + Total(f, T \ {x}) /\ Total(h, T) = h[x] + Total(h, T \ {x})
    BY <1>4, <1>5
  <2> HIDE DEF C
  <2>5. Total(f, T) <= Total(h, T)
    BY <2>2, <2>3, <2>4, <2>6
  <2> QED BY <1>2, <2>5 DEF C
<1> QED BY <1>6, <1>7

\* Two disjoint parts add up to the whole.
LEMMA TotalOfUnion ==
  ASSUME NEW A, NEW B, IsFiniteSet(A), IsFiniteSet(B), A \cap B = {},
         NEW f, \A x \in A \cup B : f[x] \in Int
  PROVE  Total(f, A \cup B) = Total(f, A) + Total(f, B)
<1> DEFINE C == {T \in SUBSET B : Total(f, A \cup T) # Total(f, A) + Total(f, T)}
<1>1. SUFFICES ASSUME C # {} PROVE FALSE
  OBVIOUS
<1>2. PICK T \in C : \A x \in T : T \ {x} \notin C
  <2>1. C \subseteq SUBSET B
    OBVIOUS
  <2> HIDE DEF C
  <2> QED BY <1>1, <2>1, SmallestSet
<1>3. T \subseteq B /\ IsFiniteSet(T) /\ IsFiniteSet(A \cup T)
  BY <1>2, FS_Subset, FS_Union
<1>4. Total(f, A) \in Int /\ Total(f, {}) = 0
  BY TotalSteps
<1>5. CASE T = {}
  <2>1. A \cup T = A
    BY <1>5
  <2> QED BY <1>2, <1>4, <1>5, <2>1
<1>6. ASSUME NEW x \in T PROVE FALSE
  <2>1. /\ x \in A \cup T /\ (A \cup T) \ {x} = A \cup (T \ {x})
        /\ T \ {x} \in SUBSET B /\ IsFiniteSet(T \ {x})
    BY <1>3, FS_Subset
  <2>2. \A y \in A \cup T : f[y] \in Int
    BY <1>3
  <2>3. Total(f, T) = f[x] + Total(f, T \ {x})
    BY <1>3, <2>2, TotalSteps
  <2>4. Total(f, A \cup T) = f[x] + Total(f, A \cup (T \ {x}))
    BY <1>3, <2>1, <2>2, TotalSteps
  <2>5. Total(f, A \cup (T \ {x})) = Total(f, A) + Total(f, T \ {x})
    BY <1>2, <2>1
  <2>6. Total(f, T \ {x}) \in Int /\ f[x] \in Int
    BY <2>1, <2>2, TotalSteps
  <2> HIDE DEF C
  <2>7. Total(f, A \cup T) = Total(f, A) + Total(f, T)
    BY <1>4, <2>3, <2>4, <2>5, <2>6
  <2> QED BY <1>2, <2>7 DEF C
<1> QED BY <1>5, <1>6

\* What a function takes on over a finite set is finite.
LEMMA FiniteImage ==
  ASSUME NEW S, IsFiniteSet(S), NEW f
  PROVE  IsFiniteSet({f[x] : x \in S})
<1> DEFINE g == [x \in S |-> f[x]]
           T == {f[x] : x \in S}
<1>1. g \in Surjection(S, T)
  BY DEF Surjection
<1> HIDE DEF g, T
<1>2. IsFiniteSet(T)
  BY <1>1, FS_Surjection
<1> QED BY <1>2 DEF T

\* A finite set with a total order has a first element.
LEMMA FirstExists ==
  ASSUME NEW S, IsFiniteSet(S), S # {}, NEW R,
         \A x, y \in S : x # y => <<x, y>> \in R \/ <<y, x>> \in R,
         \A x, y, z \in S : <<x, y>> \in R /\ <<y, z>> \in R => <<x, z>> \in R
  PROVE  \E m \in S : \A x \in S \ {m} : <<m, x>> \in R
<1> DEFINE First(m, T) == m \in T /\ \A x \in T \ {m} : <<m, x>> \in R
           C == {T \in SUBSET S : T # {} /\ \A m \in T : ~First(m, T)}
<1>1. SUFFICES ASSUME C # {} PROVE FALSE
  <2>1. S \notin C
    BY <1>1
  <2> QED BY <2>1
<1>2. PICK T \in C : \A x \in T : T \ {x} \notin C
  <2>1. C \subseteq SUBSET S
    OBVIOUS
  <2> HIDE DEF C
  <2> QED BY <1>1, <2>1, SmallestSet
<1>3. PICK x \in T : TRUE
  BY <1>2
<1>4. CASE T = {x}
  BY <1>2, <1>4
<1>5. CASE T # {x}
  <2>1. T \ {x} # {} /\ T \ {x} \in SUBSET S /\ T \ {x} \notin C
    BY <1>2, <1>3, <1>5
  <2>2. PICK m \in T \ {x} : First(m, T \ {x})
    BY <2>1
  <2>3. m \in S /\ x \in S /\ m # x
    BY <1>2, <1>3, <2>2
  <2>4. CASE <<m, x>> \in R
    <3>1. First(m, T)
      BY <2>2, <2>4
    <3> QED BY <1>2, <3>1
  <2>5. CASE <<x, m>> \in R
    <3>1. ASSUME NEW y \in T \ {x} PROVE <<x, y>> \in R
      BY <1>2, <2>2, <2>3, <2>5
    <3>2. First(x, T)
      BY <1>3, <3>1
    <3> QED BY <1>2, <1>3, <3>2
  <2> QED BY <2>3, <2>4, <2>5
<1> QED BY <1>4, <1>5

\* A sum depends on the values it adds, and on nothing else.
LEMMA TotalExtensional ==
  ASSUME NEW S, IsFiniteSet(S), NEW f, NEW h, \A x \in S : f[x] \in Int /\ h[x] = f[x]
  PROVE  Total(f, S) = Total(h, S)
<1>1. Total(f, S) <= Total(h, S) /\ Total(h, S) <= Total(f, S)
  BY TotalMonotone
<1>2. Total(f, S) \in Int /\ Total(h, S) \in Int
  BY TotalSteps
<1> QED BY <1>1, <1>2

\* Nothing but zeros adds up to zero.
LEMMA TotalOfZeros ==
  ASSUME NEW S, IsFiniteSet(S), NEW f, \A x \in S : f[x] = 0
  PROVE  Total(f, S) = 0
<1> DEFINE C == {T \in SUBSET S : Total(f, T) # 0}
<1>1. SUFFICES ASSUME C # {} PROVE FALSE
  OBVIOUS
<1>2. PICK T \in C : \A x \in T : T \ {x} \notin C
  <2>1. C \subseteq SUBSET S
    OBVIOUS
  <2> HIDE DEF C
  <2> QED BY <1>1, <2>1, SmallestSet
<1>3. T \subseteq S /\ IsFiniteSet(T) /\ Total(f, T) # 0
  BY <1>2, FS_Subset
<1>4. \A x \in T : f[x] = 0 /\ f[x] \in Int
  BY <1>3
<1>5. Total(f, {}) = 0 /\ \A x \in T : Total(f, T) = f[x] + Total(f, T \ {x})
  BY <1>3, <1>4, TotalSteps
<1>6. CASE T = {}
  BY <1>3, <1>5, <1>6
<1>7. ASSUME NEW x \in T PROVE FALSE
  <2>1. Total(f, T \ {x}) = 0
    BY <1>2, <1>3
  <2>2. Total(f, T) = 0 + 0
    BY <1>4, <1>5, <2>1
  <2> QED BY <1>3, <2>2
<1> QED BY <1>6, <1>7

\* Sums are linear.
LEMMA TotalIsLinear ==
  ASSUME NEW S, IsFiniteSet(S), NEW f, NEW h, NEW l, NEW c \in Int, NEW d \in Int,
         \A x \in S : f[x] \in Int /\ h[x] \in Int /\ l[x] = c * f[x] + d * h[x]
  PROVE  Total(l, S) = c * Total(f, S) + d * Total(h, S)
<1> DEFINE C == {T \in SUBSET S : Total(l, T) # c * Total(f, T) + d * Total(h, T)}
<1>1. SUFFICES ASSUME C # {} PROVE FALSE
  <2>1. S \notin C
    BY <1>1
  <2> QED BY <2>1
<1>2. PICK T \in C : \A x \in T : T \ {x} \notin C
  <2>1. C \subseteq SUBSET S
    OBVIOUS
  <2> HIDE DEF C
  <2> QED BY <1>1, <2>1, SmallestSet
<1>3. T \subseteq S /\ IsFiniteSet(T)
  BY <1>2, FS_Subset
<1>4. \A x \in T : f[x] \in Int /\ h[x] \in Int /\ l[x] \in Int /\ l[x] = c * f[x] + d * h[x]
  BY <1>3
<1>5. /\ Total(f, {}) = 0 /\ Total(h, {}) = 0 /\ Total(l, {}) = 0
      /\ \A x \in T : /\ Total(f, T) = f[x] + Total(f, T \ {x})
                      /\ Total(h, T) = h[x] + Total(h, T \ {x})
                      /\ Total(l, T) = l[x] + Total(l, T \ {x})
  BY <1>3, <1>4, TotalSteps
<1>6. CASE T = {}
  BY <1>2, <1>5, <1>6
<1>7. ASSUME NEW x \in T PROVE FALSE
  <2>1. T \ {x} \subseteq S /\ IsFiniteSet(T \ {x})
    BY <1>3, FS_Subset
  <2>2. Total(f, T \ {x}) \in Int /\ Total(h, T \ {x}) \in Int
    BY <1>4, <2>1, TotalSteps
  <2>3. Total(l, T \ {x}) = c * Total(f, T \ {x}) + d * Total(h, T \ {x})
    BY <1>2, <2>1
  <2> DEFINE F == Total(f, T \ {x})
             H == Total(h, T \ {x})
  <2>4. c * (f[x] + F) + d * (h[x] + H) = c * f[x] + d * h[x] + (c * F + d * H)
    <3>1. f[x] \in Int /\ h[x] \in Int /\ F \in Int /\ H \in Int
      BY <1>4, <2>2
    <3> HIDE DEF F, H
    <3> QED BY <3>1
  <2>5. Total(l, T) = c * Total(f, T) + d * Total(h, T)
    BY <1>4, <1>5, <2>3, <2>4
  <2> QED BY <1>2, <2>5
<1> QED BY <1>6, <1>7

\* A set taken apart by a key adds up to the same, key by key.
LEMMA TotalByKey ==
  ASSUME NEW S, IsFiniteSet(S), NEW P, IsFiniteSet(P), NEW key, \A x \in S : key[x] \in P,
         NEW f, \A x \in S : f[x] \in Int
  PROVE  Total(f, S) = Total([p \in P |-> Total(f, {x \in S : key[x] = p})], P)
<1> DEFINE part(T, p) == {x \in T : key[x] = p}
           sums(T) == [p \in P |-> Total(f, part(T, p))]
           C == {T \in SUBSET S : Total(f, T) # Total(sums(T), P)}
<1>1. SUFFICES ASSUME C # {} PROVE FALSE
  <2>1. S \notin C
    BY <1>1
  <2> QED BY <2>1
<1>2. PICK T \in C : \A x \in T : T \ {x} \notin C
  <2>1. C \subseteq SUBSET S
    OBVIOUS
  <2> HIDE DEF C
  <2> QED BY <1>1, <2>1, SmallestSet
<1>3. T \subseteq S /\ IsFiniteSet(T) /\ Total(f, T) # Total(sums(T), P)
  BY <1>2, FS_Subset
<1>4. ASSUME NEW U \in SUBSET S
      PROVE  /\ Total(f, U) \in Int /\ Total(f, {}) = 0
             /\ \A x \in U : Total(f, U) = f[x] + Total(f, U \ {x})
  <2>1. IsFiniteSet(U) /\ \A x \in U : f[x] \in Int
    BY FS_Subset
  <2> QED BY <2>1, TotalSteps
<1>5. ASSUME NEW U \in SUBSET S, NEW p \in P
      PROVE  part(U, p) \in SUBSET S /\ sums(U)[p] = Total(f, part(U, p)) /\ sums(U)[p] \in Int
  <2>1. part(U, p) \in SUBSET S
    OBVIOUS
  <2>2. sums(U)[p] = Total(f, part(U, p))
    OBVIOUS
  <2> HIDE DEF part, sums
  <2> QED BY <1>4, <2>1, <2>2
<1>6. CASE T = {}
  <2>1. \A p \in P : part(T, p) = {}
    BY <1>6
  <2>2. \A p \in P : sums(T)[p] = 0
    <3> HIDE DEF part, sums
    <3> QED BY <1>3, <1>4, <1>5, <2>1
  <2> HIDE DEF part, sums
  <2> QED BY <1>3, <1>4, <1>6, <2>2, TotalOfZeros
<1>7. ASSUME NEW x \in T PROVE FALSE
  <2> DEFINE U == T \ {x}
             k == key[x]
             new == sums(T)
             old == sums(U)
  <2>1. U \in SUBSET S /\ T \in SUBSET S /\ x \in S /\ k \in P /\ IsFiniteSet(P \ {k})
    BY <1>3, FS_Subset
  <2>2. x \in part(T, k) /\ part(T, k) \ {x} = part(U, k) /\ \A p \in P \ {k} : part(T, p) = part(U, p)
    OBVIOUS
  <2>3. Total(f, U) = Total(old, P)
    BY <1>2, <2>1
  <2> HIDE DEF part, sums, U, k, C
  <2>4. new[k] = f[x] + old[k]
    <3>1. part(T, k) \in SUBSET S /\ new[k] = Total(f, part(T, k)) /\ old[k] = Total(f, part(U, k))
      BY <1>5, <2>1
    <3> HIDE DEF new, old
    <3> QED BY <1>4, <2>2, <3>1
  <2>5. \A p \in P \ {k} : new[p] = old[p]
    <3>1. \A p \in P : new[p] = Total(f, part(T, p)) /\ old[p] = Total(f, part(U, p))
      BY <1>5, <2>1
    <3> HIDE DEF new, old
    <3> QED BY <2>2, <3>1
  <2>6. \A p \in P : new[p] \in Int /\ old[p] \in Int
    BY <1>5, <2>1
  <2> HIDE DEF new, old
  <2>7. Total(new, P \ {k}) = Total(old, P \ {k})
    BY <2>1, <2>5, <2>6, TotalExtensional
  <2>8. Total(new, P) = new[k] + Total(new, P \ {k}) /\ Total(old, P) = old[k] + Total(old, P \ {k})
    BY <2>1, <2>6, TotalSteps
  <2>9. Total(old, P \ {k}) \in Int /\ old[k] \in Int /\ f[x] \in Int
    BY <2>1, <2>6, TotalSteps
  <2>10. Total(f, T) = f[x] + Total(f, U)
    BY <1>4, <2>1 DEF U
  <2>11. Total(f, T) = Total(new, P)
    BY <2>3, <2>4, <2>7, <2>8, <2>9, <2>10
  <2> QED BY <1>3, <2>11 DEF new
<1> QED BY <1>6, <1>7

\* Numbers that are not negative add up to one that is not.
LEMMA TotalOfNats ==
  ASSUME NEW S, IsFiniteSet(S), NEW f, \A x \in S : f[x] \in Nat
  PROVE  Total(f, S) \in Nat
<1> DEFINE z == [x \in S |-> 0]
<1>1. \A x \in S : z[x] = 0 /\ z[x] \in Int /\ f[x] \in Int /\ z[x] <= f[x]
  OBVIOUS
<1> HIDE DEF z
<1>2. Total(z, S) = 0
  BY <1>1, TotalOfZeros
<1>3. Total(z, S) <= Total(f, S) /\ Total(f, S) \in Int
  BY <1>1, TotalMonotone, TotalSteps
<1> QED BY <1>2, <1>3

\* A constant factor comes out of a sum.
LEMMA TotalScales ==
  ASSUME NEW S, IsFiniteSet(S), NEW f, NEW l, NEW c \in Int,
         \A x \in S : f[x] \in Int /\ l[x] = c * f[x]
  PROVE  Total(l, S) = c * Total(f, S)
<1> DEFINE z == [x \in S |-> 0]
<1>1. \A x \in S : z[x] = 0
  OBVIOUS
<1> HIDE DEF z
<1>2. Total(z, S) = 0
  BY <1>1, TotalOfZeros
<1>3. \A x \in S : f[x] \in Int /\ z[x] \in Int /\ l[x] = c * f[x] + c * z[x]
  BY <1>1
<1>4. Total(l, S) = c * Total(f, S) + c * Total(z, S)
  BY <1>3, TotalIsLinear
<1>5. Total(f, S) \in Int
  BY TotalSteps
<1> QED BY <1>2, <1>4, <1>5
=============================================================================
