------------------------ MODULE MaterializationProofs ------------------------
(***************************************************************************)
(* What is proved of feeding, capturing, settling and accounting, for any  *)
(* numbers of workers, helpers and heads, any inputs and any ceiling.      *)
(*                                                                         *)
(* First what the operators compute: sums do not depend on the order of    *)
(* their terms, so one term that changes changes a sum by its difference;  *)
(* the loops of consolidate and merge_batches, which are recursive         *)
(* functions, exist and return batches; they keep batches in order and     *)
(* lose no weight, so that what consolidate returns is known from the      *)
(* weights alone.  Then that each row is fed by one worker, that the peak  *)
(* of the counter is exact, and, from an inductive invariant of all        *)
(* steps, that what threads hold is charged, that the peak is the highest  *)
(* value of the counter, and that the ceiling is noticed.  A second        *)
(* invariant adds up what the rows weigh under way, captured and           *)
(* published, and shows that heads settle as sets.                         *)
(***************************************************************************)
EXTENDS Materialization, FiniteSetTheorems, SequenceTheorems, WellFoundedInduction, TLAPS

-----------------------------------------------------------------------------
(* Recursion and sums *)

LessThan == {pair \in Nat \X Nat : pair[1] < pair[2]}

LEMMA Least ==
    ASSUME NEW T \in SUBSET Nat, T # {}
    PROVE  \E n \in T : \A m \in T : n <= m
<1>1. LessThan = OpToRel(<, Nat)
    BY DEF LessThan, OpToRel
<1>2. IsWellFoundedOn(LessThan, Nat)
    BY <1>1, NatLessThanWellFounded
<1>3. PICK n \in T : \A m \in T : ~ (<<m, n>> \in LessThan)
    BY <1>2, WFMin
<1>4. ASSUME NEW m \in T
      PROVE  n <= m
    <2>1. m \in Nat /\ n \in Nat
        OBVIOUS
    <2>2. ~ (m < n)
        BY <1>3, <2>1 DEF LessThan
    <2> QED
        BY <2>1, <2>2
<1> QED
    BY <1>4

\* A set of finite sets, if it is not empty, has a smallest one.
LEMMA Smallest ==
    ASSUME NEW Sets, Sets # {}, \A T \in Sets : IsFiniteSet(T)
    PROVE  \E T \in Sets : \A U \in Sets : Cardinality(T) <= Cardinality(U)
<1> DEFINE sizes == {Cardinality(T) : T \in Sets}
<1>1. sizes \in SUBSET Nat /\ sizes # {}
    BY FS_CardinalityType
<1>2. PICK n \in sizes : \A m \in sizes : n <= m
    BY <1>1, Least
<1> QED
    BY <1>2

\* A run from a first state by a step that may depend on its number is what
\* its steps say, and there is one.
Runs(S, first, step, n) ==
    {g \in [0 .. n -> S] : g[0] = first /\ \A m \in 0 .. n - 1 : g[m + 1] = step[m][g[m]]}

LEMMA RunsAgree ==
    ASSUME NEW S, NEW first \in S, NEW step \in [Nat -> [S -> S]],
           NEW n \in Nat, NEW m \in Nat, m <= n,
           NEW g \in Runs(S, first, step, n), NEW h \in Runs(S, first, step, m)
    PROVE  g[m] = h[m]
<1> DEFINE T == {k \in 0 .. m : g[k] # h[k]}
<1>1. SUFFICES ASSUME T # {} PROVE FALSE
    OBVIOUS
<1>2. T \in SUBSET Nat
    OBVIOUS
<1>3. PICK k \in T : \A j \in T : k <= j
    BY <1>1, <1>2, Least
<1>4. k # 0
    BY DEF Runs
<1>5. k - 1 \in 0 .. m /\ k - 1 \in 0 .. m - 1 /\ k - 1 \in 0 .. n - 1 /\ (k - 1) + 1 = k
    BY <1>4
<1>6. g[k - 1] = h[k - 1]
    BY <1>3, <1>5
<1>7. g[k] = step[k - 1][g[k - 1]] /\ h[k] = step[k - 1][h[k - 1]]
    BY <1>5 DEF Runs
<1> QED
    BY <1>6, <1>7

IsRun(f, S, first, step) ==
    f \in [Nat -> S] /\ f[0] = first /\ \A n \in Nat : f[n + 1] = step[n][f[n]]

LEMMA Recursion ==
    ASSUME NEW S, NEW first \in S, NEW step \in [Nat -> [S -> S]]
    PROVE  \E f : IsRun(f, S, first, step)
<1> DEFINE R(n) == Runs(S, first, step, n)
           T == {n \in Nat : R(n) = {}}
<1>1. T = {}
    <2>1. SUFFICES ASSUME T # {} PROVE FALSE
        OBVIOUS
    <2>2. PICK n \in T : \A m \in T : n <= m
        BY <2>1, Least
    <2>3. n # 0
        <3>1. [k \in 0 .. 0 |-> first] \in R(0)
            BY DEF Runs
        <3> QED
            BY <3>1
    <2>4. n - 1 \in Nat /\ n - 1 \notin T
        BY <2>2, <2>3
    <2>5. PICK g : g \in R(n - 1)
        BY <2>4
    <2> DEFINE h == [k \in 0 .. n |-> IF k = n THEN step[n - 1][g[n - 1]] ELSE g[k]]
    <2>6. g \in [0 .. n - 1 -> S] /\ g[0] = first /\ \A m \in 0 .. (n - 1) - 1 : g[m + 1] = step[m][g[m]]
        BY <2>5 DEF Runs
    <2>7. h \in [0 .. n -> S]
        BY <2>4, <2>6
    <2>8. h[0] = first
        BY <2>3, <2>6
    <2>9. ASSUME NEW m \in 0 .. n - 1
          PROVE  h[m + 1] = step[m][h[m]]
        <3>1. CASE m = n - 1
            BY <2>3, <2>4, <3>1
        <3>2. CASE m # n - 1
            <4>1. m \in 0 .. (n - 1) - 1 /\ m + 1 # n /\ m # n /\ m \in 0 .. n /\ m + 1 \in 0 .. n
                BY <2>4, <3>2
            <4> QED
                BY <2>6, <4>1
        <3> QED
            BY <3>1, <3>2
    <2>10. h \in R(n)
        BY <2>7, <2>8, <2>9 DEF Runs
    <2> QED
        BY <2>10
<1>2. ASSUME NEW n \in Nat
      PROVE  \E g : g \in R(n)
    BY <1>1
<1> DEFINE run(n) == CHOOSE g : g \in R(n)
           f == [n \in Nat |-> run(n)[n]]
<1>3. \A n \in Nat : run(n) \in R(n)
    BY <1>2
<1> HIDE DEF run
<1>4. \A n \in Nat : run(n) \in [0 .. n -> S]
    BY <1>3 DEF Runs
<1>5. f \in [Nat -> S]
    BY <1>4
<1>6. f[0] = first
    BY <1>3 DEF Runs
<1>7. ASSUME NEW n \in Nat
      PROVE  f[n + 1] = step[n][f[n]]
    <2>1. run(n + 1) \in R(n + 1) /\ run(n) \in R(n) /\ n + 1 \in Nat /\ n <= n + 1
        BY <1>3
    <2>2. run(n + 1)[n] = run(n)[n]
        BY <2>1, RunsAgree
    <2>3. run(n + 1)[n + 1] = step[n][run(n + 1)[n]]
        BY <2>1 DEF Runs
    <2> QED
        BY <2>1, <2>2, <2>3
<1> QED
    BY <1>5, <1>6, <1>7 DEF IsRun

\* A sum over the subsets of S, as SumFunctionOnSet takes it.
Folds(g, f, S) ==
    g = [T \in SUBSET S |->
           IF T = {} THEN 0 ELSE LET x == CHOOSE x \in T : TRUE IN f[x] + g[T \ {x}]]

LEMMA FoldsAgree ==
    ASSUME NEW S, IsFiniteSet(S), NEW T \in SUBSET S, NEW f, NEW g, NEW h,
           Folds(g, f, S), Folds(h, f, T)
    PROVE  \A U \in SUBSET T : g[U] = h[U]
<1> DEFINE Bad == {U \in SUBSET T : g[U] # h[U]}
<1>1. SUFFICES ASSUME Bad # {} PROVE FALSE
    OBVIOUS
<1>2. \A U \in SUBSET S : IsFiniteSet(U)
    BY FS_Subset
<1>3. \A U \in Bad : IsFiniteSet(U)
    BY <1>2
<1>4. PICK U \in Bad : \A V \in Bad : Cardinality(U) <= Cardinality(V)
    <2> HIDE DEF Bad
    <2> QED
        BY <1>1, <1>3, Smallest
<1> DEFINE x == CHOOSE x \in U : TRUE
<1>5. U \in SUBSET T /\ U \in SUBSET S /\ IsFiniteSet(U)
    BY <1>2
<1>6. U # {}
    BY <1>5 DEF Folds
<1>7. x \in U
    BY <1>6
<1>8. g[U] = f[x] + g[U \ {x}] /\ h[U] = f[x] + h[U \ {x}]
    BY <1>5, <1>6 DEF Folds
<1>9. U \ {x} \in SUBSET T /\ Cardinality(U \ {x}) = Cardinality(U) - 1
    BY <1>5, <1>7, FS_RemoveElement
<1>10. Cardinality(U) \in Nat
    BY <1>5, FS_CardinalityType
<1>11. U \ {x} \notin Bad
    BY <1>4, <1>9, <1>10
<1>12. g[U \ {x}] = h[U \ {x}]
    BY <1>9, <1>11
<1> QED
    BY <1>8, <1>12

LEMMA FoldExists ==
    ASSUME NEW S, IsFiniteSet(S), NEW f \in [S -> Int]
    PROVE  \E g : Folds(g, f, S)
<1> DEFINE pick(T) == CHOOSE x \in T : TRUE
           Sums == [SUBSET S -> Int]
           zero == [T \in SUBSET S |-> 0]
           more(s) == [T \in SUBSET S |-> IF T = {} THEN 0 ELSE f[pick(T)] + s[T \ {pick(T)}]]
           step == [n \in Nat |-> [s \in Sums |-> more(s)]]
<1>1. \A T \in SUBSET S : T # {} => pick(T) \in T /\ pick(T) \in S /\ T \ {pick(T)} \in SUBSET S
    OBVIOUS
<1> HIDE DEF pick
<1>2. zero \in Sums
    OBVIOUS
<1>3. ASSUME NEW s \in Sums
      PROVE  more(s) \in Sums
    BY <1>1
<1>4. step \in [Nat -> [Sums -> Sums]]
    BY <1>3
<1> HIDE DEF step, zero, Sums
<1>5. PICK up : IsRun(up, Sums, zero, step)
    BY <1>2, <1>4, Recursion
<1>6. \A n \in Nat : up[n + 1] = more(up[n])
    BY <1>5 DEF step, IsRun
<1> DEFINE g == [T \in SUBSET S |-> up[Cardinality(T)][T]]
<1>7. ASSUME NEW T \in SUBSET S
      PROVE  g[T] = IF T = {} THEN 0 ELSE f[pick(T)] + g[T \ {pick(T)}]
    <2>1. CASE T = {}
        BY <1>5, <2>1, FS_EmptySet DEF zero, IsRun
    <2>2. CASE T # {}
        <3>1. IsFiniteSet(T) /\ pick(T) \in T
            BY <1>1, <2>2, FS_Subset
        <3>2. /\ Cardinality(T) \in Nat /\ Cardinality(T \ {pick(T)}) = Cardinality(T) - 1
              /\ Cardinality(T \ {pick(T)}) \in Nat
            BY <3>1, FS_RemoveElement, FS_CardinalityType
        <3>3. up[Cardinality(T)] = more(up[Cardinality(T \ {pick(T)})])
            <4> DEFINE n == Cardinality(T \ {pick(T)})
            <4>1. n \in Nat /\ Cardinality(T) = n + 1
                BY <3>2
            <4> HIDE DEF n, more
            <4> QED
                BY <1>6, <4>1 DEF n
        <3>4. up[Cardinality(T)][T] = f[pick(T)] + up[Cardinality(T \ {pick(T)})][T \ {pick(T)}]
            BY <2>2, <3>3
        <3>5. T \ {pick(T)} \in SUBSET S
            OBVIOUS
        <3> QED
            BY <2>2, <3>4, <3>5
    <2> QED
        BY <2>1, <2>2
<1>8. g = [T \in SUBSET S |-> IF T = {} THEN 0 ELSE f[pick(T)] + g[T \ {pick(T)}]]
    <2>1. g = [T \in SUBSET S |-> g[T]]
        OBVIOUS
    <2> HIDE DEF g
    <2> QED
        BY <1>7, <2>1
<1> HIDE DEF g
<1> QED
    BY <1>8 DEF Folds, pick

LEMMA SumIsAFold ==
    ASSUME NEW S, IsFiniteSet(S), NEW f \in [S -> Int], NEW T \in SUBSET S
    PROVE  \E g : Folds(g, f, T) /\ SumFunctionOnSet(f, T) = g[T]
<1>1. IsFiniteSet(T)
    BY FS_Subset
<1> DEFINE r == [x \in T |-> f[x]]
<1>2. \E g : Folds(g, r, T)
    <2>1. r \in [T -> Int]
        OBVIOUS
    <2> QED
        BY <1>1, <2>1, FoldExists
<1>3. \A g : Folds(g, r, T) => Folds(g, f, T)
    BY DEF Folds
<1>4. SumFunctionOnSet(f, T) = (CHOOSE g : Folds(g, f, T))[T]
    BY DEF SumFunctionOnSet, FoldFunctionOnSet, MapThenFoldSet, Folds
<1> QED
    BY <1>2, <1>3, <1>4

\* A sum is one of its terms and the sum of the others.
LEMMA SumUnfolds ==
    ASSUME NEW S, IsFiniteSet(S), NEW f \in [S -> Int], NEW T \in SUBSET S
    PROVE  SumFunctionOnSet(f, T) =
             IF T = {} THEN 0
             ELSE LET x == CHOOSE x \in T : TRUE IN f[x] + SumFunctionOnSet(f, T \ {x})
<1>1. PICK g : Folds(g, f, T) /\ SumFunctionOnSet(f, T) = g[T]
    BY SumIsAFold
<1>2. CASE T = {}
    BY <1>1, <1>2 DEF Folds
<1>3. CASE T # {}
    <2> DEFINE x == CHOOSE x \in T : TRUE
    <2>1. T \ {x} \in SUBSET S /\ T \ {x} \in SUBSET T
        OBVIOUS
    <2>2. g[T] = f[x] + g[T \ {x}]
        BY <1>1, <1>3 DEF Folds
    <2> HIDE DEF x
    <2>3. PICK h : Folds(h, f, T \ {x}) /\ SumFunctionOnSet(f, T \ {x}) = h[T \ {x}]
        BY <2>1, SumIsAFold
    <2>4. IsFiniteSet(T)
        BY FS_Subset
    <2>5. g[T \ {x}] = h[T \ {x}]
        BY <1>1, <2>1, <2>3, <2>4, FoldsAgree
    <2> QED
        BY <1>1, <1>3, <2>2, <2>3, <2>5 DEF x
<1> QED
    BY <1>2, <1>3

LEMMA SumOfNone ==
    ASSUME NEW S, IsFiniteSet(S), NEW f \in [S -> Int]
    PROVE  SumFunctionOnSet(f, {}) = 0
<1>1. {} \in SUBSET S
    OBVIOUS
<1> QED
    BY <1>1, SumUnfolds

LEMMA SumIsInt ==
    ASSUME NEW S, IsFiniteSet(S), NEW f \in [S -> Int], NEW T \in SUBSET S
    PROVE  SumFunctionOnSet(f, T) \in Int
<1> DEFINE Bad == {U \in SUBSET S : SumFunctionOnSet(f, U) \notin Int}
<1>1. SUFFICES ASSUME Bad # {} PROVE FALSE
    OBVIOUS
<1>2. \A U \in SUBSET S : IsFiniteSet(U)
    BY FS_Subset
<1>3. PICK U \in Bad : \A V \in Bad : Cardinality(U) <= Cardinality(V)
    <2>1. \A V \in Bad : IsFiniteSet(V)
        BY <1>2
    <2> HIDE DEF Bad
    <2> QED
        BY <1>1, <2>1, Smallest
<1> DEFINE x == CHOOSE x \in U : TRUE
<1>4. U \in SUBSET S /\ IsFiniteSet(U) /\ Cardinality(U) \in Nat
    BY <1>2, FS_CardinalityType
<1>5. U # {}
    BY SumOfNone
<1>6. x \in U /\ x \in S /\ U \ {x} \in SUBSET S
    BY <1>4, <1>5
<1>7. SumFunctionOnSet(f, U) = f[x] + SumFunctionOnSet(f, U \ {x})
    BY <1>4, <1>5, SumUnfolds
<1> HIDE DEF x
<1>8. Cardinality(U \ {x}) = Cardinality(U) - 1
    BY <1>4, <1>6, FS_RemoveElement
<1>9. SumFunctionOnSet(f, U \ {x}) \in Int
    BY <1>3, <1>4, <1>6, <1>8
<1> QED
    BY <1>6, <1>7, <1>9

\* It does not matter which of its terms.
LEMMA SumWithout ==
    ASSUME NEW S, IsFiniteSet(S), NEW f \in [S -> Int], NEW T \in SUBSET S, NEW x \in T
    PROVE  SumFunctionOnSet(f, T) = f[x] + SumFunctionOnSet(f, T \ {x})
<1> DEFINE sum(U) == SumFunctionOnSet(f, U)
           Bad == {U \in SUBSET S : \E y \in U : sum(U) # f[y] + sum(U \ {y})}
<1>1. SUFFICES ASSUME Bad # {} PROVE FALSE
    OBVIOUS
<1>2. \A U \in SUBSET S : IsFiniteSet(U) /\ sum(U) \in Int
    BY FS_Subset, SumIsInt
<1>3. PICK U \in Bad : \A V \in Bad : Cardinality(U) <= Cardinality(V)
    <2>1. \A V \in Bad : IsFiniteSet(V)
        BY <1>2
    <2> HIDE DEF Bad
    <2> QED
        BY <1>1, <2>1, Smallest
<1>4. PICK y \in U : sum(U) # f[y] + sum(U \ {y})
    OBVIOUS
<1> DEFINE c == CHOOSE c \in U : TRUE
<1>5. U \in SUBSET S /\ IsFiniteSet(U) /\ Cardinality(U) \in Nat /\ U # {}
    BY <1>2, FS_CardinalityType
<1>6. c \in U /\ c \in S /\ y \in S /\ U \ {c} \in SUBSET S /\ U \ {y} \in SUBSET S
    BY <1>5
<1>7. sum(U) = f[c] + sum(U \ {c})
    BY <1>5, SumUnfolds
<1> HIDE DEF c
<1>8. y # c
    BY <1>4, <1>7
<1>9. \A z \in U : Cardinality(U \ {z}) = Cardinality(U) - 1
    BY <1>5, FS_RemoveElement
<1>10. U \ {c} \notin Bad /\ U \ {y} \notin Bad
    <2> HIDE DEF sum, Bad
    <2>1. ~ (Cardinality(U) <= Cardinality(U) - 1)
        BY <1>5
    <2> QED
        BY <1>3, <1>5, <1>6, <1>9, <2>1
<1>11. sum(U \ {c}) = f[y] + sum((U \ {c}) \ {y}) /\ sum(U \ {y}) = f[c] + sum((U \ {y}) \ {c})
    BY <1>6, <1>8, <1>10
<1>12. (U \ {c}) \ {y} = (U \ {y}) \ {c} /\ (U \ {c}) \ {y} \in SUBSET S
    BY <1>6
<1>13. sum((U \ {c}) \ {y}) = sum((U \ {y}) \ {c}) /\ sum((U \ {c}) \ {y}) \in Int
    BY <1>2, <1>12
<1>14. f[c] \in Int /\ f[y] \in Int
    BY <1>6
<1> HIDE DEF sum, Bad
<1> QED
    BY <1>4, <1>7, <1>11, <1>13, <1>14

\* Equal terms, equal sums.
LEMMA SumsAgree ==
    ASSUME NEW T, NEW f, NEW g, \A x \in T : f[x] = g[x]
    PROVE  SumFunctionOnSet(f, T) = SumFunctionOnSet(g, T)
<1>1. ASSUME NEW h
      PROVE  Folds(h, f, T) <=> Folds(h, g, T)
    <2> DEFINE x(U) == CHOOSE x \in U : TRUE
    <2>1. \A U \in SUBSET T : U # {} => f[x(U)] = g[x(U)]
        OBVIOUS
    <2> QED
        BY <2>1 DEF Folds
<1>2. /\ SumFunctionOnSet(f, T) = (CHOOSE h : Folds(h, f, T))[T]
      /\ SumFunctionOnSet(g, T) = (CHOOSE h : Folds(h, g, T))[T]
    BY DEF SumFunctionOnSet, FoldFunctionOnSet, MapThenFoldSet, Folds
<1> QED
    BY <1>1, <1>2

LEMMA SumType ==
    ASSUME NEW S, IsFiniteSet(S), NEW f \in [S -> Int]
    PROVE  SumFunction(f) \in Int
<1>1. DOMAIN f = S /\ S \in SUBSET S
    OBVIOUS
<1> QED
    BY <1>1, SumIsInt DEF SumFunction

\* One term has changed.
LEMMA SumChange ==
    ASSUME NEW S, IsFiniteSet(S), NEW f \in [S -> Int], NEW g \in [S -> Int], NEW x \in S,
           \A y \in S \ {x} : g[y] = f[y]
    PROVE  SumFunction(g) = SumFunction(f) - f[x] + g[x]
<1>1. DOMAIN f = S /\ DOMAIN g = S /\ S \in SUBSET S /\ S \ {x} \in SUBSET S
    OBVIOUS
<1>2. SumFunctionOnSet(f, S) = f[x] + SumFunctionOnSet(f, S \ {x})
    BY <1>1, SumWithout
<1>3. SumFunctionOnSet(g, S) = g[x] + SumFunctionOnSet(g, S \ {x})
    BY <1>1, SumWithout
<1>4. SumFunctionOnSet(f, S \ {x}) = SumFunctionOnSet(g, S \ {x})
    BY <1>1, SumsAgree
<1>5. SumFunctionOnSet(f, S \ {x}) \in Int /\ f[x] \in Int /\ g[x] \in Int
    BY <1>1, SumIsInt
<1> QED
    BY <1>1, <1>2, <1>3, <1>4, <1>5 DEF SumFunction

LEMMA SumOfZeros ==
    ASSUME NEW S, IsFiniteSet(S), NEW f \in [S -> Int], \A x \in S : f[x] = 0
    PROVE  SumFunction(f) = 0
<1> DEFINE Bad == {U \in SUBSET S : SumFunctionOnSet(f, U) # 0}
<1>1. Bad = {}
    <2>1. SUFFICES ASSUME Bad # {} PROVE FALSE
        OBVIOUS
    <2>2. \A U \in SUBSET S : IsFiniteSet(U)
        BY FS_Subset
    <2>3. PICK U \in Bad : \A V \in Bad : Cardinality(U) <= Cardinality(V)
        <3>1. \A V \in Bad : IsFiniteSet(V)
            BY <2>2
        <3> HIDE DEF Bad
        <3> QED
            BY <2>1, <3>1, Smallest
    <2>4. U \in SUBSET S /\ IsFiniteSet(U) /\ Cardinality(U) \in Nat
        BY <2>2, FS_CardinalityType
    <2>5. PICK x \in U : TRUE
        BY <2>4, SumUnfolds
    <2>6. SumFunctionOnSet(f, U) = f[x] + SumFunctionOnSet(f, U \ {x})
        BY <2>4, SumWithout
    <2>7. Cardinality(U \ {x}) = Cardinality(U) - 1
        BY <2>4, FS_RemoveElement
    <2>8. SumFunctionOnSet(f, U \ {x}) = 0
        BY <2>3, <2>4, <2>7
    <2> QED
        BY <2>4, <2>6, <2>8
<1>2. DOMAIN f = S /\ S \notin Bad
    BY <1>1
<1> QED
    BY <1>2 DEF SumFunction

\* What the first of a run has, and each has whose predecessor has it, all have.
LEMMA Induction ==
    ASSUME NEW n \in Nat, NEW S, NEW g, g[0] \in S,
           \A k \in 0 .. n - 1 : g[k] \in S => g[k + 1] \in S
    PROVE  \A k \in 0 .. n : g[k] \in S
<1> DEFINE T == {k \in 0 .. n : g[k] \notin S}
<1>1. SUFFICES ASSUME T # {} PROVE FALSE
    OBVIOUS
<1>2. T \in SUBSET Nat
    OBVIOUS
<1>3. PICK k \in T : \A j \in T : k <= j
    BY <1>1, <1>2, Least
<1>4. k \in 0 .. n /\ k # 0
    OBVIOUS
<1>5. k - 1 \in 0 .. n /\ k - 1 \in 0 .. n - 1 /\ (k - 1) + 1 = k /\ ~ (k <= k - 1)
    BY <1>4
<1>6. k - 1 \notin T
    BY <1>3, <1>5
<1>7. g[k - 1] \in S
    BY <1>5, <1>6
<1>8. g[(k - 1) + 1] \in S
    BY <1>5, <1>7
<1> QED
    BY <1>5, <1>8
-----------------------------------------------------------------------------
(* Sequences *)

LEMMA SequencesAreFinite ==
    ASSUME NEW A, NEW s \in Seq(A)
    PROVE  /\ Len(s) \in Nat /\ DOMAIN s = 1 .. Len(s) /\ s \in [1 .. Len(s) -> A]
           /\ IsFiniteSet(1 .. Len(s))
BY FS_Interval

LEMMA SumOfEmpty == SumFunction(<< >>) = 0
<1>1. << >> \in [{} -> Int] /\ IsFiniteSet({})
    BY FS_EmptySet
<1> QED
    BY <1>1, SumOfZeros

LEMMA SumAppend ==
    ASSUME NEW s \in Seq(Int), NEW m \in Int
    PROVE  SumFunction(Append(s, m)) = SumFunction(s) + m
<1> DEFINE n == Len(s)
           t == Append(s, m)
           I == 1 .. n
           J == 1 .. n + 1
<1>1. n \in Nat /\ s \in [I -> Int] /\ DOMAIN s = I /\ IsFiniteSet(I)
    BY SequencesAreFinite
<1>2. t \in Seq(Int) /\ Len(t) = n + 1 /\ t[n + 1] = m /\ \A i \in I : t[i] = s[i]
    BY <1>1
<1> HIDE DEF t
<1>3. t \in [J -> Int] /\ DOMAIN t = J /\ IsFiniteSet(J)
    BY <1>2, SequencesAreFinite
<1>4. n + 1 \in J /\ J \ {n + 1} = I /\ I \in SUBSET J
    BY <1>1
<1> HIDE DEF n, I, J
<1>5. SumFunctionOnSet(t, J) = m + SumFunctionOnSet(t, I)
    <2>1. J \in SUBSET J
        OBVIOUS
    <2>2. SumFunctionOnSet(t, J) = t[n + 1] + SumFunctionOnSet(t, J \ {n + 1})
        BY <1>3, <1>4, <2>1, SumWithout
    <2> QED
        BY <1>2, <1>4, <2>2
<1>6. SumFunctionOnSet(t, I) = SumFunctionOnSet(s, I)
    BY <1>2, SumsAgree
<1>7. SumFunction(s) \in Int
    BY <1>1, SumType
<1>8. SumFunction(t) = SumFunctionOnSet(t, J) /\ SumFunction(s) = SumFunctionOnSet(s, I)
    BY <1>1, <1>3 DEF SumFunction
<1>9. SumFunction(t) = SumFunction(s) + m
    BY <1>1, <1>2, <1>4, <1>5, <1>6, <1>7, <1>8
<1> QED
    BY <1>9 DEF t

LEMMA SumOfShort ==
    ASSUME NEW s \in Seq(Int)
    PROVE  /\ Len(s) = 0 => SumFunction(s) = 0
           /\ Len(s) = 1 => SumFunction(s) = s[1]
           /\ Len(s) = 2 => SumFunction(s) = s[1] + s[2]
<1> DEFINE I == 1 .. Len(s)
<1>1. Len(s) \in Nat /\ DOMAIN s = I /\ IsFiniteSet(I) /\ s \in [I -> Int]
    BY SequencesAreFinite
<1>2. \A i : i \in I <=> i \in 1 .. Len(s)
    OBVIOUS
<1> HIDE DEF I
<1>3. SumFunctionOnSet(s, {}) = 0 /\ SumFunction(s) = SumFunctionOnSet(s, I)
    BY <1>1, SumOfNone DEF SumFunction
<1>4. ASSUME NEW T \in SUBSET I, NEW i \in T, NEW U, U = T \ {i}
      PROVE  SumFunctionOnSet(s, T) = s[i] + SumFunctionOnSet(s, U)
    BY <1>1, <1>4, SumWithout
<1>5. CASE Len(s) = 0
    <2>1. I = {}
        BY <1>2, <1>5
    <2> QED
        BY <1>3, <1>5, <2>1
<1>6. CASE Len(s) = 1
    <2>1. I = {1} /\ {1} \ {1} = {} /\ {1} \in SUBSET I /\ s[1] \in Int
        BY <1>1, <1>2, <1>6
    <2>2. SumFunctionOnSet(s, {1}) = s[1] + SumFunctionOnSet(s, {})
        BY <1>4, <2>1
    <2> QED
        BY <1>3, <1>6, <2>1, <2>2
<1>7. CASE Len(s) = 2
    <2>1. /\ I = {1, 2} /\ {1, 2} \ {1} = {2} /\ {2} \ {2} = {} /\ {2} \in SUBSET I /\ {1, 2} \in SUBSET I
          /\ s[1] \in Int /\ s[2] \in Int
        BY <1>1, <1>2, <1>7
    <2>2. SumFunctionOnSet(s, {1, 2}) = s[1] + SumFunctionOnSet(s, {2})
        BY <1>4, <2>1
    <2>3. SumFunctionOnSet(s, {2}) = s[2] + SumFunctionOnSet(s, {})
        BY <1>4, <2>1
    <2> QED
        BY <1>3, <1>7, <2>1, <2>2, <2>3
<1> QED
    BY <1>5, <1>6, <1>7

\* The first of a short sequence, and the sum of the rest.
LEMMA SumOfTwo ==
    ASSUME NEW s \in Seq(Int), Len(s) <= 2, s # << >>
    PROVE  /\ Tail(s) \in Seq(Int) /\ Len(Tail(s)) <= 2 /\ Head(s) \in Int
           /\ SumFunction(s) = Head(s) + SumFunction(Tail(s))
<1> DEFINE r == Tail(s)
           x == Head(s)
           m == Len(s)
           n == Len(r)
<1>1. m \in Nat /\ m # 0 /\ x = s[1] /\ m <= 2
    BY EmptySeq
<1>2. /\ r \in Seq(Int) /\ n = m - 1 /\ x \in Int
      /\ \A i \in 1 .. n : r[i] = s[i + 1]
    BY HeadTailProperties
<1>3. /\ n = 0 => SumFunction(r) = 0
      /\ n = 1 => SumFunction(r) = r[1]
    BY <1>2, SumOfShort
<1>4. /\ m = 1 => SumFunction(s) = s[1]
      /\ m = 2 => SumFunction(s) = s[1] + s[2]
    BY SumOfShort
<1> HIDE DEF r, x, m, n
<1>5. SumFunction(s) = x + SumFunction(r) /\ n <= 2
    <2>1. CASE m = 1
        BY <1>1, <1>2, <1>3, <1>4, <2>1
    <2>2. CASE m = 2
        <3>1. n = 1 /\ 1 \in 1 .. n /\ r[1] = s[1 + 1]
            BY <1>2, <2>2
        <3> QED
            BY <1>1, <1>3, <1>4, <2>2, <3>1
    <2> QED
        BY <1>1, <2>1, <2>2
<1> QED
    BY <1>2, <1>5 DEF r, x, n

LEMMA SumOfSizes ==
    ASSUME NEW m \in Int, NEW n \in Int
    PROVE  /\ Sizes(m) \o Sizes(n) \in Seq(Int)
           /\ Len(Sizes(m) \o Sizes(n)) <= 2
           /\ SumFunction(Sizes(m) \o Sizes(n)) = m + n
<1> DEFINE s == Sizes(m)
           t == Sizes(n)
           u == s \o t
<1>1. /\ s \in Seq(Int) /\ Len(s) = (IF m = 0 THEN 0 ELSE 1) /\ (m # 0 => s[1] = m)
      /\ t \in Seq(Int) /\ Len(t) = (IF n = 0 THEN 0 ELSE 1) /\ (n # 0 => t[1] = n)
    BY DEF Sizes
<1> HIDE DEF s, t
<1>2. /\ u \in Seq(Int) /\ Len(u) = Len(s) + Len(t)
      /\ \A i \in 1 .. Len(s) + Len(t) : u[i] = IF i <= Len(s) THEN s[i] ELSE t[i - Len(s)]
    BY <1>1, ConcatProperties
<1> HIDE DEF u
<1>3. SumFunction(u) = m + n
    <2>1. CASE m = 0 /\ n = 0
        <3>1. Len(u) = 0
            BY <1>1, <1>2, <2>1
        <3>2. SumFunction(u) = 0
            BY <1>2, <3>1, SumOfShort
        <3> QED
            BY <2>1, <3>2
    <2>2. CASE m = 0 /\ n # 0
        <3>1. Len(u) = 1 /\ 1 \in 1 .. Len(s) + Len(t) /\ ~ (1 <= Len(s)) /\ 1 - Len(s) = 1
            BY <1>1, <1>2, <2>2
        <3>2. u[1] = t[1]
            BY <1>2, <3>1
        <3> QED
            BY <1>1, <1>2, <2>2, <3>1, <3>2, SumOfShort
    <2>3. CASE m # 0 /\ n = 0
        <3>1. Len(u) = 1 /\ 1 \in 1 .. Len(s) + Len(t) /\ 1 <= Len(s)
            BY <1>1, <1>2, <2>3
        <3>2. u[1] = s[1]
            BY <1>2, <3>1
        <3> QED
            BY <1>1, <1>2, <2>3, <3>1, <3>2, SumOfShort
    <2>4. CASE m # 0 /\ n # 0
        <3>1. /\ Len(u) = 2 /\ 1 \in 1 .. Len(s) + Len(t) /\ 1 <= Len(s)
              /\ 2 \in 1 .. Len(s) + Len(t) /\ ~ (2 <= Len(s)) /\ 2 - Len(s) = 1
            BY <1>1, <1>2, <2>4
        <3>2. u[1] = s[1] /\ u[2] = t[1]
            BY <1>2, <3>1
        <3> QED
            BY <1>1, <1>2, <2>4, <3>1, <3>2, SumOfShort
    <2> QED
        BY <2>1, <2>2, <2>3, <2>4
<1>4. Len(u) <= 2
    BY <1>1, <1>2
<1> QED
    BY <1>2, <1>3, <1>4 DEF u, s, t

\* The sequences have lengths, however many and whatever they hold.
Lengths(seqs) == [i \in DOMAIN seqs |-> Len(seqs[i])]

LEMMA TotalLenType ==
    ASSUME NEW S, IsFiniteSet(S), NEW A, NEW seqs \in [S -> Seq(A)]
    PROVE  TotalLen(seqs) \in Int
<1>1. Lengths(seqs) \in [S -> Int]
    BY DEF Lengths
<1> QED
    BY <1>1, SumType DEF TotalLen, Lengths

LEMMA TotalLenOfEmpty == TotalLen(<< >>) = 0
<1>1. Lengths(<< >>) = << >>
    BY DEF Lengths
<1> QED
    BY <1>1, SumOfEmpty DEF TotalLen, Lengths

LEMMA TotalLenAppend ==
    ASSUME NEW A, NEW seqs \in Seq(Seq(A)), NEW s \in Seq(A)
    PROVE  TotalLen(Append(seqs, s)) = TotalLen(seqs) + Len(s)
<1> DEFINE n == Len(seqs)
<1>1. n \in Nat /\ DOMAIN seqs = 1 .. n /\ \A i \in 1 .. n : Len(seqs[i]) \in Int
    OBVIOUS
<1>2. Lengths(seqs) = [i \in 1 .. n |-> Len(seqs[i])]
    BY <1>1 DEF Lengths
<1>3. Lengths(seqs) \in Seq(Int) /\ Len(Lengths(seqs)) = n /\ Len(s) \in Int
    BY <1>1, <1>2
<1>4. Lengths(Append(seqs, s)) = Append(Lengths(seqs), Len(s))
    <2>1. /\ DOMAIN Append(seqs, s) = 1 .. n + 1 /\ Append(seqs, s)[n + 1] = s
          /\ \A i \in 1 .. n : Append(seqs, s)[i] = seqs[i]
        BY <1>1
    <2>2. Lengths(Append(seqs, s)) = [i \in 1 .. n + 1 |-> Len(Append(seqs, s)[i])]
        BY <2>1 DEF Lengths
    <2>3. Append(Lengths(seqs), Len(s)) = [i \in 1 .. n + 1 |-> IF i = n + 1 THEN Len(s) ELSE Len(seqs[i])]
        BY <1>2, <1>3
    <2> QED
        BY <1>1, <2>1, <2>2, <2>3
<1>5. SumFunction(Append(Lengths(seqs), Len(s))) = SumFunction(Lengths(seqs)) + Len(s)
    BY <1>3, SumAppend
<1> QED
    BY <1>4, <1>5 DEF TotalLen, Lengths

LEMMA TotalLenOfOne ==
    ASSUME NEW A, NEW s \in Seq(A)
    PROVE  TotalLen(<<s>>) = Len(s)
<1> DEFINE one == Lengths(<<s>>)
<1>1. /\ one = [i \in 1 .. 1 |-> Len(s)]
      /\ Len(s) \in Int
    BY DEF Lengths
<1> HIDE DEF one
<1>2. one \in Seq(Int) /\ Len(one) = 1 /\ one[1] = Len(s)
    BY <1>1
<1>3. SumFunction(one) = Len(s)
    BY <1>2, SumOfShort
<1> QED
    BY <1>3 DEF TotalLen, Lengths, one
-----------------------------------------------------------------------------
(* Batches *)

Batches == Seq(Int \X Int)

Turns(left, right) == [i : Nat \ {0}, j : Nat \ {0}, merged : Batches]

LEMMA MergeStepIsATurn ==
    ASSUME NEW left \in Batches, NEW right \in Batches, NEW s \in Turns(left, right)
    PROVE  MergeStep(left, right, s) \in Turns(left, right)
<1> DEFINE l == left[s.i]
           r == right[s.j]
           both == IF l[2] + r[2] # 0 THEN << <<l[1], l[2] + r[2]>> >> ELSE << >>
<1>1. s.i \in Nat \ {0} /\ s.j \in Nat \ {0} /\ s.merged \in Batches
    BY DEF Turns
<1>2. CASE s.i > Len(left) \/ s.j > Len(right)
    BY <1>2 DEF MergeStep
<1>3. CASE ~ (s.i > Len(left) \/ s.j > Len(right))
    <2>1. l \in Int \X Int /\ r \in Int \X Int
        BY <1>1, <1>3 DEF Batches
    <2>2. <<l>> \in Batches /\ <<r>> \in Batches
        BY <2>1 DEF Batches
    <2>3. both \in Batches
        <3>1. <<l[1], l[2] + r[2]>> \in Int \X Int
            BY <2>1
        <3>2. << <<l[1], l[2] + r[2]>> >> \in Batches /\ << >> \in Batches
            BY <3>1 DEF Batches
        <3> QED
            BY <3>2
    <2> HIDE DEF both, l, r
    <2>4. \A entries \in Batches : s.merged \o entries \in Batches
        BY <1>1, ConcatProperties DEF Batches
    <2>5. s.i + 1 \in Nat \ {0} /\ s.j + 1 \in Nat \ {0}
        BY <1>1
    <2>6. \/ MergeStep(left, right, s) = [i |-> s.i + 1, j |-> s.j, merged |-> s.merged \o <<l>>]
          \/ MergeStep(left, right, s) = [i |-> s.i, j |-> s.j + 1, merged |-> s.merged \o <<r>>]
          \/ MergeStep(left, right, s) = [i |-> s.i + 1, j |-> s.j + 1, merged |-> s.merged \o both]
        BY <1>3 DEF MergeStep, both, l, r
    <2>7. s.merged \o <<l>> \in Batches /\ s.merged \o <<r>> \in Batches /\ s.merged \o both \in Batches
        BY <2>2, <2>3, <2>4
    <2> DEFINE a == s.merged \o <<l>>
               b == s.merged \o <<r>>
               c == s.merged \o both
    <2> HIDE DEF a, b, c
    <2>8. a \in Batches /\ b \in Batches /\ c \in Batches
        BY <2>7 DEF a, b, c
    <2>9. /\ [i |-> s.i + 1, j |-> s.j, merged |-> a] \in Turns(left, right)
          /\ [i |-> s.i, j |-> s.j + 1, merged |-> b] \in Turns(left, right)
          /\ [i |-> s.i + 1, j |-> s.j + 1, merged |-> c] \in Turns(left, right)
        BY <1>1, <2>5, <2>8 DEF Turns
    <2> QED
        BY <2>6, <2>9 DEF a, b, c
<1> QED
    BY <1>2, <1>3

LEMMA MergingIs ==
    ASSUME NEW left \in Batches, NEW right \in Batches
    PROVE  LET loop == Merging(left, right) IN
           /\ loop \in [Nat -> Turns(left, right)]
           /\ loop[0] = [i |-> 1, j |-> 1, merged |-> << >>]
           /\ \A k \in Nat : loop[k + 1] = MergeStep(left, right, loop[k])
<1> DEFINE S == Turns(left, right)
           first == [i |-> 1, j |-> 1, merged |-> << >>]
           step == [n \in Nat |-> [s \in S |-> MergeStep(left, right, s)]]
           Is(f) == f = [k \in Nat |-> IF k = 0 THEN first ELSE MergeStep(left, right, f[k - 1])]
           loop == Merging(left, right)
<1>1. first \in S
    BY DEF Turns, Batches
<1>2. step \in [Nat -> [S -> S]]
    BY MergeStepIsATurn
<1> HIDE DEF S, first
<1>3. PICK f : IsRun(f, S, first, step)
    <2> HIDE DEF step
    <2> QED
        BY <1>1, <1>2, Recursion
<1>4. f \in [Nat -> S] /\ f[0] = first /\ \A k \in Nat : f[k + 1] = MergeStep(left, right, f[k])
    BY <1>3 DEF IsRun
<1>5. Is(f)
    <2>1. ASSUME NEW k \in Nat
          PROVE  f[k] = IF k = 0 THEN first ELSE MergeStep(left, right, f[k - 1])
        <3>1. CASE k = 0
            BY <1>4, <3>1
        <3>2. CASE k # 0
            <4>1. k - 1 \in Nat /\ (k - 1) + 1 = k
                BY <3>2
            <4>2. f[(k - 1) + 1] = MergeStep(left, right, f[k - 1])
                BY <1>4, <4>1
            <4> QED
                BY <3>2, <4>1, <4>2
        <3> QED
            BY <3>1, <3>2
    <2> QED
        BY <1>4, <2>1
<1>6. loop = CHOOSE g : Is(g)
    BY DEF Merging, first
<1>7. Is(loop)
    <2> HIDE DEF Is, loop
    <2> QED
        BY <1>5, <1>6
<1> HIDE DEF loop
<1>8. /\ loop[0] = first
      /\ \A k \in Nat : loop[k + 1] = MergeStep(left, right, loop[k])
    <2>1. \A k \in Nat : k + 1 \in Nat /\ k + 1 # 0 /\ (k + 1) - 1 = k
        OBVIOUS
    <2> QED
        BY <1>7, <2>1
<1>9. ASSUME NEW n \in Nat
      PROVE  loop[n] \in S
    <2>1. \A k \in 0 .. n - 1 : loop[k] \in S => loop[k + 1] \in S
        BY <1>8, MergeStepIsATurn DEF S
    <2>2. loop[0] \in S
        BY <1>1, <1>8
    <2>3. \A k \in 0 .. n : loop[k] \in S
        BY <2>1, <2>2, Induction
    <2> QED
        BY <2>3
<1>10. loop \in [Nat -> S]
    <2>1. loop = [k \in Nat |-> loop[k]]
        BY <1>7
    <2> QED
        BY <1>9, <2>1
<1> QED
    BY <1>8, <1>10 DEF loop, S, first

LEMMA MergeBatchesType ==
    ASSUME NEW left \in Batches, NEW right \in Batches
    PROVE  MergeBatches(left, right) \in Batches
<1> DEFINE end == Merging(left, right)[Len(left) + Len(right)]
           A == Int \X Int
<1>1. Len(left) \in Nat /\ Len(right) \in Nat /\ Len(left) + Len(right) \in Nat
    BY DEF Batches
<1>2. end \in Turns(left, right)
    BY <1>1, MergingIs
<1> HIDE DEF end
<1>3. end.i \in Nat \ {0} /\ end.j \in Nat \ {0} /\ end.merged \in Batches
    BY <1>2 DEF Turns
<1>4. /\ \A i \in end.i .. Len(left) : left[i] \in A
      /\ \A j \in end.j .. Len(right) : right[j] \in A
    BY <1>1, <1>3 DEF Batches
<1> HIDE DEF A
<1>5. SubSeq(left, end.i, Len(left)) \in Seq(A) /\ SubSeq(right, end.j, Len(right)) \in Seq(A)
    BY <1>1, <1>3, <1>4, SubSeqProperties
<1>6. end.merged \o SubSeq(left, end.i, Len(left)) \o SubSeq(right, end.j, Len(right)) \in Seq(A)
    BY <1>3, <1>5, ConcatProperties DEF Batches, A
<1> QED
    BY <1>6 DEF MergeBatches, Batches, A, end

LEMMA MergePairsType ==
    ASSUME NEW bs \in Seq(Batches)
    PROVE  /\ MergePairs(bs) \in Seq(Batches)
           /\ bs # << >> => MergePairs(bs) # << >>
<1> DEFINE n == Len(bs)
           half == (n + 1) \div 2
<1>1. n \in Nat
    OBVIOUS
<1>2. half \in Nat /\ 2 * half >= n /\ 2 * half <= n + 1
    BY <1>1, Z3
<1> HIDE DEF n, half
<1>3. ASSUME NEW i \in 1 .. half
      PROVE  (IF 2 * i <= n THEN MergeBatches(bs[2 * i - 1], bs[2 * i]) ELSE bs[2 * i - 1]) \in Batches
    <2>1. 2 * i - 1 \in 1 .. n
        BY <1>1, <1>2
    <2>2. bs[2 * i - 1] \in Batches
        BY <2>1 DEF n
    <2>3. CASE 2 * i <= n
        <3>1. 2 * i \in 1 .. n
            BY <1>1, <1>2, <2>3
        <3>2. bs[2 * i] \in Batches
            BY <3>1 DEF n
        <3> QED
            BY <2>2, <2>3, <3>2, MergeBatchesType
    <2> QED
        BY <2>2, <2>3
<1>4. MergePairs(bs) = [i \in 1 .. half |->
          IF 2 * i <= n THEN MergeBatches(bs[2 * i - 1], bs[2 * i]) ELSE bs[2 * i - 1]]
    BY DEF MergePairs, n, half
<1>5. MergePairs(bs) \in Seq(Batches) /\ Len(MergePairs(bs)) = half
    BY <1>2, <1>3, <1>4
<1>6. bs # << >> => half # 0
    BY <1>1, <1>2, EmptySeq DEF n
<1> QED
    BY <1>5, <1>6

LEMMA PassesAre ==
    ASSUME NEW bs \in Seq(Batches), bs # << >>
    PROVE  /\ Passes(bs)[0] = bs
           /\ \A k \in Nat : Passes(bs)[k + 1] = MergePairs(Passes(bs)[k])
           /\ \A n \in Nat : Passes(bs)[n] \in Seq(Batches) /\ Passes(bs)[n] # << >>
<1> DEFINE S == {p \in Seq(Batches) : p # << >>}
           step == [k \in Nat |-> [p \in S |-> MergePairs(p)]]
           Is(f) == f = [k \in Nat |-> IF k = 0 THEN bs ELSE MergePairs(f[k - 1])]
           pass == Passes(bs)
<1>1. bs \in S /\ \A p \in S : MergePairs(p) \in S
    BY MergePairsType
<1>2. step \in [Nat -> [S -> S]]
    BY <1>1
<1> HIDE DEF S
<1>3. PICK f : IsRun(f, S, bs, step)
    <2> HIDE DEF step
    <2> QED
        BY <1>1, <1>2, Recursion
<1>4. f \in [Nat -> S] /\ f[0] = bs /\ \A k \in Nat : f[k + 1] = MergePairs(f[k])
    BY <1>3 DEF IsRun
<1>5. Is(f)
    <2>1. ASSUME NEW k \in Nat
          PROVE  f[k] = IF k = 0 THEN bs ELSE MergePairs(f[k - 1])
        <3>1. CASE k = 0
            BY <1>4, <3>1
        <3>2. CASE k # 0
            <4>1. k - 1 \in Nat /\ (k - 1) + 1 = k
                BY <3>2
            <4>2. f[(k - 1) + 1] = MergePairs(f[k - 1])
                BY <1>4, <4>1
            <4> QED
                BY <3>2, <4>1, <4>2
        <3> QED
            BY <3>1, <3>2
    <2> QED
        BY <1>4, <2>1
<1>6. pass = CHOOSE g : Is(g)
    BY DEF Passes
<1>7. Is(pass)
    <2> HIDE DEF Is, pass
    <2> QED
        BY <1>5, <1>6
<1> HIDE DEF pass
<1>8. pass[0] = bs /\ \A k \in Nat : pass[k + 1] = MergePairs(pass[k])
    <2>1. \A k \in Nat : k + 1 \in Nat /\ k + 1 # 0 /\ (k + 1) - 1 = k
        OBVIOUS
    <2> QED
        BY <1>7, <2>1
<1>9. ASSUME NEW n \in Nat
      PROVE  pass[n] \in S
    <2>1. \A k \in 0 .. n - 1 : pass[k] \in S => pass[k + 1] \in S
        <3>1. \A k \in 0 .. n - 1 : k \in Nat
            OBVIOUS
        <3> QED
            BY <1>1, <1>8, <3>1
    <2>2. \A k \in 0 .. n : pass[k] \in S
        BY <1>1, <1>8, <2>1, Induction
    <2> QED
        BY <2>2
<1> QED
    BY <1>8, <1>9 DEF pass, S

LEMMA KeptIs ==
    ASSUME NEW batch \in Batches
    PROVE  LET kept == Kept(batch) IN
           /\ kept[0] = << >>
           /\ \A k \in Nat : kept[k + 1] = IF batch[k + 1][2] > 0 THEN Append(kept[k], batch[k + 1][1])
                                           ELSE kept[k]
           /\ \A k \in 0 .. Len(batch) : kept[k] \in Seq(Int)
<1> DEFINE n == Len(batch)
           S == Seq({batch[k][1] : k \in Nat})
           turn(k, rows_) == IF batch[k][2] > 0 THEN Append(rows_, batch[k][1]) ELSE rows_
           step == [k \in Nat |-> [r \in S |-> turn(k + 1, r)]]
           Is(f) == f = [k \in Nat |-> IF k = 0 THEN << >> ELSE turn(k, f[k - 1])]
           kept == Kept(batch)
<1>1. << >> \in S /\ \A k \in Nat : \A r \in S : turn(k, r) \in S
    OBVIOUS
<1>2. step \in [Nat -> [S -> S]]
    BY <1>1
<1> HIDE DEF S
<1>3. PICK f : IsRun(f, S, << >>, step)
    <2> HIDE DEF step
    <2> QED
        BY <1>1, <1>2, Recursion
<1>4. f \in [Nat -> S] /\ f[0] = << >> /\ \A k \in Nat : f[k + 1] = turn(k + 1, f[k])
    BY <1>3 DEF IsRun
<1>5. Is(f)
    <2>1. ASSUME NEW k \in Nat
          PROVE  f[k] = IF k = 0 THEN << >> ELSE turn(k, f[k - 1])
        <3>1. CASE k = 0
            BY <1>4, <3>1
        <3>2. CASE k # 0
            <4>1. k - 1 \in Nat /\ (k - 1) + 1 = k
                BY <3>2
            <4> HIDE DEF turn
            <4>2. f[(k - 1) + 1] = turn((k - 1) + 1, f[k - 1])
                BY <1>4, <4>1
            <4> QED
                BY <3>2, <4>1, <4>2
        <3> QED
            BY <3>1, <3>2
    <2> QED
        BY <1>4, <2>1
<1>6. kept = CHOOSE g : Is(g)
    BY DEF Kept
<1>7. Is(kept)
    <2> HIDE DEF Is, kept
    <2> QED
        BY <1>5, <1>6
<1> HIDE DEF kept
<1>8. kept[0] = << >> /\ \A k \in Nat : kept[k + 1] = turn(k + 1, kept[k])
    <2>1. \A k \in Nat : k + 1 \in Nat /\ k + 1 # 0 /\ (k + 1) - 1 = k
        OBVIOUS
    <2> HIDE DEF turn
    <2> QED
        BY <1>7, <2>1
<1>9. n \in Nat /\ \A k \in 1 .. n : batch[k][1] \in Int
    BY DEF Batches
<1> HIDE DEF n
<1>10. ASSUME NEW k \in 0 .. n - 1, kept[k] \in Seq(Int)
       PROVE  kept[k + 1] \in Seq(Int)
    <2>1. k + 1 \in 1 .. n /\ k \in Nat
        BY <1>9
    <2>2. turn(k + 1, kept[k]) \in Seq(Int)
        BY <1>9, <1>10, <2>1
    <2> HIDE DEF turn
    <2> QED
        BY <1>8, <2>1, <2>2
<1>11. << >> \in Seq(Int)
    OBVIOUS
<1>12. \A k \in 0 .. n : kept[k] \in Seq(Int)
    <2> HIDE DEF turn
    <2> QED
        BY <1>8, <1>9, <1>10, <1>11, Induction
<1> QED
    BY <1>8, <1>12 DEF kept, n

LEMMA ConsolidateType ==
    ASSUME NEW bs \in Seq(Batches)
    PROVE  Consolidate(bs) \in Seq(Int)
<1>1. CASE bs = << >>
    BY <1>1 DEF Consolidate
<1>2. CASE bs # << >>
    <2> DEFINE batch == Passes(bs)[Len(bs)][1]
               passed == Passes(bs)[Len(bs)]
    <2>1. Len(bs) \in Nat
        OBVIOUS
    <2>2. passed \in Seq(Batches) /\ passed # << >>
        BY <1>2, <2>1, PassesAre
    <2> HIDE DEF passed
    <2>3. passed[1] \in Batches
        BY <2>2, EmptySeq
    <2>4. batch \in Batches
        BY <2>3 DEF passed
    <2> HIDE DEF batch
    <2>5. Consolidate(bs) = Kept(batch)[Len(batch)]
        BY <1>2 DEF Consolidate, batch
    <2>6. Len(batch) \in 0 .. Len(batch)
        BY <2>4 DEF Batches
    <2> QED
        BY <2>4, <2>5, <2>6, KeptIs
<1> QED
    BY <1>1, <1>2

\* Every member of a finite set of numbers has its place in order.
LEMMA NthIs ==
    ASSUME NEW T \in SUBSET Int, IsFiniteSet(T), NEW i \in 1 .. Cardinality(T)
    PROVE  Nth(T, i) \in T /\ Cardinality({m \in T : m < Nth(T, i)}) = i - 1
<1> DEFINE before(n) == {m \in T : m < n}
           c == Cardinality(T)
           places == 0 .. c - 1
           place == [n \in T |-> Cardinality(before(n))]
<1>1. c \in Nat
    BY FS_CardinalityType
<1>2. ASSUME NEW n \in T
      PROVE  place[n] \in places
    <2>1. before(n) \in SUBSET T /\ n \notin before(n)
        OBVIOUS
    <2> HIDE DEF before
    <2>2. IsFiniteSet(before(n)) /\ Cardinality(before(n)) <= c /\ Cardinality(before(n)) # c
        BY <2>1, FS_Subset
    <2>3. Cardinality(before(n)) \in Nat
        BY <2>2, FS_CardinalityType
    <2> QED
        BY <1>1, <2>2, <2>3
<1>3. ASSUME NEW m \in T, NEW n \in T, m < n
      PROVE  place[m] # place[n]
    <2>1. before(m) \in SUBSET before(n) /\ m \in before(n) /\ m \notin before(m) /\ before(n) \in SUBSET T
        <3>1. m \in Int /\ n \in Int /\ \A l \in T : l \in Int
            OBVIOUS
        <3>2. ASSUME NEW l \in T, l < m
              PROVE  l < n
            BY <1>3, <3>1, <3>2
        <3>3. ~ (m < m)
            BY <3>1
        <3> QED
            BY <1>3, <3>2, <3>3, Zenon
    <2> HIDE DEF before
    <2>2. IsFiniteSet(before(n))
        BY <2>1, FS_Subset
    <2>3. Cardinality(before(n)) # Cardinality(before(m))
        BY <2>1, <2>2, FS_Subset
    <2> QED
        BY <2>3
<1>4. place \in Injection(T, places)
    <2>1. ASSUME NEW m \in T, NEW n \in T, place[m] = place[n]
          PROVE  m = n
        <3>1. m \in Int /\ n \in Int
            OBVIOUS
        <3>2. ~ (m < n) /\ ~ (n < m)
            <4> HIDE DEF place
            <4> QED
                BY <1>3, <2>1
        <3> QED
            BY <3>1, <3>2
    <2>2. place \in [T -> places]
        <3> HIDE DEF places
        <3> QED
            BY <1>2
    <2> HIDE DEF place, places
    <2> QED
        BY <2>1, <2>2 DEF Injection, IsInjective
<1>5. IsFiniteSet(places) /\ Cardinality(places) = c
    <2>1. 0 \in Int /\ c - 1 \in Int /\ (0 > c - 1 <=> c = 0)
        BY <1>1
    <2> HIDE DEF c
    <2>2. IsFiniteSet(places) /\ Cardinality(places) = IF 0 > c - 1 THEN 0 ELSE (c - 1) - 0 + 1
        BY <2>1, FS_Interval
    <2> QED
        BY <1>1, <2>1, <2>2
<1>6. place \in Surjection(T, places)
    <2> HIDE DEF place, places
    <2> QED
        BY <1>4, <1>5, FS_Injection
<1>7. PICK n \in T : place[n] = i - 1
    <2>1. i - 1 \in places
        BY <1>1
    <2> HIDE DEF place, places
    <2> QED
        BY <1>6, <2>1 DEF Surjection
<1>8. \E m \in T : Cardinality(before(m)) = i - 1
    BY <1>7
<1> HIDE DEF place, before
<1>9. Nth(T, i) = CHOOSE m \in T : Cardinality(before(m)) = i - 1
    BY DEF Nth, before
<1>10. Nth(T, i) \in T /\ Cardinality(before(Nth(T, i))) = i - 1
    BY <1>8, <1>9
<1> QED
    BY <1>10 DEF before

\* The rows whose updates do not cancel.
Remaining(updates) == {r \in {u[1] : u \in Range(updates)} : Weight(updates, r) # 0}

\* What a worker has captured of a head makes a batch.
LEMMA AsBatchIs ==
    ASSUME NEW updates \in Batches
    PROVE  /\ AsBatch(updates) \in Batches
           /\ Remaining(updates) \in SUBSET Int /\ IsFiniteSet(Remaining(updates))
           /\ \A r : r \in Remaining(updates) <=> /\ \E i \in 1 .. Len(updates) : updates[i][1] = r
                                                  /\ Weight(updates, r) # 0
           /\ AsBatch(updates) = [i \in 1 .. Cardinality(Remaining(updates)) |->
                                    <<Nth(Remaining(updates), i), Weight(updates, Nth(Remaining(updates), i))>>]
<1> DEFINE firsts == {u[1] : u \in Range(updates)}
           held == {r \in firsts : Weight(updates, r) # 0}
           I == 1 .. Len(updates)
<1>1. Len(updates) \in Nat /\ DOMAIN updates = I /\ IsFiniteSet(I) /\ updates \in [I -> Int \X Int]
    BY SequencesAreFinite DEF Batches
<1> HIDE DEF I
<1>2. Range(updates) = {updates[i] : i \in I}
    BY <1>1 DEF Range
<1>3. firsts = {updates[i][1] : i \in I}
    BY <1>2
<1>4. IsFiniteSet(firsts) /\ firsts \in SUBSET Int
    <2> DEFINE first == [i \in I |-> updates[i][1]]
    <2>1. first \in Surjection(I, firsts)
        BY <1>3 DEF Surjection
    <2> HIDE DEF first
    <2>2. IsFiniteSet(firsts)
        BY <1>1, <2>1, FS_Surjection
    <2> QED
        BY <1>1, <1>3, <2>2
<1> HIDE DEF firsts
<1>5. held \in SUBSET Int /\ IsFiniteSet(held)
    <2>1. held \in SUBSET firsts
        OBVIOUS
    <2> HIDE DEF held
    <2> QED
        BY <1>4, <2>1, FS_Subset
<1>6. ASSUME NEW r
      PROVE  Weight(updates, r) \in Int
    <2> DEFINE weights == [i \in DOMAIN updates |-> IF updates[i][1] = r THEN updates[i][2] ELSE 0]
    <2>1. weights \in [I -> Int]
        BY <1>1
    <2> HIDE DEF weights
    <2>2. SumFunction(weights) \in Int
        BY <1>1, <2>1, SumType
    <2> QED
        BY <2>2 DEF Weight, weights
<1> HIDE DEF held
<1>7. \A i \in 1 .. Cardinality(held) : <<Nth(held, i), Weight(updates, Nth(held, i))>> \in Int \X Int
    <2>1. \A i \in 1 .. Cardinality(held) : Nth(held, i) \in held
        BY <1>5, NthIs
    <2> QED
        BY <1>5, <1>6, <2>1
<1>8. Cardinality(held) \in Nat
    BY <1>5, FS_CardinalityType
<1>9. AsBatch(updates) = [i \in 1 .. Cardinality(held) |-> <<Nth(held, i), Weight(updates, Nth(held, i))>>]
    BY DEF AsBatch, held, firsts
<1>10. held = Remaining(updates)
    BY DEF Remaining, held, firsts
<1>11. \A r : r \in held <=> /\ \E i \in 1 .. Len(updates) : updates[i][1] = r
                             /\ Weight(updates, r) # 0
    BY <1>3 DEF held, I
<1>12. AsBatch(updates) \in Batches
    BY <1>7, <1>8, <1>9 DEF Batches
<1> QED
    BY <1>5, <1>9, <1>10, <1>11, <1>12, Zenon

\* What is said of 0, and of k + 1 if it is said of k.
LEMMA Upwards ==
    ASSUME NEW n \in Nat, NEW T, 0 \in T,
           \A k \in 0 .. n - 1 : k \in T => k + 1 \in T
    PROVE  \A k \in 0 .. n : k \in T
<1> DEFINE g == [k \in Nat |-> k]
<1>1. g[0] \in T /\ \A k \in 0 .. n - 1 : g[k] \in T => g[k + 1] \in T
    OBVIOUS
<1>2. \A k \in 0 .. n : g[k] = k
    OBVIOUS
<1> HIDE DEF g
<1> QED
    BY <1>1, <1>2, Induction

-----------------------------------------------------------------------------
(* Weights *)

WeightIn(entry, r) == IF entry[1] = r THEN entry[2] ELSE 0

\* The terms of the sum that Weight is.
Terms(b, r) == [i \in DOMAIN b |-> IF b[i][1] = r THEN b[i][2] ELSE 0]

LEMMA TermsAre ==
    ASSUME NEW b \in Batches, NEW r
    PROVE  /\ Len(b) \in Nat /\ DOMAIN b = 1 .. Len(b)
           /\ \A i \in 1 .. Len(b) : b[i] \in Int \X Int /\ WeightIn(b[i], r) \in Int
           /\ Terms(b, r) = [i \in 1 .. Len(b) |-> WeightIn(b[i], r)]
           /\ Terms(b, r) \in Seq(Int) /\ Len(Terms(b, r)) = Len(b)
           /\ Weight(b, r) = SumFunction(Terms(b, r))
<1>1. /\ Len(b) \in Nat /\ DOMAIN b = 1 .. Len(b)
      /\ \A i \in 1 .. Len(b) : b[i] \in Int \X Int
    BY DEF Batches
<1>2. \A i \in 1 .. Len(b) : WeightIn(b[i], r) \in Int
    BY <1>1 DEF WeightIn
<1>3. Terms(b, r) = [i \in 1 .. Len(b) |-> WeightIn(b[i], r)]
    BY <1>1 DEF Terms, WeightIn
<1>4. Terms(b, r) \in Seq(Int) /\ Len(Terms(b, r)) = Len(b)
    BY <1>1, <1>2, <1>3
<1>5. Weight(b, r) = SumFunction(Terms(b, r))
    BY DEF Weight, Terms
<1> QED
    BY <1>1, <1>2, <1>3, <1>4, <1>5

\* The weight of a row is a number, adds up over appended entries, joined
\* batches and the rest of a batch.
LEMMA WeightType ==
    ASSUME NEW b \in Batches, NEW r
    PROVE  Weight(b, r) \in Int
<1>1. /\ Terms(b, r) \in Seq(Int) /\ Weight(b, r) = SumFunction(Terms(b, r))
    BY TermsAre
<1>2. /\ Terms(b, r) \in [1 .. Len(Terms(b, r)) -> Int]
      /\ IsFiniteSet(1 .. Len(Terms(b, r)))
    BY <1>1, SequencesAreFinite
<1>3. SumFunction(Terms(b, r)) \in Int
    BY <1>2, SumType
<1> QED
    BY <1>1, <1>3

LEMMA WeightOfNone ==
    ASSUME NEW r
    PROVE  Weight(<< >>, r) = 0
<1>1. Terms(<< >>, r) = << >>
    BY DEF Terms
<1> QED
    BY <1>1, SumOfEmpty DEF Weight, Terms

LEMMA WeightAppend ==
    ASSUME NEW b \in Batches, NEW entry \in Int \X Int, NEW r
    PROVE  Weight(Append(b, entry), r) = Weight(b, r) + WeightIn(entry, r)
<1> DEFINE n == Len(b)
           c == Append(b, entry)
<1>1. n \in Nat /\ c \in Batches /\ Len(c) = n + 1 /\ c[n + 1] = entry /\ \A i \in 1 .. n : c[i] = b[i]
    BY AppendProperties DEF Batches
<1> HIDE DEF c
<1>2. /\ Terms(b, r) = [i \in 1 .. n |-> WeightIn(b[i], r)]
      /\ Terms(b, r) \in Seq(Int) /\ Len(Terms(b, r)) = n
      /\ Weight(b, r) = SumFunction(Terms(b, r))
    BY TermsAre
<1>3. /\ Terms(c, r) = [i \in 1 .. n + 1 |-> WeightIn(c[i], r)]
      /\ WeightIn(c[n + 1], r) \in Int
      /\ Weight(c, r) = SumFunction(Terms(c, r))
    <2>1. /\ Terms(c, r) = [i \in 1 .. Len(c) |-> WeightIn(c[i], r)]
          /\ \A i \in 1 .. Len(c) : WeightIn(c[i], r) \in Int
          /\ Weight(c, r) = SumFunction(Terms(c, r))
        BY <1>1, TermsAre
    <2> QED
        BY <1>1, <2>1
<1>4. WeightIn(entry, r) \in Int
    BY <1>1, <1>3
<1>5. Terms(c, r) = Append(Terms(b, r), WeightIn(entry, r))
    <2>1. Append(Terms(b, r), WeightIn(entry, r))
            = [i \in 1 .. n + 1 |-> IF i = n + 1 THEN WeightIn(entry, r) ELSE WeightIn(b[i], r)]
        <3> HIDE DEF n
        <3>1. Append(Terms(b, r), WeightIn(entry, r))
                = [i \in 1 .. n + 1 |-> IF i = n + 1 THEN WeightIn(entry, r) ELSE Terms(b, r)[i]]
            BY <1>1, <1>2, <1>4
        <3> QED
            BY <1>1, <1>2, <3>1
    <2>2. \A i \in 1 .. n + 1 : i # n + 1 => i \in 1 .. n
        BY <1>1
    <2> HIDE DEF n
    <2> QED
        BY <1>1, <1>3, <2>1, <2>2
<1>6. SumFunction(Append(Terms(b, r), WeightIn(entry, r)))
        = SumFunction(Terms(b, r)) + WeightIn(entry, r)
    BY <1>2, <1>4, SumAppend
<1> QED
    BY <1>2, <1>3, <1>5, <1>6 DEF c

LEMMA WeightOfOne ==
    ASSUME NEW entry \in Int \X Int, NEW r
    PROVE  <<entry>> \in Batches /\ Weight(<<entry>>, r) = WeightIn(entry, r)
<1>1. << >> \in Batches /\ Append(<< >>, entry) = <<entry>> /\ <<entry>> \in Batches
    BY DEF Batches
<1>2. Weight(Append(<< >>, entry), r) = Weight(<< >>, r) + WeightIn(entry, r)
    BY <1>1, WeightAppend
<1>3. WeightIn(entry, r) \in Int
    BY DEF WeightIn
<1> QED
    BY <1>1, <1>2, <1>3, WeightOfNone

LEMMA WeightConcat ==
    ASSUME NEW a \in Batches, NEW b \in Batches, NEW r
    PROVE  Weight(a \o b, r) = Weight(a, r) + Weight(b, r)
<1> DEFINE n == Len(b)
           part(k) == SubSeq(b, 1, k)
           T == {k \in 0 .. n : Weight(a \o part(k), r) = Weight(a, r) + Weight(part(k), r)}
<1>1. n \in Nat /\ \A i \in 1 .. n : b[i] \in Int \X Int
    BY TermsAre
<1>2. \A k \in 0 .. n : part(k) \in Batches
    BY <1>1, SubSeqProperties DEF Batches
<1>3. 0 \in T
    <2>1. part(0) = << >> /\ a \o << >> = a
        BY SubSeqEmpty, ConcatEmptySeq DEF Batches
    <2>2. Weight(a, r) \in Int /\ Weight(<< >>, r) = 0
        BY WeightType, WeightOfNone
    <2>3. Weight(a \o part(0), r) = Weight(a, r) + Weight(part(0), r)
        <3> HIDE DEF part
        <3>1. Weight(a \o part(0), r) = Weight(a, r)
            BY <2>1
        <3>2. Weight(part(0), r) = 0
            BY <2>1, <2>2
        <3> QED
            BY <2>2, <3>1, <3>2
    <2>4. 0 \in 0 .. n
        BY <1>1
    <2> HIDE DEF part
    <2> QED
        BY <2>3, <2>4
<1>4. ASSUME NEW k \in 0 .. n - 1, k \in T
      PROVE  k + 1 \in T
    <2>1. k + 1 \in 1 .. n /\ k \in 0 .. n /\ (k + 1) - 1 = k /\ k + 1 \in 0 .. n
        BY <1>1
    <2> DEFINE e == b[k + 1]
               p == part(k)
               q == part(k + 1)
    <2>2. e \in Int \X Int /\ p \in Batches /\ q \in Batches
        BY <1>1, <1>2, <2>1
    <2>3. q = p \o <<e>>
        <3>1. 1 \in 1 .. n /\ k + 1 \in 1 .. n
            BY <1>1, <2>1
        <3>2. SubSeq(b, 1, k + 1) = SubSeq(b, 1, (k + 1) - 1) \o <<b[k + 1]>>
            BY <3>1, SubSeqRecursiveSecond DEF Batches
        <3> QED
            BY <2>1, <3>2
    <2>4. Weight(a \o p, r) = Weight(a, r) + Weight(p, r)
        BY <1>4
    <2> HIDE DEF e, p, q
    <2>5. a \o p \in Batches /\ <<e>> \in Batches
        BY <2>2, ConcatProperties, WeightOfOne DEF Batches
    <2>6. Append(p, e) = q /\ Append(a \o p, e) = a \o q
        <3>1. Append(p, e) = p \o <<e>> /\ Append(a \o p, e) = (a \o p) \o <<e>>
            BY <2>2, <2>5, AppendIsConcat DEF Batches
        <3>2. (a \o p) \o <<e>> = a \o (p \o <<e>>)
            <4> DEFINE one == <<e>>
            <4>1. a \in Batches /\ p \in Batches /\ one \in Batches
                BY <2>2, <2>5
            <4> DEFINE A == Int \X Int
            <4> HIDE DEF one
            <4>3. a \in Seq(A) /\ p \in Seq(A) /\ one \in Seq(A)
                BY <4>1 DEF Batches
            <4> HIDE DEF A
            <4>2. (a \o p) \o one = a \o (p \o one)
                BY <4>3, ConcatAssociative
            <4> QED
                BY <4>2 DEF one
        <3> QED
            BY <2>3, <3>1, <3>2
    <2>7. Weight(Append(p, e), r) = Weight(p, r) + WeightIn(e, r)
        BY <2>2, WeightAppend
    <2>8. Weight(Append(a \o p, e), r) = Weight(a \o p, r) + WeightIn(e, r)
        BY <2>2, <2>5, WeightAppend
    <2>9. Weight(a, r) \in Int /\ Weight(p, r) \in Int /\ WeightIn(e, r) \in Int
        BY <2>2, WeightType DEF WeightIn
    <2>10. Weight(a \o q, r) = Weight(a, r) + Weight(q, r)
        BY <2>4, <2>6, <2>7, <2>8, <2>9
    <2> QED
        BY <2>1, <2>10 DEF q
<1>5. n \in T
    <2> HIDE DEF T
    <2>1. \A k \in 0 .. n : k \in T
        BY <1>1, <1>3, <1>4, Upwards
    <2> QED
        BY <1>1, <2>1
<1>6. part(n) = b
    BY SubSeqFull DEF Batches
<1> QED
    BY <1>5, <1>6

\* What is left of a batch from a position on.
Rest(b, i) == SubSeq(b, i, Len(b))

LEMMA RestIs ==
    ASSUME NEW b \in Batches, NEW i \in 1 .. Len(b) + 1
    PROVE  /\ Rest(b, i) \in Batches
           /\ Len(Rest(b, i)) = Len(b) - i + 1
           /\ \A k \in 1 .. Len(b) - i + 1 : Rest(b, i)[k] = b[i + k - 1]
<1>1. Len(b) \in Nat /\ \A k \in i .. Len(b) : b[k] \in Int \X Int
    <2>1. Len(b) \in Nat /\ \A k \in 1 .. Len(b) : b[k] \in Int \X Int
        BY TermsAre
    <2> QED
        BY <2>1
<1>2. i \in Int /\ Len(b) \in Int
    BY <1>1
<1>3. /\ SubSeq(b, i, Len(b)) \in Seq(Int \X Int)
      /\ Len(SubSeq(b, i, Len(b))) = IF i <= Len(b) THEN Len(b) - i + 1 ELSE 0
      /\ \A k \in 1 .. Len(b) - i + 1 : SubSeq(b, i, Len(b))[k] = b[i + k - 1]
    BY <1>1, <1>2, SubSeqProperties
<1>4. (IF i <= Len(b) THEN Len(b) - i + 1 ELSE 0) = Len(b) - i + 1
    BY <1>1
<1> QED
    BY <1>3, <1>4 DEF Rest, Batches

LEMMA WeightRest ==
    ASSUME NEW b \in Batches, NEW i \in 1 .. Len(b), NEW r
    PROVE  Weight(Rest(b, i), r) = WeightIn(b[i], r) + Weight(Rest(b, i + 1), r)
<1>1. Len(b) \in Nat /\ b[i] \in Int \X Int
    BY TermsAre
<1>2. Len(b) \in i .. Len(b) /\ i + 1 \in 1 .. Len(b) + 1
    BY <1>1
<1>3. Rest(b, i) = <<b[i]>> \o Rest(b, i + 1)
    <2>1. SubSeq(b, i, Len(b)) = <<b[i]>> \o SubSeq(b, i + 1, Len(b))
        BY <1>2, SubSeqRecursiveFirst DEF Batches
    <2> QED
        BY <2>1 DEF Rest
<1>4. Rest(b, i + 1) \in Batches
    BY <1>2, RestIs
<1>5. <<b[i]>> \in Batches /\ Weight(<<b[i]>>, r) = WeightIn(b[i], r)
    BY <1>1, WeightOfOne
<1>6. Weight(<<b[i]>> \o Rest(b, i + 1), r) = Weight(<<b[i]>>, r) + Weight(Rest(b, i + 1), r)
    BY <1>4, <1>5, WeightConcat
<1> QED
    BY <1>3, <1>5, <1>6

(* Merging keeps the order and the weights *)

Ascends(b) == \A i, j \in DOMAIN b : i < j => b[i][1] < b[j][1]

\* All rows of the first batch come before the row.
Precedes(b, row) == \A i \in DOMAIN b : b[i][1] < row

\* A batch that is in order stays so when a later row is appended.
LEMMA AscendsOn ==
    ASSUME NEW b \in Batches, Ascends(b), NEW entry \in Int \X Int, Precedes(b, entry[1])
    PROVE  /\ b \o <<entry>> \in Batches /\ Ascends(b \o <<entry>>)
           /\ \A row \in Int : Precedes(b, row) /\ entry[1] < row => Precedes(b \o <<entry>>, row)
<1> DEFINE n == Len(b)
           c == b \o <<entry>>
<1>1. n \in Nat /\ DOMAIN b = 1 .. n /\ \A i \in 1 .. n : b[i] \in Int \X Int
    BY TermsAre
<1>2. c \in Batches /\ Len(c) = n + 1 /\ c[n + 1] = entry /\ \A i \in 1 .. n : c[i] = b[i]
    <2>1. c = Append(b, entry)
        BY AppendIsConcat DEF Batches
    <2> QED
        BY <2>1, AppendProperties DEF Batches
<1> HIDE DEF c, n
<1>3. DOMAIN c = 1 .. n + 1
    BY <1>1, <1>2 DEF Batches
<1>4. \A i \in 1 .. n + 1 : i = n + 1 \/ i \in 1 .. n
    BY <1>1
<1>5. Ascends(c)
    <2>1. ASSUME NEW i \in 1 .. n + 1, NEW j \in 1 .. n + 1, i < j
          PROVE  c[i][1] < c[j][1]
        <3>1. i \in 1 .. n
            BY <1>1, <2>1
        <3>2. CASE j \in 1 .. n
            BY <1>1, <1>2, <2>1, <3>1, <3>2 DEF Ascends
        <3>3. CASE j = n + 1
            BY <1>1, <1>2, <3>1, <3>3 DEF Precedes
        <3> QED
            BY <1>4, <3>2, <3>3
    <2> QED
        BY <1>3, <2>1 DEF Ascends
<1>6. ASSUME NEW row \in Int, Precedes(b, row), entry[1] < row
      PROVE  Precedes(c, row)
    BY <1>1, <1>2, <1>3, <1>4, <1>6 DEF Precedes
<1> QED
    BY <1>2, <1>5, <1>6 DEF c

\* What the loop of merge_batches keeps: what is merged is in order and
\* before what is left, and no row has lost weight.
InOrderSoFar(left, right, s) ==
    /\ s.i \in 1 .. Len(left) + 1 /\ s.j \in 1 .. Len(right) + 1
    /\ s.merged \in Batches /\ Ascends(s.merged)
    /\ \A i \in s.i .. Len(left) : Precedes(s.merged, left[i][1])
    /\ \A j \in s.j .. Len(right) : Precedes(s.merged, right[j][1])

WeighedSoFar(left, right, s, r) ==
    Weight(left, r) + Weight(right, r)
      = Weight(s.merged, r) + Weight(Rest(left, s.i), r) + Weight(Rest(right, s.j), r)

Ended(left, right, s) == s.i > Len(left) \/ s.j > Len(right)

\* What is before an entry of an ascending batch is before those after it.
LEMMA LaterIsMore ==
    ASSUME NEW b \in Batches, Ascends(b), NEW i \in 1 .. Len(b), NEW k \in i .. Len(b), NEW row \in Int,
           row <= b[i][1], k # i \/ row < b[i][1]
    PROVE  row < b[k][1]
<1>1. /\ Len(b) \in Nat /\ DOMAIN b = 1 .. Len(b)
      /\ \A j \in 1 .. Len(b) : b[j] \in Int \X Int
    BY TermsAre
<1>2. CASE k = i
    BY <1>2
<1>3. CASE k # i
    <2>1. k \in 1 .. Len(b) /\ i < k
        BY <1>1, <1>3
    <2>2. b[i][1] < b[k][1] /\ b[i][1] \in Int /\ b[k][1] \in Int
        BY <1>1, <2>1 DEF Ascends
    <2> QED
        BY <2>2
<1> QED
    BY <1>2, <1>3

\* Each turn takes from the left, from the right, or from both.
LEMMA TurnKeeps ==
    ASSUME NEW left \in Batches, Ascends(left), NEW right \in Batches, Ascends(right),
           NEW s \in Turns(left, right), InOrderSoFar(left, right, s),
           NEW t, t = MergeStep(left, right, s)
    PROVE  /\ InOrderSoFar(left, right, t)
           /\ \A r \in Int : WeighedSoFar(left, right, s, r) => WeighedSoFar(left, right, t, r)
           /\ Ended(left, right, s) => t = s
           /\ ~ Ended(left, right, s) => t.i + t.j >= s.i + s.j + 1
<1> DEFINE l == left[s.i]
           r == right[s.j]
           m == Len(left)
           n == Len(right)
<1>1. /\ m \in Nat /\ n \in Nat
      /\ \A i \in 1 .. m : left[i] \in Int \X Int
      /\ \A j \in 1 .. n : right[j] \in Int \X Int
    BY TermsAre
<1>2. /\ s.i \in 1 .. m + 1 /\ s.j \in 1 .. n + 1
      /\ s.merged \in Batches /\ Ascends(s.merged)
      /\ \A i \in s.i .. m : Precedes(s.merged, left[i][1])
      /\ \A j \in s.j .. n : Precedes(s.merged, right[j][1])
    BY DEF InOrderSoFar
<1>3. CASE Ended(left, right, s)
    <2>1. t = s
        BY <1>3 DEF MergeStep, Ended
    <2> QED
        BY <1>3, <2>1
<1>4. CASE ~ Ended(left, right, s)
    <2>1. s.i \in 1 .. m /\ s.j \in 1 .. n
        BY <1>1, <1>2, <1>4 DEF Ended
    <2>2. l \in Int \X Int /\ r \in Int \X Int /\ l[1] \in Int /\ r[1] \in Int /\ l[2] \in Int /\ r[2] \in Int
        BY <1>1, <2>1
    <2>3. Precedes(s.merged, l[1]) /\ Precedes(s.merged, r[1])
        <3>1. s.i \in s.i .. m /\ s.j \in s.j .. n
            BY <1>1, <2>1
        <3> HIDE DEF m, n
        <3> QED
            BY <1>2, <3>1
    <2>4. ASSUME NEW row \in Int
          PROVE  /\ Weight(Rest(left, s.i), row) = WeightIn(l, row) + Weight(Rest(left, s.i + 1), row)
                 /\ Weight(Rest(right, s.j), row) = WeightIn(r, row) + Weight(Rest(right, s.j + 1), row)
        BY <2>1, WeightRest
    <2>5. ASSUME NEW row \in Int
          PROVE  /\ Weight(left, row) \in Int /\ Weight(right, row) \in Int /\ Weight(s.merged, row) \in Int
                 /\ WeightIn(l, row) \in Int /\ WeightIn(r, row) \in Int
                 /\ Weight(Rest(left, s.i), row) \in Int /\ Weight(Rest(left, s.i + 1), row) \in Int
                 /\ Weight(Rest(right, s.j), row) \in Int /\ Weight(Rest(right, s.j + 1), row) \in Int
        <3>1. /\ s.i \in 1 .. Len(left) + 1 /\ s.i + 1 \in 1 .. Len(left) + 1
              /\ s.j \in 1 .. Len(right) + 1 /\ s.j + 1 \in 1 .. Len(right) + 1
            BY <1>1, <2>1
        <3>2. /\ Rest(left, s.i) \in Batches /\ Rest(left, s.i + 1) \in Batches
              /\ Rest(right, s.j) \in Batches /\ Rest(right, s.j + 1) \in Batches
            BY <3>1, RestIs
        <3>3. WeightIn(l, row) \in Int /\ WeightIn(r, row) \in Int
            BY <2>2 DEF WeightIn
        <3> QED
            BY <1>2, <3>2, <3>3, WeightType
    <2>6. /\ \A k \in s.i .. m : left[k] \in Int \X Int
          /\ \A k \in s.j .. n : right[k] \in Int \X Int
        BY <1>1, <2>1
    <2>7. ASSUME NEW e \in Int \X Int, Precedes(s.merged, e[1])
          PROVE  /\ s.merged \o <<e>> \in Batches /\ Ascends(s.merged \o <<e>>)
                 /\ \A row \in Int : Precedes(s.merged, row) /\ e[1] < row => Precedes(s.merged \o <<e>>, row)
                 /\ \A row \in Int : Weight(s.merged \o <<e>>, row) = Weight(s.merged, row) + WeightIn(e, row)
        <3>1. <<e>> \in Batches /\ \A row \in Int : Weight(<<e>>, row) = WeightIn(e, row)
            BY WeightOfOne
        <3>2. \A row \in Int : Weight(s.merged \o <<e>>, row) = Weight(s.merged, row) + Weight(<<e>>, row)
            BY <1>2, <3>1, WeightConcat
        <3> QED
            BY <1>2, <2>7, <3>1, <3>2, AscendsOn
    <2>8. ASSUME NEW i, NEW j, NEW e \in Int \X Int,
                 Precedes(s.merged, e[1]),
                 t = [i |-> i, j |-> j, merged |-> s.merged \o <<e>>],
                 i \in {s.i, s.i + 1}, j \in {s.j, s.j + 1},
                 \A k \in i .. m : e[1] < left[k][1],
                 \A k \in j .. n : e[1] < right[k][1]
          PROVE  InOrderSoFar(left, right, t)
        <3>1. /\ t.i = i /\ t.j = j /\ t.merged = s.merged \o <<e>>
            BY <2>8
        <3>2. i \in 1 .. m + 1 /\ j \in 1 .. n + 1
            BY <1>1, <2>1, <2>8
        <3>3. t.merged \in Batches /\ Ascends(t.merged)
            BY <2>7, <2>8, <3>1
        <3>4. ASSUME NEW k \in i .. m
              PROVE  Precedes(t.merged, left[k][1])
            <4>1. k \in s.i .. m
                BY <1>1, <2>1, <2>8
            <4>2. Precedes(s.merged, left[k][1]) /\ left[k][1] \in Int
                BY <1>2, <2>6, <4>1
            <4> QED
                BY <2>7, <2>8, <3>1, <4>2
        <3>5. ASSUME NEW k \in j .. n
              PROVE  Precedes(t.merged, right[k][1])
            <4>1. k \in s.j .. n
                BY <1>1, <2>1, <2>8
            <4>2. Precedes(s.merged, right[k][1]) /\ right[k][1] \in Int
                BY <1>2, <2>6, <4>1
            <4> QED
                BY <2>7, <2>8, <3>1, <4>2
        <3> QED
            BY <3>1, <3>2, <3>3, <3>4, <3>5 DEF InOrderSoFar
    <2>9. CASE l[1] < r[1]
        <3>1. t = [i |-> s.i + 1, j |-> s.j, merged |-> s.merged \o <<l>>]
            BY <1>4, <2>9 DEF MergeStep, Ended
        <3>2. ASSUME NEW k \in s.i + 1 .. m
              PROVE  l[1] < left[k][1]
            <4>1. k \in s.i .. Len(left) /\ k # s.i /\ l[1] <= left[s.i][1]
                BY <1>1, <2>1, <2>2
            <4> QED
                BY <2>1, <2>2, <4>1, LaterIsMore
        <3>3. ASSUME NEW k \in s.j .. n
              PROVE  l[1] < right[k][1]
            <4>1. l[1] <= right[s.j][1] /\ l[1] < right[s.j][1]
                BY <2>2, <2>9
            <4> QED
                BY <2>1, <2>2, <4>1, LaterIsMore
        <3>4. InOrderSoFar(left, right, t)
            <4> HIDE DEF l, r
            <4> QED
                BY <2>2, <2>3, <2>8, <3>1, <3>2, <3>3
        <3>5. ASSUME NEW row \in Int, WeighedSoFar(left, right, s, row)
              PROVE  WeighedSoFar(left, right, t, row)
            <4>1. t.i = s.i + 1 /\ t.j = s.j /\ t.merged = s.merged \o <<l>>
                BY <3>1
            <4>2. Weight(t.merged, row) = Weight(s.merged, row) + WeightIn(l, row)
                BY <2>2, <2>3, <2>7, <4>1
            <4> QED
                BY <2>4, <2>5, <3>5, <4>1, <4>2 DEF WeighedSoFar
        <3>6. t.i + t.j >= s.i + s.j + 1
            BY <2>1, <3>1
        <3> QED
            BY <1>4, <3>4, <3>5, <3>6
    <2>10. CASE l[1] > r[1]
        <3>1. t = [i |-> s.i, j |-> s.j + 1, merged |-> s.merged \o <<r>>]
            BY <1>4, <2>2, <2>10 DEF MergeStep, Ended
        <3>2. ASSUME NEW k \in s.j + 1 .. n
              PROVE  r[1] < right[k][1]
            <4>1. k \in s.j .. Len(right) /\ k # s.j /\ r[1] <= right[s.j][1]
                BY <1>1, <2>1, <2>2
            <4> QED
                BY <2>1, <2>2, <4>1, LaterIsMore
        <3>3. ASSUME NEW k \in s.i .. m
              PROVE  r[1] < left[k][1]
            <4>1. r[1] <= left[s.i][1] /\ r[1] < left[s.i][1]
                BY <2>2, <2>10
            <4> QED
                BY <2>1, <2>2, <4>1, LaterIsMore
        <3>4. InOrderSoFar(left, right, t)
            <4> HIDE DEF l, r
            <4> QED
                BY <2>2, <2>3, <2>8, <3>1, <3>2, <3>3
        <3>5. ASSUME NEW row \in Int, WeighedSoFar(left, right, s, row)
              PROVE  WeighedSoFar(left, right, t, row)
            <4>1. t.i = s.i /\ t.j = s.j + 1 /\ t.merged = s.merged \o <<r>>
                BY <3>1
            <4>2. Weight(t.merged, row) = Weight(s.merged, row) + WeightIn(r, row)
                BY <2>2, <2>3, <2>7, <4>1
            <4> HIDE DEF l, r
            <4>3. Weight(Rest(right, s.j), row) = WeightIn(r, row) + Weight(Rest(right, s.j + 1), row)
                BY <2>4
            <4>4. Weight(left, row) + Weight(right, row)
                    = Weight(s.merged, row) + Weight(Rest(left, s.i), row) + Weight(Rest(right, s.j), row)
                BY <3>5 DEF WeighedSoFar
            <4>5. Weight(left, row) + Weight(right, row)
                    = Weight(t.merged, row) + Weight(Rest(left, s.i), row) + Weight(Rest(right, s.j + 1), row)
                BY <2>5, <4>2, <4>3, <4>4
            <4> QED
                BY <4>1, <4>5 DEF WeighedSoFar
        <3>6. t.i + t.j >= s.i + s.j + 1
            BY <2>1, <3>1
        <3> QED
            BY <1>4, <3>4, <3>5, <3>6
    <2>11. CASE l[1] = r[1]
        <3> DEFINE e == <<l[1], l[2] + r[2]>>
        <3>1. t = [i |-> s.i + 1, j |-> s.j + 1,
                   merged |-> s.merged \o (IF l[2] + r[2] # 0 THEN <<e>> ELSE << >>)]
            BY <1>4, <2>2, <2>11 DEF MergeStep, Ended
        <3>2. ASSUME NEW k \in s.i + 1 .. m
              PROVE  l[1] < left[k][1]
            <4>1. k \in s.i .. Len(left) /\ k # s.i /\ l[1] <= left[s.i][1]
                BY <1>1, <2>1, <2>2
            <4> QED
                BY <2>1, <2>2, <4>1, LaterIsMore
        <3>3. ASSUME NEW k \in s.j + 1 .. n
              PROVE  l[1] < right[k][1]
            <4>1. k \in s.j .. Len(right) /\ k # s.j /\ l[1] <= right[s.j][1]
                BY <1>1, <2>1, <2>2, <2>11
            <4> QED
                BY <2>1, <2>2, <4>1, LaterIsMore
        <3>4. e \in Int \X Int /\ e[1] = l[1] /\ e[2] = l[2] + r[2]
            BY <2>2
        <3>5. \A row \in Int : WeightIn(e, row) = WeightIn(l, row) + WeightIn(r, row)
            BY <2>2, <2>11, <3>4 DEF WeightIn
        <3> HIDE DEF l, r, e
        <3>6. t.i = s.i + 1 /\ t.j = s.j + 1
            BY <3>1
        <3>7. InOrderSoFar(left, right, t) /\ \A row \in Int : Weight(t.merged, row) = Weight(s.merged, row) + WeightIn(e, row)
            <4>1. CASE l[2] + r[2] # 0
                <5>1. t = [i |-> s.i + 1, j |-> s.j + 1, merged |-> s.merged \o <<e>>]
                    BY <3>1, <4>1
                <5>2. t.merged = s.merged \o <<e>>
                    BY <5>1
                <5>3. InOrderSoFar(left, right, t)
                    BY <2>3, <2>8, <3>2, <3>3, <3>4, <5>1
                <5> QED
                    BY <2>3, <2>7, <3>4, <5>2, <5>3
            <4>2. CASE l[2] + r[2] = 0
                <5>1. t.merged = s.merged
                    <6>1. s.merged \o << >> = s.merged
                        BY <1>2, ConcatEmptySeq DEF Batches
                    <6> QED
                        BY <3>1, <4>2, <6>1
                <5>2. \A row \in Int : WeightIn(e, row) = 0
                    BY <3>4, <4>2 DEF WeightIn
                <5>3. s.i + 1 \in 1 .. m + 1 /\ s.j + 1 \in 1 .. n + 1
                    BY <1>1, <2>1
                <5>4. /\ \A k \in s.i + 1 .. m : k \in s.i .. m
                      /\ \A k \in s.j + 1 .. n : k \in s.j .. n
                    BY <1>1, <2>1
                <5>5. InOrderSoFar(left, right, t)
                    BY <1>2, <3>6, <5>1, <5>3, <5>4 DEF InOrderSoFar
                <5> QED
                    BY <2>5, <5>1, <5>2, <5>5
            <4> QED
                BY <4>1, <4>2
        <3>8. ASSUME NEW row \in Int, WeighedSoFar(left, right, s, row)
              PROVE  WeighedSoFar(left, right, t, row)
            <4>1. Weight(t.merged, row) = Weight(s.merged, row) + WeightIn(l, row) + WeightIn(r, row)
                BY <2>5, <3>5, <3>7
            <4> QED
                BY <2>4, <2>5, <3>6, <3>8, <4>1 DEF WeighedSoFar
        <3>9. t.i + t.j >= s.i + s.j + 1
            BY <2>1, <3>6
        <3> QED
            BY <1>4, <3>7, <3>8, <3>9
    <2> QED
        BY <2>2, <2>9, <2>10, <2>11
<1> QED
    BY <1>3, <1>4

\* Two batches in order are merged to one in order, in which every row has
\* the weight it had in both together.
LEMMA MergeBatchesIs ==
    ASSUME NEW left \in Batches, Ascends(left), NEW right \in Batches, Ascends(right)
    PROVE  /\ MergeBatches(left, right) \in Batches /\ Ascends(MergeBatches(left, right))
           /\ \A r \in Int : Weight(MergeBatches(left, right), r) = Weight(left, r) + Weight(right, r)
<1> DEFINE m == Len(left)
           n == Len(right)
           loop == Merging(left, right)
           end == loop[m + n]
           Well(s) == /\ InOrderSoFar(left, right, s)
                      /\ \A r \in Int : WeighedSoFar(left, right, s, r)
           Far(s, k) == Ended(left, right, s) \/ s.i + s.j >= k + 2
           T == {k \in 0 .. m + n : Well(loop[k]) /\ Far(loop[k], k)}
<1>1. m \in Nat /\ n \in Nat
    BY TermsAre
<1>2. /\ loop \in [Nat -> Turns(left, right)]
      /\ loop[0] = [i |-> 1, j |-> 1, merged |-> << >>]
      /\ \A k \in Nat : loop[k + 1] = MergeStep(left, right, loop[k])
    BY MergingIs
<1> HIDE DEF loop
<1>3. 0 \in T
    <2> DEFINE s == loop[0]
    <2>1. s.i = 1 /\ s.j = 1 /\ s.merged = << >>
        BY <1>2
    <2> HIDE DEF s
    <2>2. << >> \in Batches /\ Ascends(<< >>) /\ \A row \in Int : Precedes(<< >>, row)
        BY DEF Batches, Ascends, Precedes
    <2>3. /\ \A i \in 1 .. m : left[i][1] \in Int
          /\ \A j \in 1 .. n : right[j][1] \in Int
        BY DEF Batches
    <2>4. 1 \in 1 .. m + 1 /\ 1 \in 1 .. n + 1
        BY <1>1
    <2>5. InOrderSoFar(left, right, s)
        BY <2>1, <2>2, <2>3, <2>4 DEF InOrderSoFar
    <2>6. ASSUME NEW r \in Int
          PROVE  WeighedSoFar(left, right, s, r)
        <3>1. Rest(left, 1) = left /\ Rest(right, 1) = right
            BY SubSeqFull DEF Rest, Batches
        <3>2. Weight(<< >>, r) = 0 /\ Weight(left, r) \in Int /\ Weight(right, r) \in Int
            BY WeightOfNone, WeightType
        <3>3. Weight(s.merged, r) = 0 /\ Rest(left, s.i) = left /\ Rest(right, s.j) = right
            BY <2>1, <3>1, <3>2
        <3> QED
            BY <3>2, <3>3 DEF WeighedSoFar
    <2>7. Far(s, 0) /\ 0 \in 0 .. m + n
        BY <1>1, <2>1
    <2> QED
        BY <2>5, <2>6, <2>7 DEF s
<1>4. ASSUME NEW k \in 0 .. m + n - 1, k \in T
      PROVE  k + 1 \in T
    <2> DEFINE s == loop[k]
               t == loop[k + 1]
    <2>1. k \in Nat /\ k + 1 \in 0 .. m + n
        BY <1>1
    <2>2. s \in Turns(left, right) /\ t = MergeStep(left, right, s)
        BY <1>2, <2>1
    <2>3. InOrderSoFar(left, right, s) /\ (\A r \in Int : WeighedSoFar(left, right, s, r)) /\ Far(s, k)
        BY <1>4
    <2> HIDE DEF s, t
    <2>4. /\ InOrderSoFar(left, right, t)
          /\ \A r \in Int : WeighedSoFar(left, right, s, r) => WeighedSoFar(left, right, t, r)
          /\ Ended(left, right, s) => t = s
          /\ ~ Ended(left, right, s) => t.i + t.j >= s.i + s.j + 1
        BY <2>2, <2>3, TurnKeeps
    <2>5. Far(t, k + 1)
        <3>1. s.i \in Int /\ s.j \in Int /\ t.i \in Int /\ t.j \in Int
            BY <2>3, <2>4 DEF InOrderSoFar
        <3> QED
            BY <2>1, <2>3, <2>4, <3>1
    <2> HIDE DEF Far
    <2> QED
        BY <2>1, <2>3, <2>4, <2>5 DEF t
<1>5. m + n \in T
    <2> HIDE DEF T
    <2>1. m + n \in Nat /\ m + n \in 0 .. m + n
        BY <1>1
    <2>2. \A k \in 0 .. m + n : k \in T
        BY <1>3, <1>4, <2>1, Upwards
    <2> QED
        BY <2>1, <2>2
<1>6. Well(end) /\ Far(end, m + n)
    BY <1>5
<1> HIDE DEF end
<1>7. /\ end.i \in 1 .. m + 1 /\ end.j \in 1 .. n + 1
      /\ end.merged \in Batches /\ Ascends(end.merged)
      /\ \A i \in end.i .. m : Precedes(end.merged, left[i][1])
      /\ \A j \in end.j .. n : Precedes(end.merged, right[j][1])
    BY <1>6 DEF InOrderSoFar
<1>8. end.i = m + 1 \/ end.j = n + 1
    BY <1>1, <1>6, <1>7 DEF Ended
<1> DEFINE a == Rest(left, end.i)
           b == Rest(right, end.j)
<1>9. /\ a \in Batches /\ Len(a) = m - end.i + 1
      /\ \A k \in 1 .. m - end.i + 1 : a[k] = left[end.i + k - 1]
      /\ b \in Batches /\ Len(b) = n - end.j + 1
      /\ \A k \in 1 .. n - end.j + 1 : b[k] = right[end.j + k - 1]
    BY <1>7, RestIs
<1>10. MergeBatches(left, right) = (end.merged \o a) \o b
    BY DEF MergeBatches, Rest, end, loop
<1>11. end.merged \o a \in Batches /\ (end.merged \o a) \o b \in Batches
    <2> HIDE DEF a, b
    <2>1. end.merged \o a \in Batches
        BY <1>7, <1>9, ConcatProperties DEF Batches
    <2> QED
        BY <1>9, <2>1, ConcatProperties DEF Batches
<1>12. ASSUME NEW r \in Int
       PROVE  Weight(MergeBatches(left, right), r) = Weight(left, r) + Weight(right, r)
    <2>1. Weight(left, r) + Weight(right, r) = Weight(end.merged, r) + Weight(a, r) + Weight(b, r)
        BY <1>6 DEF WeighedSoFar
    <2> HIDE DEF a, b
    <2>2. Weight(end.merged \o a, r) = Weight(end.merged, r) + Weight(a, r)
        BY <1>7, <1>9, WeightConcat
    <2>3. Weight((end.merged \o a) \o b, r) = Weight(end.merged \o a, r) + Weight(b, r)
        BY <1>9, <1>11, WeightConcat
    <2> QED
        BY <1>10, <2>1, <2>2, <2>3
<1>13. ASSUME NEW c \in Batches, NEW rest \in Batches, NEW whole \in Batches, Ascends(c), Ascends(whole),
              NEW i \in 1 .. Len(whole) + 1, Len(rest) = Len(whole) - i + 1,
              \A k \in 1 .. Len(whole) - i + 1 : rest[k] = whole[i + k - 1],
              \A k \in i .. Len(whole) : Precedes(c, whole[k][1])
       PROVE  Ascends(c \o rest)
    <2> DEFINE d == c \o rest
               p == Len(c)
               q == Len(rest)
    <2>1. p \in Nat /\ q \in Nat /\ DOMAIN c = 1 .. p /\ Len(whole) \in Nat /\ DOMAIN whole = 1 .. Len(whole)
        BY TermsAre
    <2>2. /\ Len(d) = p + q /\ d \in Batches
          /\ \A k \in 1 .. p + q : d[k] = IF k <= p THEN c[k] ELSE rest[k - p]
        BY ConcatProperties DEF Batches
    <2> HIDE DEF d, p, q
    <2>3. DOMAIN d = 1 .. p + q
        BY <2>2 DEF Batches
    <2>4. \A k \in 1 .. p + q : \/ k \in 1 .. p /\ d[k] = c[k]
                                \/ k \notin 1 .. p /\ k - p \in 1 .. q /\ d[k] = rest[k - p]
        BY <2>1, <2>2
    <2>5. \A k \in 1 .. q : i + k - 1 \in i .. Len(whole) /\ i + k - 1 \in 1 .. Len(whole) /\ rest[k] = whole[i + k - 1]
        BY <1>13, <2>1 DEF q
    <2>6. ASSUME NEW j \in 1 .. p + q, NEW k \in 1 .. p + q, j < k
          PROVE  d[j][1] < d[k][1]
        <3>1. CASE k \in 1 .. p
            <4>1. j \in 1 .. p
                BY <2>1, <2>6, <3>1
            <4>2. d[j] = c[j] /\ d[k] = c[k]
                BY <2>4, <3>1, <4>1
            <4> QED
                BY <1>13, <2>1, <2>6, <3>1, <4>1, <4>2 DEF Ascends
        <3>2. CASE k \notin 1 .. p
            <4>1. k - p \in 1 .. q /\ d[k] = whole[i + (k - p) - 1] /\ i + (k - p) - 1 \in i .. Len(whole)
                  /\ i + (k - p) - 1 \in 1 .. Len(whole)
                BY <2>4, <2>5, <3>2
            <4>2. CASE j \in 1 .. p
                <5>1. d[j] = c[j] /\ Precedes(c, d[k][1])
                    BY <1>13, <2>4, <4>1, <4>2
                <5> QED
                    BY <2>1, <4>2, <5>1 DEF Precedes
            <4>3. CASE j \notin 1 .. p
                <5>1. j - p \in 1 .. q /\ d[j] = whole[i + (j - p) - 1] /\ i + (j - p) - 1 \in 1 .. Len(whole)
                    BY <2>4, <2>5, <4>3
                <5>2. i + (j - p) - 1 < i + (k - p) - 1
                    BY <2>1, <2>6
                <5> QED
                    BY <1>13, <2>1, <4>1, <5>1, <5>2 DEF Ascends
            <4> QED
                BY <4>2, <4>3
        <3> QED
            BY <3>1, <3>2
    <2> QED
        BY <2>3, <2>6 DEF Ascends, d
<1>14. Ascends((end.merged \o a) \o b)
    <2>1. CASE end.i = m + 1
        <3>1. a = << >>
            BY <1>1, <2>1, SubSeqEmpty DEF Rest
        <3>2. end.merged \o a = end.merged
            BY <1>7, <3>1, ConcatEmptySeq DEF Batches
        <3> HIDE DEF a, b
        <3>3. Ascends(end.merged \o b)
            BY <1>7, <1>9, <1>13
        <3> QED
            BY <3>2, <3>3
    <2>2. CASE end.j = n + 1
        <3>1. b = << >>
            BY <1>1, <2>2, SubSeqEmpty DEF Rest
        <3>2. (end.merged \o a) \o b = end.merged \o a
            BY <1>11, <3>1, ConcatEmptySeq DEF Batches
        <3> HIDE DEF a, b
        <3>3. Ascends(end.merged \o a)
            BY <1>7, <1>9, <1>13
        <3> QED
            BY <3>2, <3>3
    <2> QED
        BY <1>8, <2>1, <2>2
<1> QED
    BY <1>10, <1>11, <1>12, <1>14

-----------------------------------------------------------------------------
(* Consolidating: the weights of all batches, and the rows kept *)

Halves(k) == (k + 1) \div 2

LEMMA HalvesAre ==
    ASSUME NEW k \in Nat
    PROVE  Halves(k) \in Nat /\ 2 * Halves(k) >= k /\ 2 * Halves(k) <= k + 1
BY Z3 DEF Halves

\* Numbers added in pairs, the last one by itself if they are odd.
LEMMA SumOfPairs ==
    ASSUME NEW n \in Nat, NEW f \in [1 .. n -> Int]
    PROVE  SumFunction([i \in 1 .. Halves(n) |-> IF 2 * i <= n THEN f[2 * i - 1] + f[2 * i] ELSE f[2 * i - 1]])
             = SumFunction(f)
<1> DEFINE paired(k, i) == IF 2 * i <= k THEN f[2 * i - 1] + f[2 * i] ELSE f[2 * i - 1]
           pairs(k) == [i \in 1 .. Halves(k) |-> paired(k, i)]
           upto(k) == [i \in 1 .. k |-> f[i]]
           T == {k \in 0 .. n : SumFunction(pairs(k)) = SumFunction(upto(k))}
<1>1. ASSUME NEW k \in 0 .. n
      PROVE  /\ \A i \in 1 .. Halves(k) : paired(k, i) \in Int
             /\ pairs(k) \in Seq(Int) /\ Len(pairs(k)) = Halves(k) /\ DOMAIN pairs(k) = 1 .. Halves(k)
             /\ pairs(k) \in [1 .. Halves(k) -> Int]
             /\ upto(k) \in Seq(Int) /\ Len(upto(k)) = k /\ DOMAIN upto(k) = 1 .. k
             /\ k \in Nat /\ Halves(k) \in Nat /\ 2 * Halves(k) >= k /\ 2 * Halves(k) <= k + 1
    <2>0. k \in Nat
        OBVIOUS
    <2>1. Halves(k) \in Nat /\ 2 * Halves(k) >= k /\ 2 * Halves(k) <= k + 1 /\ k \in Nat
        BY <2>0, HalvesAre
    <2>2. \A i \in 1 .. Halves(k) : 2 * i - 1 \in 1 .. n /\ (2 * i <= k => 2 * i \in 1 .. n)
        BY <2>1
    <2>3. \A i \in 1 .. Halves(k) : paired(k, i) \in Int
        BY <2>2
    <2>4. \A i \in 1 .. k : f[i] \in Int
        OBVIOUS
    <2> HIDE DEF paired
    <2> QED
        BY <2>1, <2>3, <2>4
<1>2. 0 \in T
    <2>1. 0 \in 0 .. n
        OBVIOUS
    <2>2. Halves(0) = 0
        <3>1. 0 \in Nat
            OBVIOUS
        <3>2. Halves(0) \in Nat /\ 2 * Halves(0) <= 0 + 1
            BY <3>1, HalvesAre
        <3> QED
            BY <3>2
    <2>3. pairs(0) = << >> /\ upto(0) = << >>
        BY <2>2
    <2> HIDE DEF pairs, upto
    <2> QED
        BY <2>1, <2>3
<1>3. ASSUME NEW k \in 0 .. n - 1, k \in T
      PROVE  k + 1 \in T
    <2>1. k \in 0 .. n /\ k + 1 \in 0 .. n /\ k + 1 \in 1 .. n
        OBVIOUS
    <2>2. f[k + 1] \in Int
        BY <2>1
    <2>3. SumFunction(upto(k + 1)) = SumFunction(upto(k)) + f[k + 1]
        <3>1. upto(k + 1) = Append(upto(k), f[k + 1])
            BY <2>1, <2>2
        <3>2. upto(k) \in Seq(Int)
            BY <1>1, <2>1
        <3> HIDE DEF upto
        <3>3. SumFunction(Append(upto(k), f[k + 1])) = SumFunction(upto(k)) + f[k + 1]
            BY <2>2, <3>2, SumAppend
        <3> QED
            BY <3>1, <3>3
    <2> DEFINE q == Halves(k)
    <2>4. q \in Nat /\ 2 * q >= k /\ 2 * q <= k + 1 /\ k \in Nat
        BY <1>1, <2>1
    <2>5. Halves(k + 1) \in Nat /\ 2 * Halves(k + 1) >= k + 1 /\ 2 * Halves(k + 1) <= k + 2
        <3>1. k + 1 \in Nat
            BY <2>4
        <3>2. Halves(k + 1) \in Nat /\ 2 * Halves(k + 1) >= k + 1 /\ 2 * Halves(k + 1) <= (k + 1) + 1
            BY <3>1, HalvesAre
        <3> QED
            BY <2>4, <3>2
    <2>6. /\ pairs(k) \in Seq(Int) /\ Len(pairs(k)) = q /\ pairs(k) \in [1 .. q -> Int]
          /\ \A i \in 1 .. q : pairs(k)[i] = paired(k, i)
        BY <1>1, <2>1
    <2>7. /\ pairs(k + 1) \in Seq(Int) /\ pairs(k + 1) \in [1 .. Halves(k + 1) -> Int]
          /\ \A i \in 1 .. Halves(k + 1) : pairs(k + 1)[i] = paired(k + 1, i)
        BY <1>1, <2>1
    <2>8. SumFunction(pairs(k + 1)) = SumFunction(pairs(k)) + f[k + 1]
        <3>1. CASE 2 * q = k
            <4>1. Halves(k + 1) = q + 1
                BY <2>4, <2>5, <3>1
            <4>2. paired(k + 1, q + 1) = f[k + 1]
                <5>1. ~ (2 * (q + 1) <= k + 1) /\ 2 * (q + 1) - 1 = k + 1
                    BY <2>4, <3>1
                <5> QED
                    BY <5>1
            <4>3. ASSUME NEW i \in 1 .. q
                  PROVE  paired(k + 1, i) = paired(k, i)
                <5>1. 2 * i <= k /\ 2 * i <= k + 1
                    BY <2>4, <3>1
                <5> QED
                    BY <5>1
            <4> HIDE DEF paired, q
            <4>4. \A i \in 1 .. q + 1 : i = q + 1 \/ i \in 1 .. q
                BY <2>4
            <4>5. pairs(k + 1) = [i \in 1 .. q + 1 |-> paired(k + 1, i)]
                BY <4>1
            <4>6. pairs(k) = [i \in 1 .. q |-> paired(k, i)]
                BY DEF q
            <4>7. Append(pairs(k), f[k + 1]) = [i \in 1 .. q + 1 |-> IF i = q + 1 THEN f[k + 1] ELSE pairs(k)[i]]
                <5> HIDE DEF pairs
                <5> QED
                    BY <2>2, <2>4, <2>6
            <4>8. pairs(k + 1) = Append(pairs(k), f[k + 1])
                <5>1. ASSUME NEW i \in 1 .. q + 1
                      PROVE  paired(k + 1, i) = IF i = q + 1 THEN f[k + 1] ELSE pairs(k)[i]
                    <6>1. CASE i = q + 1
                        BY <4>2, <6>1
                    <6>2. CASE i # q + 1
                        <7>1. i \in 1 .. q
                            BY <4>4, <6>2
                        <7> HIDE DEF pairs
                        <7> QED
                            BY <2>6, <4>3, <6>2, <7>1
                    <6> QED
                        BY <6>1, <6>2
                <5> HIDE DEF pairs
                <5> QED
                    BY <4>5, <4>7, <5>1
            <4> HIDE DEF pairs
            <4>9. SumFunction(Append(pairs(k), f[k + 1])) = SumFunction(pairs(k)) + f[k + 1]
                BY <2>2, <2>6, SumAppend
            <4> QED
                BY <4>8, <4>9
        <3>2. CASE 2 * q = k + 1
            <4>1. Halves(k + 1) = q
                BY <2>4, <2>5, <3>2
            <4>2. q \in 1 .. q /\ paired(k, q) = f[k] /\ paired(k + 1, q) = f[k] + f[k + 1]
                <5>0. k \in Nat /\ q \in Nat /\ 2 * q = k + 1
                    BY <2>4, <3>2
                <5> HIDE DEF q
                <5>1. /\ q \in 1 .. q /\ ~ (2 * q <= k) /\ 2 * q - 1 = k /\ 2 * q = k + 1 /\ 2 * q <= k + 1
                    BY <5>0
                <5> QED
                    BY <5>1
            <4>3. ASSUME NEW i \in 1 .. q, i # q
                  PROVE  paired(k + 1, i) = paired(k, i)
                <5>1. 2 * i <= k /\ 2 * i <= k + 1
                    BY <2>4, <3>2, <4>3
                <5> QED
                    BY <5>1
            <4>4. f[k] \in Int
                BY <2>4, <3>2, <4>2
            <4> HIDE DEF paired, q, pairs
            <4>5. \A i \in 1 .. q \ {q} : pairs(k + 1)[i] = pairs(k)[i]
                BY <2>6, <2>7, <4>1, <4>3
            <4>6. pairs(k)[q] = f[k] /\ pairs(k + 1)[q] = f[k] + f[k + 1]
                BY <2>6, <2>7, <4>1, <4>2
            <4>7. IsFiniteSet(1 .. q)
                BY <2>4, FS_Interval
            <4>8. pairs(k) \in [1 .. q -> Int] /\ pairs(k + 1) \in [1 .. q -> Int] /\ q \in 1 .. q
                BY <2>6, <2>7, <4>1, <4>2
            <4>9. SumFunction(pairs(k + 1)) = SumFunction(pairs(k)) - pairs(k)[q] + pairs(k + 1)[q]
                BY <4>5, <4>7, <4>8, SumChange
            <4>10. SumFunction(pairs(k)) \in Int
                BY <4>7, <4>8, SumType
            <4>11. SumFunction(pairs(k + 1)) = SumFunction(pairs(k)) - f[k] + (f[k] + f[k + 1])
                BY <4>6, <4>9
            <4> DEFINE a == SumFunction(pairs(k))
                       b == f[k]
                       c == f[k + 1]
            <4>12. /\ a \in Int /\ b \in Int /\ c \in Int
                   /\ SumFunction(pairs(k + 1)) = a - b + (b + c)
                BY <2>2, <4>4, <4>10, <4>11
            <4> HIDE DEF a, b, c
            <4>13. a - b + (b + c) = a + c
                BY <4>12
            <4> QED
                BY <4>12, <4>13 DEF a, c
        <3>3. 2 * q = k \/ 2 * q = k + 1
            <4> HIDE DEF q
            <4> QED
                BY <2>4
        <3> HIDE DEF q, pairs
        <3> QED
            BY <3>1, <3>2, <3>3
    <2> HIDE DEF pairs, upto
    <2> QED
        BY <1>3, <2>1, <2>3, <2>8
<1>4. n \in T
    <2> HIDE DEF T
    <2>1. \A k \in 0 .. n - 1 : k \in T => k + 1 \in T
        BY <1>3
    <2>2. \A k \in 0 .. n : k \in T
        BY <1>2, <2>1, Upwards
    <2>3. n \in 0 .. n
        OBVIOUS
    <2> QED
        BY <2>2, <2>3
<1>5. upto(n) = f
    OBVIOUS
<1> HIDE DEF upto
<1> QED
    BY <1>4, <1>5

\* What a row weighs in several batches together.
TotalWeight(bs, r) == SumFunction([i \in DOMAIN bs |-> Weight(bs[i], r)])

AllAscend(bs) == \A i \in DOMAIN bs : Ascends(bs[i])

\* A pass halves the number of batches.
LEMMA MergePairsIs ==
    ASSUME NEW bs \in Seq(Batches), AllAscend(bs)
    PROVE  /\ MergePairs(bs) \in Seq(Batches) /\ AllAscend(MergePairs(bs))
           /\ 2 * Len(MergePairs(bs)) <= Len(bs) + 1
           /\ \A r \in Int : TotalWeight(MergePairs(bs), r) = TotalWeight(bs, r)
<1> DEFINE n == Len(bs)
           h == Halves(n)
           ms == MergePairs(bs)
<1>1. n \in Nat /\ DOMAIN bs = 1 .. n /\ \A i \in 1 .. n : bs[i] \in Batches /\ Ascends(bs[i])
    BY DEF AllAscend
<1>2. h \in Nat /\ 2 * h >= n /\ 2 * h <= n + 1
    BY <1>1, HalvesAre
<1>3. ms = [i \in 1 .. h |-> IF 2 * i <= n THEN MergeBatches(bs[2 * i - 1], bs[2 * i]) ELSE bs[2 * i - 1]]
    BY DEF MergePairs, Halves
<1> HIDE DEF ms, h
<1>4. \A i \in 1 .. h : 2 * i - 1 \in 1 .. n /\ (2 * i <= n => 2 * i \in 1 .. n)
    BY <1>1, <1>2
<1> HIDE DEF n
<1>5. ASSUME NEW i \in 1 .. h
      PROVE  /\ ms[i] \in Batches /\ Ascends(ms[i])
             /\ \A r \in Int : Weight(ms[i], r) = IF 2 * i <= n THEN Weight(bs[2 * i - 1], r) + Weight(bs[2 * i], r)
                                                  ELSE Weight(bs[2 * i - 1], r)
    <2>1. CASE 2 * i <= n
        <3>1. ms[i] = MergeBatches(bs[2 * i - 1], bs[2 * i])
            BY <1>3, <2>1
        <3>2. /\ bs[2 * i - 1] \in Batches /\ Ascends(bs[2 * i - 1])
              /\ bs[2 * i] \in Batches /\ Ascends(bs[2 * i])
            BY <1>1, <1>4, <2>1
        <3> QED
            BY <2>1, <3>1, <3>2, MergeBatchesIs
    <2>2. CASE ~ (2 * i <= n)
        <3>1. ms[i] = bs[2 * i - 1]
            BY <1>3, <2>2
        <3>2. bs[2 * i - 1] \in Batches /\ Ascends(bs[2 * i - 1])
            BY <1>1, <1>4
        <3> QED
            BY <2>2, <3>1, <3>2
    <2> QED
        BY <2>1, <2>2
<1>6. DOMAIN ms = 1 .. h /\ Len(ms) = h /\ ms \in Seq(Batches)
    BY <1>2, <1>3, <1>5
<1>7. ASSUME NEW r \in Int
      PROVE  TotalWeight(ms, r) = TotalWeight(bs, r)
    <2> DEFINE f == [i \in 1 .. n |-> Weight(bs[i], r)]
               g == [i \in 1 .. h |-> Weight(ms[i], r)]
               p == [i \in 1 .. h |-> IF 2 * i <= n THEN f[2 * i - 1] + f[2 * i] ELSE f[2 * i - 1]]
    <2>1. f \in [1 .. n -> Int]
        BY <1>1, WeightType
    <2>2. g = p
        BY <1>4, <1>5
    <2>3. TotalWeight(ms, r) = SumFunction(g) /\ TotalWeight(bs, r) = SumFunction(f)
        BY <1>1, <1>6 DEF TotalWeight
    <2> HIDE DEF f, g
    <2>4. SumFunction(p) = SumFunction(f)
        BY <1>1, <2>1, SumOfPairs DEF h
    <2> QED
        BY <2>2, <2>3, <2>4
<1> QED
    BY <1>2, <1>5, <1>6, <1>7 DEF AllAscend, ms, n

LEMMA AppendAs ==
    ASSUME NEW s \in Seq(Int), NEW x \in Int
    PROVE  Append(s, x) = [i \in 1 .. Len(s) + 1 |-> IF i = Len(s) + 1 THEN x ELSE s[i]]
<1> DEFINE n == Len(s)
           a == Append(s, x)
<1>1. n \in Nat
    OBVIOUS
<1>2. a \in Seq(Int) /\ Len(a) = n + 1 /\ a[n + 1] = x /\ \A i \in 1 .. n : a[i] = s[i]
    BY AppendProperties
<1> HIDE DEF a
<1>3. a = [i \in 1 .. n + 1 |-> a[i]]
    BY <1>2
<1> HIDE DEF n
<1>4. \A i \in 1 .. n + 1 : a[i] = IF i = n + 1 THEN x ELSE s[i]
    BY <1>1, <1>2
<1> QED
    BY <1>3, <1>4 DEF a, n

LEMMA TotalWeightIs ==
    ASSUME NEW bs \in Seq(Batches), NEW r
    PROVE  /\ TotalWeight(bs, r) \in Int
           /\ bs = << >> => TotalWeight(bs, r) = 0
           /\ Len(bs) = 1 => TotalWeight(bs, r) = Weight(bs[1], r)
           /\ \A b \in Batches : TotalWeight(Append(bs, b), r) = TotalWeight(bs, r) + Weight(b, r)
<1> DEFINE n == Len(bs)
           f == [i \in DOMAIN bs |-> Weight(bs[i], r)]
<1>1. n \in Nat /\ DOMAIN bs = 1 .. n /\ \A i \in 1 .. n : bs[i] \in Batches
    OBVIOUS
<1>2. \A b \in Batches : Weight(b, r) \in Int
    BY WeightType
<1>3. f \in Seq(Int) /\ Len(f) = n /\ f \in [1 .. n -> Int] /\ DOMAIN f = 1 .. n
    <2>1. \A i \in 1 .. n : Weight(bs[i], r) \in Int
        BY <1>1, <1>2
    <2> QED
        BY <1>1, <2>1
<1>4. IsFiniteSet(1 .. n)
    BY <1>1, FS_Interval
<1>5. SumFunction(f) \in Int
    <2> HIDE DEF f, n
    <2> QED
        BY <1>3, <1>4, SumType
<1>6. bs = << >> => SumFunction(f) = 0
    <2>1. ASSUME bs = << >>
          PROVE  f = << >>
        BY <2>1
    <2> HIDE DEF f
    <2> QED
        BY <2>1, SumOfEmpty
<1>7. Len(bs) = 1 => SumFunction(f) = Weight(bs[1], r)
    <2>1. ASSUME Len(bs) = 1
          PROVE  f[1] = Weight(bs[1], r)
        BY <1>1, <2>1
    <2> HIDE DEF f
    <2> QED
        BY <1>3, <2>1, SumOfShort
<1>8. ASSUME NEW b \in Batches
      PROVE  TotalWeight(Append(bs, b), r) = TotalWeight(bs, r) + Weight(b, r)
    <2> DEFINE c == Append(bs, b)
    <2>1. Len(c) = n + 1 /\ DOMAIN c = 1 .. n + 1 /\ c[n + 1] = b /\ \A i \in 1 .. n : c[i] = bs[i]
        BY <1>1, AppendProperties
    <2> HIDE DEF c, n
    <2>2. [i \in DOMAIN c |-> Weight(c[i], r)] = [i \in 1 .. n + 1 |-> IF i = n + 1 THEN Weight(b, r) ELSE f[i]]
        <3>1. \A i \in 1 .. n + 1 : i = n + 1 \/ (i # n + 1 /\ i \in 1 .. n)
            BY <1>1
        <3> QED
            BY <1>1, <2>1, <3>1
    <2>3. Append(f, Weight(b, r)) = [i \in 1 .. n + 1 |-> IF i = n + 1 THEN Weight(b, r) ELSE f[i]]
        <3>1. Weight(b, r) \in Int /\ f \in Seq(Int) /\ Len(f) = n /\ n \in Nat
            <4> HIDE DEF f
            <4> QED
                BY <1>1, <1>2, <1>3 DEF n
        <3> HIDE DEF f
        <3> QED
            BY <3>1, AppendAs
    <2>4. SumFunction(Append(f, Weight(b, r))) = SumFunction(f) + Weight(b, r)
        <3>1. Weight(b, r) \in Int
            BY <1>2
        <3> HIDE DEF f
        <3> QED
            BY <1>3, <3>1, SumAppend
    <2> QED
        BY <2>2, <2>3, <2>4 DEF TotalWeight, c
<1> QED
    BY <1>5, <1>6, <1>7, <1>8 DEF TotalWeight

\* The passes end with one batch that holds what all have held.
LEMMA PassesEnd ==
    ASSUME NEW bs \in Seq(Batches), bs # << >>, AllAscend(bs),
           NEW batch, batch = Passes(bs)[Len(bs)][1]
    PROVE  batch \in Batches /\ Ascends(batch) /\ \A r \in Int : Weight(batch, r) = TotalWeight(bs, r)
<1> DEFINE n == Len(bs)
           pass == Passes(bs)
           T == {k \in 0 .. n : /\ AllAscend(pass[k])
                                /\ \A r \in Int : TotalWeight(pass[k], r) = TotalWeight(bs, r)
                                /\ Len(pass[k]) <= n - k \/ Len(pass[k]) = 1}
<1>1. n \in Nat
    OBVIOUS
<1>2. /\ pass[0] = bs
      /\ \A k \in Nat : pass[k + 1] = MergePairs(pass[k])
      /\ \A k \in Nat : pass[k] \in Seq(Batches) /\ pass[k] # << >>
    BY PassesAre
<1> HIDE DEF pass
<1>3. 0 \in T
    BY <1>1, <1>2
<1>4. ASSUME NEW k \in 0 .. n - 1, k \in T
      PROVE  k + 1 \in T
    <2> DEFINE p == pass[k]
               q == pass[k + 1]
    <2>1. k \in Nat /\ k + 1 \in Nat /\ k + 1 \in 0 .. n
        BY <1>1
    <2>2. p \in Seq(Batches) /\ p # << >> /\ q \in Seq(Batches) /\ q # << >> /\ q = MergePairs(p)
        BY <1>2, <2>1
    <2>3. /\ AllAscend(p) /\ \A r \in Int : TotalWeight(p, r) = TotalWeight(bs, r)
          /\ Len(p) <= n - k \/ Len(p) = 1
        BY <1>4
    <2> HIDE DEF p, q, n
    <2>4. AllAscend(q) /\ 2 * Len(q) <= Len(p) + 1 /\ \A r \in Int : TotalWeight(q, r) = TotalWeight(p, r)
        BY <2>2, <2>3, MergePairsIs
    <2>5. Len(p) \in Nat \ {0} /\ Len(q) \in Nat \ {0}
        BY <2>2
    <2>6. Len(q) <= n - (k + 1) \/ Len(q) = 1
        <3> DEFINE l == Len(p)
                   m == Len(q)
        <3>1. l \in Nat \ {0} /\ m \in Nat \ {0} /\ 2 * m <= l + 1 /\ (l <= n - k \/ l = 1) /\ n \in Nat /\ k \in Nat
            BY <1>1, <2>1, <2>3, <2>4, <2>5
        <3> HIDE DEF l, m
        <3>2. ASSUME l = 1
              PROVE  m = 1
            BY <3>1, <3>2
        <3>3. ASSUME l # 1
              PROVE  m <= n - (k + 1)
            <4>1. l >= 2 /\ l <= n - k
                BY <3>1, <3>3
            <4>2. m <= l - 1
                BY <3>1, <4>1
            <4>3. m <= n - (k + 1)
                BY <3>1, <4>1, <4>2
            <4> QED
                BY <4>3
        <3>4. m <= n - (k + 1) \/ m = 1
            BY <3>2, <3>3
        <3> QED
            BY <3>4 DEF m
    <2>7. \A r \in Int : TotalWeight(q, r) = TotalWeight(bs, r)
        BY <2>3, <2>4
    <2> QED
        BY <2>1, <2>4, <2>6, <2>7 DEF q
<1>5. n \in T
    <2> HIDE DEF T
    <2>1. \A k \in 0 .. n - 1 : k \in T => k + 1 \in T
        BY <1>4
    <2>2. \A k \in 0 .. n : k \in T
        BY <1>1, <1>3, <2>1, Upwards
    <2> QED
        BY <1>1, <2>2
<1> DEFINE p == pass[n]
<1>6. /\ p \in Seq(Batches) /\ p # << >> /\ AllAscend(p)
      /\ \A r \in Int : TotalWeight(p, r) = TotalWeight(bs, r)
      /\ Len(p) <= 0 \/ Len(p) = 1
    BY <1>1, <1>2, <1>5
<1>7. batch = p[1]
    BY DEF pass
<1> HIDE DEF p
<1>8. Len(p) = 1 /\ p[1] \in Batches /\ 1 \in DOMAIN p
    BY <1>6
<1>9. Ascends(p[1])
    BY <1>6, <1>8 DEF AllAscend
<1>10. \A r \in Int : TotalWeight(p, r) = Weight(p[1], r)
    BY <1>6, <1>8, TotalWeightIs
<1> QED
    BY <1>6, <1>7, <1>8, <1>9, <1>10

LEMMA WeightOfAbsent ==
    ASSUME NEW b \in Batches, NEW r \in Int, \A i \in 1 .. Len(b) : b[i][1] # r
    PROVE  Weight(b, r) = 0
<1> DEFINE n == Len(b)
           f == Terms(b, r)
<1>1. /\ n \in Nat
      /\ f = [i \in 1 .. n |-> WeightIn(b[i], r)]
      /\ Weight(b, r) = SumFunction(f)
    BY TermsAre
<1> HIDE DEF f
<1>2. \A i \in 1 .. n : WeightIn(b[i], r) = 0
    BY DEF WeightIn
<1> HIDE DEF n
<1>3. \A i \in 1 .. n : f[i] = 0
    BY <1>1, <1>2
<1>4. f \in [1 .. n -> Int]
    BY <1>1, <1>2
<1>5. IsFiniteSet(1 .. n)
    <2>1. 1 \in Int /\ n \in Int
        BY <1>1
    <2> QED
        BY <2>1, FS_Interval
<1> QED
    BY <1>1, <1>3, <1>4, <1>5, SumOfZeros

\* In an ascending batch a row weighs what its one entry says.
LEMMA WeightOfEntry ==
    ASSUME NEW b \in Batches, Ascends(b), NEW r \in Int
    PROVE  \A i \in 1 .. Len(b) : b[i][1] = r => Weight(b, r) = b[i][2]
<1> DEFINE n == Len(b)
           f == Terms(b, r)
<1>1. /\ n \in Nat /\ DOMAIN b = 1 .. n
      /\ \A i \in 1 .. n : b[i] \in Int \X Int /\ WeightIn(b[i], r) \in Int
      /\ f = [i \in 1 .. n |-> WeightIn(b[i], r)]
      /\ Weight(b, r) = SumFunction(f)
    BY TermsAre
<1> HIDE DEF n, f
<1>2. IsFiniteSet(1 .. n) /\ f \in [1 .. n -> Int]
    <2>1. 1 \in Int /\ n \in Int
        BY <1>1
    <2>2. IsFiniteSet(1 .. n)
        BY <2>1, FS_Interval
    <2> QED
        BY <1>1, <2>2
<1>4. ASSUME NEW i \in 1 .. n, b[i][1] = r
      PROVE  Weight(b, r) = b[i][2]
    <2> DEFINE zero == [j \in 1 .. n |-> 0]
    <2>1. zero \in [1 .. n -> Int] /\ \A j \in 1 .. n : zero[j] = 0
        OBVIOUS
    <2>2. ASSUME NEW j \in 1 .. n \ {i}
          PROVE  f[j] = 0
        <3>1. b[j][1] \in Int /\ b[i][1] \in Int /\ (i < j \/ j < i)
            BY <1>1
        <3>2. b[j][1] # r
            <4>1. j \in DOMAIN b /\ i \in DOMAIN b
                BY <1>1
            <4>2. b[i][1] < b[j][1] \/ b[j][1] < b[i][1]
                BY <3>1, <4>1 DEF Ascends
            <4> QED
                BY <1>4, <3>1, <4>2
        <3> QED
            BY <1>1, <3>2 DEF WeightIn
    <2> HIDE DEF zero
    <2>3. SumFunction(zero) = 0
        BY <1>2, <2>1, SumOfZeros
    <2>4. \A j \in 1 .. n \ {i} : f[j] = zero[j]
        BY <2>1, <2>2
    <2> DEFINE S == 1 .. n
    <2>7. IsFiniteSet(S) /\ f \in [S -> Int] /\ zero \in [S -> Int] /\ i \in S /\ \A j \in S \ {i} : f[j] = zero[j]
        BY <1>2, <2>1, <2>4
    <2> HIDE DEF S
    <2>5. SumFunction(f) = SumFunction(zero) - zero[i] + f[i]
        BY <2>7, SumChange
    <2>6. f[i] = b[i][2] /\ b[i][2] \in Int
        BY <1>1, <1>4 DEF WeightIn
    <2> QED
        BY <1>1, <2>1, <2>3, <2>5, <2>6
<1> QED
    BY <1>4 DEF n

Increases(s) == \A i, j \in DOMAIN s : i < j => s[i] < s[j]

\* An increasing list of the numbers up to n is those numbers in order.
LEMMA IdentityIs ==
    ASSUME NEW s \in Seq(Int), Increases(s), NEW n \in Nat,
           \A r \in Int : r \in 1 .. n <=> \E i \in 1 .. Len(s) : s[i] = r
    PROVE  s = [i \in 1 .. n |-> i]
<1> DEFINE m == Len(s)
           T == {i \in 1 .. m : s[i] # i}
<1>1. m \in Nat /\ DOMAIN s = 1 .. m /\ s = [i \in 1 .. m |-> s[i]] /\ \A i \in 1 .. m : s[i] \in Int
    OBVIOUS
<1> HIDE DEF m
<1>2. \A i \in 1 .. m : s[i] \in 1 .. n
    BY <1>1 DEF m
<1>3. \A r \in 1 .. n : \E i \in 1 .. m : s[i] = r
    BY DEF m
<1>4. T = {}
    <2>1. SUFFICES ASSUME T # {} PROVE FALSE
        OBVIOUS
    <2>2. T \in SUBSET Nat
        BY <1>1
    <2> HIDE DEF T
    <2>3. PICK i \in T : \A j \in T : i <= j
        BY <2>1, <2>2, Least
    <2>4. i \in 1 .. m /\ s[i] # i /\ s[i] \in 1 .. n
        BY <1>2 DEF T
    <2>5. \A j \in 1 .. m : j < i => s[j] = j
        <3>1. ASSUME NEW j \in 1 .. m, j < i
              PROVE  s[j] = j
            <4>1. j \notin T
                BY <1>1, <2>3, <2>4, <3>1
            <4> QED
                BY <4>1 DEF T
        <3> QED
            BY <3>1
    <2>6. s[i] > i
        <3>1. CASE i = 1
            BY <1>1, <2>4, <3>1
        <3>2. CASE i # 1
            <4>1. i - 1 \in 1 .. m /\ i - 1 < i
                BY <1>1, <2>4, <3>2
            <4>2. s[i - 1] < s[i] /\ s[i - 1] = i - 1
                BY <1>1, <2>4, <2>5, <4>1 DEF Increases
            <4> QED
                BY <1>1, <2>4, <4>1, <4>2
        <3> QED
            BY <3>1, <3>2
    <2>7. i \in 1 .. n
        BY <1>1, <2>4, <2>6
    <2>8. PICK j \in 1 .. m : s[j] = i
        BY <1>3, <2>7
    <2>9. CASE j < i
        BY <2>5, <2>8, <2>9
    <2>10. CASE j = i
        BY <2>4, <2>8, <2>10
    <2>11. CASE i < j
        <3>1. s[i] < s[j]
            BY <1>1, <2>4, <2>11 DEF Increases
        <3> QED
            BY <1>1, <2>4, <2>6, <2>8, <3>1
    <2> QED
        BY <1>1, <2>4, <2>9, <2>10, <2>11
<1>5. \A i \in 1 .. m : s[i] = i
    BY <1>4
<1>6. m = n
    <2>1. m <= n
        <3>1. CASE m = 0
            BY <3>1
        <3>2. CASE m # 0
            <4>1. m \in 1 .. m
                BY <1>1, <3>2
            <4>2. m \in 1 .. n
                BY <1>2, <1>5, <4>1
            <4> QED
                BY <4>2
        <3> QED
            BY <3>1, <3>2
    <2>2. n <= m
        <3>1. CASE n = 0
            BY <1>1, <3>1
        <3>2. CASE n # 0
            <4>1. n \in 1 .. n
                BY <3>2
            <4>2. PICK i \in 1 .. m : s[i] = n
                BY <1>3, <4>1
            <4> QED
                BY <1>5, <4>2
        <3> QED
            BY <3>1, <3>2
    <2> QED
        BY <1>1, <2>1, <2>2
<1> QED
    BY <1>1, <1>5, <1>6

\* What consolidate keeps of an ascending batch.
KeptSoFar(batch, k, s) ==
    /\ s \in Seq(Int) /\ Increases(s)
    /\ \A r \in Int : (\E i \in 1 .. Len(s) : s[i] = r)
                        <=> \E i \in 1 .. k : batch[i][1] = r /\ batch[i][2] > 0

LEMMA KeptKeeps ==
    ASSUME NEW batch \in Batches, Ascends(batch), NEW k \in 0 .. Len(batch) - 1, NEW s, KeptSoFar(batch, k, s)
    PROVE  KeptSoFar(batch, k + 1, IF batch[k + 1][2] > 0 THEN Append(s, batch[k + 1][1]) ELSE s)
<1> DEFINE n == Len(batch)
           e == batch[k + 1]
           m == Len(s)
<1>1. n \in Nat /\ DOMAIN batch = 1 .. n /\ \A i \in 1 .. n : batch[i] \in Int \X Int
    BY TermsAre
<1>2. /\ k + 1 \in 1 .. n /\ \A i \in 1 .. k : i \in 1 .. n /\ i < k + 1 /\ i \in 1 .. k + 1
      /\ \A i \in 1 .. k + 1 : i = k + 1 \/ i \in 1 .. k
      /\ k + 1 \in 1 .. k + 1
    BY <1>1
<1>3. e[1] \in Int /\ e[2] \in Int
    BY <1>1, <1>2
<1>4. /\ s \in Seq(Int) /\ Increases(s) /\ m \in Nat /\ DOMAIN s = 1 .. m
      /\ \A r \in Int : (\E i \in 1 .. m : s[i] = r)
                          <=> \E i \in 1 .. k : batch[i][1] = r /\ batch[i][2] > 0
      /\ \A i \in 1 .. m : s[i] \in Int
    BY DEF KeptSoFar
<1>5. CASE ~ (e[2] > 0)
    <2>1. \A r \in Int : (\E i \in 1 .. k + 1 : batch[i][1] = r /\ batch[i][2] > 0)
                           <=> \E i \in 1 .. k : batch[i][1] = r /\ batch[i][2] > 0
        BY <1>2, <1>5
    <2>2. KeptSoFar(batch, k + 1, s)
        BY <1>4, <2>1 DEF KeptSoFar
    <2> QED
        BY <1>5, <2>2
<1>6. CASE e[2] > 0
    <2> DEFINE t == Append(s, e[1])
    <2>1. t \in Seq(Int) /\ Len(t) = m + 1 /\ t[m + 1] = e[1] /\ \A i \in 1 .. m : t[i] = s[i]
        BY <1>3, <1>4, AppendProperties
    <2> HIDE DEF t, m
    <2>2. DOMAIN t = 1 .. m + 1 /\ \A i \in 1 .. m + 1 : i = m + 1 \/ i \in 1 .. m
        BY <1>4, <2>1
    <2>3. ASSUME NEW i \in 1 .. m
          PROVE  s[i] < e[1]
        <3>1. s[i] \in Int
            BY <1>4
        <3>2. PICK j \in 1 .. k : batch[j][1] = s[i] /\ batch[j][2] > 0
            BY <1>4, <3>1
        <3> QED
            BY <1>1, <1>2, <3>2 DEF Ascends
    <2>4. Increases(t)
        <3>1. ASSUME NEW i \in 1 .. m + 1, NEW j \in 1 .. m + 1, i < j
              PROVE  t[i] < t[j]
            <4>1. i \in 1 .. m
                BY <1>4, <3>1
            <4>2. CASE j \in 1 .. m
                BY <1>4, <2>1, <3>1, <4>1, <4>2 DEF Increases
            <4>3. CASE j = m + 1
                BY <2>1, <2>3, <4>1, <4>3
            <4> QED
                BY <2>2, <4>2, <4>3
        <3> QED
            BY <2>2, <3>1 DEF Increases
    <2>5. ASSUME NEW r \in Int
          PROVE  (\E i \in 1 .. Len(t) : t[i] = r)
                   <=> \E i \in 1 .. k + 1 : batch[i][1] = r /\ batch[i][2] > 0
        <3>1. (\E i \in 1 .. Len(t) : t[i] = r) <=> e[1] = r \/ \E i \in 1 .. m : s[i] = r
            <4>1. m + 1 \in 1 .. m + 1 /\ \A i \in 1 .. m : i \in 1 .. m + 1
                BY <1>4
            <4> HIDE DEF e
            <4> QED
                BY <2>1, <2>2, <4>1, Zenon
        <3>2. (\E i \in 1 .. k + 1 : batch[i][1] = r /\ batch[i][2] > 0)
                <=> e[1] = r \/ \E i \in 1 .. k : batch[i][1] = r /\ batch[i][2] > 0
            BY <1>2, <1>6, Zenon
        <3> QED
            BY <1>4, <3>1, <3>2, Zenon
    <2>6. KeptSoFar(batch, k + 1, t)
        BY <2>1, <2>4, <2>5 DEF KeptSoFar
    <2> QED
        BY <1>6, <2>6 DEF t
<1> QED
    BY <1>5, <1>6

LEMMA KeptRows ==
    ASSUME NEW batch \in Batches, Ascends(batch)
    PROVE  KeptSoFar(batch, Len(batch), Kept(batch)[Len(batch)])
<1> DEFINE n == Len(batch)
           kept == Kept(batch)
           T == {k \in 0 .. n : KeptSoFar(batch, k, kept[k])}
<1>1. n \in Nat
    BY TermsAre
<1>2. /\ kept[0] = << >>
      /\ \A k \in Nat : kept[k + 1] = IF batch[k + 1][2] > 0 THEN Append(kept[k], batch[k + 1][1])
                                      ELSE kept[k]
    BY KeptIs
<1> HIDE DEF kept
<1>3. 0 \in T
    <2>1. KeptSoFar(batch, 0, << >>)
        BY DEF KeptSoFar, Increases
    <2> QED
        BY <1>1, <1>2, <2>1
<1>4. ASSUME NEW k \in 0 .. n - 1, k \in T
      PROVE  k + 1 \in T
    <2>1. k \in Nat /\ k + 1 \in 0 .. n
        BY <1>1
    <2>2. KeptSoFar(batch, k, kept[k])
        BY <1>4
    <2>3. KeptSoFar(batch, k + 1, IF batch[k + 1][2] > 0 THEN Append(kept[k], batch[k + 1][1]) ELSE kept[k])
        BY <2>2, KeptKeeps
    <2>4. kept[k + 1] = IF batch[k + 1][2] > 0 THEN Append(kept[k], batch[k + 1][1]) ELSE kept[k]
        BY <1>2, <2>1
    <2>5. KeptSoFar(batch, k + 1, kept[k + 1])
        BY <2>3, <2>4
    <2> QED
        BY <2>1, <2>5
<1>5. n \in T
    <2> HIDE DEF T
    <2>1. \A k \in 0 .. n - 1 : k \in T => k + 1 \in T
        BY <1>4
    <2>2. \A k \in 0 .. n : k \in T
        BY <1>1, <1>3, <2>1, Upwards
    <2> QED
        BY <1>1, <2>2
<1> QED
    BY <1>5 DEF kept

\* Batches in which the rows up to n weigh one each and no other row weighs
\* anything settle as those rows.
LEMMA ConsolidateIs ==
    ASSUME NEW bs \in Seq(Batches), AllAscend(bs), NEW n \in Nat,
           \A r \in Int : TotalWeight(bs, r) = IF r \in 1 .. n THEN 1 ELSE 0
    PROVE  Consolidate(bs) = [i \in 1 .. n |-> i]
<1>1. CASE bs = << >>
    <2>1. TotalWeight(bs, 1) = 0
        BY <1>1, TotalWeightIs
    <2>2. 1 \notin 1 .. n
        BY <2>1
    <2>3. n = 0
        BY <2>2
    <2>4. [i \in 1 .. n |-> i] = << >>
        BY <2>3
    <2> QED
        BY <1>1, <2>4 DEF Consolidate
<1>2. CASE bs # << >>
    <2> DEFINE batch == Passes(bs)[Len(bs)][1]
               s == Kept(batch)[Len(batch)]
    <2>1. batch \in Batches /\ Ascends(batch) /\ \A r \in Int : Weight(batch, r) = TotalWeight(bs, r)
        BY <1>2, PassesEnd
    <2>2. Consolidate(bs) = s
        BY <1>2 DEF Consolidate
    <2> HIDE DEF batch
    <2>3. KeptSoFar(batch, Len(batch), s)
        BY <2>1, KeptRows
    <2> HIDE DEF s
    <2>4. /\ s \in Seq(Int) /\ Increases(s)
          /\ \A r \in Int : (\E i \in 1 .. Len(s) : s[i] = r)
                              <=> \E i \in 1 .. Len(batch) : batch[i][1] = r /\ batch[i][2] > 0
        BY <2>3 DEF KeptSoFar
    <2>5. ASSUME NEW r \in Int
          PROVE  r \in 1 .. n <=> \E i \in 1 .. Len(batch) : batch[i][1] = r /\ batch[i][2] > 0
        <3>1. Weight(batch, r) = IF r \in 1 .. n THEN 1 ELSE 0
            BY <2>1
        <3>2. ASSUME NEW i \in 1 .. Len(batch), batch[i][1] = r, batch[i][2] > 0
              PROVE  r \in 1 .. n
            <4>1. Weight(batch, r) = batch[i][2]
                BY <2>1, <3>2, WeightOfEntry
            <4> QED
                BY <3>1, <3>2, <4>1
        <3>3. ASSUME r \in 1 .. n
              PROVE  \E i \in 1 .. Len(batch) : batch[i][1] = r /\ batch[i][2] > 0
            <4>1. Weight(batch, r) = 1
                BY <3>1, <3>3
            <4>2. PICK i \in 1 .. Len(batch) : batch[i][1] = r
                BY <2>1, <4>1, WeightOfAbsent
            <4>3. Weight(batch, r) = batch[i][2]
                BY <2>1, <4>2, WeightOfEntry
            <4> QED
                BY <4>1, <4>2, <4>3
        <3> QED
            BY <3>2, <3>3
    <2>6. \A r \in Int : r \in 1 .. n <=> \E i \in 1 .. Len(s) : s[i] = r
        BY <2>4, <2>5
    <2> QED
        BY <2>2, <2>4, <2>6, IdentityIs
<1> QED
    BY <1>1, <1>2

\* Of two members of a set the larger has more before it, so that Nth goes
\* through the set in order.
LEMMA RankGrows ==
    ASSUME NEW T \in SUBSET Int, IsFiniteSet(T), NEW x \in T, NEW y \in T, x < y
    PROVE  Cardinality({m \in T : m < x}) < Cardinality({m \in T : m < y})
<1> DEFINE before(n) == {m \in T : m < n}
<1>1. before(x) \in SUBSET before(y) /\ x \in before(y) /\ x \notin before(x) /\ before(y) \in SUBSET T
    <2>1. x \in Int /\ y \in Int /\ \A l \in T : l \in Int
        OBVIOUS
    <2>2. ASSUME NEW l \in T, l < x
          PROVE  l < y
        BY <2>1, <2>2
    <2>3. ~ (x < x)
        BY <2>1
    <2> QED
        BY <2>2, <2>3, Zenon
<1> HIDE DEF before
<1>2. IsFiniteSet(before(y))
    BY <1>1, FS_Subset
<1>3. /\ IsFiniteSet(before(x)) /\ Cardinality(before(x)) <= Cardinality(before(y))
      /\ Cardinality(before(x)) # Cardinality(before(y))
    BY <1>1, <1>2, FS_Subset
<1>4. Cardinality(before(x)) \in Nat /\ Cardinality(before(y)) \in Nat
    BY <1>2, <1>3, FS_CardinalityType
<1>5. Cardinality(before(x)) < Cardinality(before(y))
    BY <1>3, <1>4
<1> QED
    BY <1>5 DEF before

LEMMA NthGrows ==
    ASSUME NEW T \in SUBSET Int, IsFiniteSet(T)
    PROVE  /\ \A i, j \in 1 .. Cardinality(T) : i < j => Nth(T, i) < Nth(T, j)
           /\ \A x \in T : \E i \in 1 .. Cardinality(T) : Nth(T, i) = x
<1> DEFINE c == Cardinality(T)
           rank(n) == Cardinality({m \in T : m < n})
<1>1. c \in Nat
    BY FS_CardinalityType
<1>2. \A i \in 1 .. c : Nth(T, i) \in T /\ rank(Nth(T, i)) = i - 1
    BY NthIs
<1>3. \A x, y \in T : x < y => rank(x) < rank(y)
    BY RankGrows
<1>4. ASSUME NEW x \in T
      PROVE  rank(x) \in 0 .. c - 1
    <2> DEFINE before == {m \in T : m < x}
    <2>1. before \in SUBSET T /\ x \notin before /\ x \in T
        OBVIOUS
    <2> HIDE DEF before
    <2>2. IsFiniteSet(before) /\ Cardinality(before) <= c /\ Cardinality(before) # c
        BY <2>1, FS_Subset
    <2>3. Cardinality(before) \in Nat
        BY <2>2, FS_CardinalityType
    <2>4. Cardinality(before) \in 0 .. c - 1
        BY <1>1, <2>2, <2>3
    <2> QED
        BY <2>4 DEF before
<1> HIDE DEF rank, c
<1>5. ASSUME NEW x \in T, NEW y \in T, rank(x) = rank(y)
      PROVE  x = y
    <2>1. x \in Int /\ y \in Int /\ rank(x) \in Int
        BY <1>4
    <2>2. ~ (x < y) /\ ~ (y < x)
        BY <1>3, <1>5, <2>1
    <2> QED
        BY <2>1, <2>2
<1>6. ASSUME NEW i \in 1 .. c, NEW j \in 1 .. c, i < j
      PROVE  Nth(T, i) < Nth(T, j)
    <2> DEFINE x == Nth(T, i)
               y == Nth(T, j)
    <2>1. x \in T /\ y \in T /\ x \in Int /\ y \in Int /\ rank(x) = i - 1 /\ rank(y) = j - 1
        BY <1>2
    <2> HIDE DEF x, y
    <2>2. ~ (y < x) /\ x # y
        <3>1. rank(x) < rank(y) /\ rank(x) \in Int /\ rank(y) \in Int
            BY <1>1, <1>6, <2>1
        <3>2. y < x => rank(y) < rank(x)
            BY <1>3, <2>1
        <3> QED
            BY <3>1, <3>2
    <2>3. x < y
        BY <2>1, <2>2
    <2> QED
        BY <2>3 DEF x, y
<1>7. ASSUME NEW x \in T
      PROVE  \E i \in 1 .. c : Nth(T, i) = x
    <2> DEFINE i == rank(x) + 1
    <2>1. rank(x) \in 0 .. c - 1
        BY <1>4
    <2>2. i \in 1 .. c /\ i - 1 = rank(x)
        BY <1>1, <2>1
    <2> HIDE DEF i
    <2>3. Nth(T, i) \in T /\ rank(Nth(T, i)) = rank(x)
        BY <1>2, <2>2
    <2>4. Nth(T, i) = x
        BY <1>5, <2>3
    <2> QED
        BY <2>2, <2>4
<1> QED
    BY <1>6, <1>7 DEF c

\* A batch is in order, and its rows weigh what their updates did.
LEMMA AsBatchWeighs ==
    ASSUME NEW updates \in Batches
    PROVE  /\ Ascends(AsBatch(updates))
           /\ \A r \in Int : Weight(AsBatch(updates), r) = Weight(updates, r)
<1> DEFINE T == Remaining(updates)
           c == Cardinality(T)
           b == AsBatch(updates)
<1>1. /\ b \in Batches /\ T \in SUBSET Int /\ IsFiniteSet(T)
      /\ \A r : r \in T <=> (\E i \in 1 .. Len(updates) : updates[i][1] = r) /\ Weight(updates, r) # 0
      /\ b = [i \in 1 .. c |-> <<Nth(T, i), Weight(updates, Nth(T, i))>>]
    BY AsBatchIs
<1> HIDE DEF T, b
<1>2. c \in Nat
    BY <1>1, FS_CardinalityType
<1>3. /\ \A i, j \in 1 .. c : i < j => Nth(T, i) < Nth(T, j)
      /\ \A x \in T : \E i \in 1 .. c : Nth(T, i) = x
    BY <1>1, NthGrows
<1>4. \A i \in 1 .. c : Nth(T, i) \in T
    BY <1>1, NthIs
<1> HIDE DEF c
<1>5. Len(b) = c /\ DOMAIN b = 1 .. c
    BY <1>1, <1>2
<1>6. \A i \in 1 .. c : b[i][1] = Nth(T, i) /\ b[i][2] = Weight(updates, Nth(T, i))
    BY <1>1
<1>7. Ascends(b)
    BY <1>3, <1>5, <1>6 DEF Ascends
<1>8. ASSUME NEW r \in Int
      PROVE  Weight(b, r) = Weight(updates, r)
    <2>1. CASE r \in T
        <3>1. PICK i \in 1 .. c : Nth(T, i) = r
            BY <1>3, <2>1
        <3>2. b[i][1] = r /\ b[i][2] = Weight(updates, r)
            BY <1>6, <3>1
        <3>3. i \in 1 .. Len(b)
            BY <1>5
        <3>4. Weight(b, r) = b[i][2]
            BY <1>1, <1>7, <3>2, <3>3, WeightOfEntry
        <3> QED
            BY <3>2, <3>4
    <2>2. CASE r \notin T
        <3>1. \A i \in 1 .. Len(b) : b[i][1] # r
            BY <1>4, <1>5, <1>6, <2>2
        <3>2. Weight(b, r) = 0
            BY <1>1, <3>1, WeightOfAbsent
        <3>3. Weight(updates, r) = 0
            <4>1. CASE \E i \in 1 .. Len(updates) : updates[i][1] = r
                BY <1>1, <2>2, <4>1
            <4>2. CASE \A i \in 1 .. Len(updates) : updates[i][1] # r
                BY <4>2, WeightOfAbsent
            <4> QED
                BY <4>1, <4>2
        <3> QED
            BY <3>2, <3>3
    <2> QED
        BY <2>1, <2>2
<1> QED
    BY <1>7, <1>8 DEF b
-----------------------------------------------------------------------------
(* Feeding *)

(* Rounding up: the chunks of all workers together hold every row. *)
LEMMA ChunksSuffice ==
    ASSUME NEW n \in Nat
    PROVE /\ Chunk(n) \in Nat \ {0}
          /\ n <= Peers * Chunk(n)
<1> DEFINE q == (n + Peers - 1) \div Peers
<1>1. Peers \in Nat /\ Peers > 0
  BY PeersAssumption
<1>2. q \in Int /\ q >= 0 /\ Peers * q > n - 1
  <2>1. n + Peers - 1 \in Nat
    BY <1>1
  <2>2. /\ q \in Int
        /\ Peers * q <= n + Peers - 1
        /\ n + Peers - 1 < Peers * q + Peers
    BY <1>1, <2>1, Z3
  <2>3. q >= 0
    BY <1>1, <2>1, Z3
  <2> QED
    BY <1>1, <2>2, <2>3, Z3
<1>3. CASE q < 1
  <2>1. Chunk(n) = 1
    BY <1>3 DEF Chunk
  <2>2. Peers * q <= 0
    BY <1>1, <1>2, <1>3, Z3
  <2> QED
    BY <1>1, <1>2, <2>1, <2>2
<1>4. CASE ~(q < 1)
  <2>1. Chunk(n) = q
    BY <1>4 DEF Chunk
  <2>2. Peers * q \in Int
    BY <1>1, <1>2
  <2> QED
    BY <1>1, <1>2, <1>4, <2>1, <2>2
<1> QED
  BY <1>3, <1>4

(* Two chunks of different workers have no position in common. *)
LEMMA ChunksAreApart ==
    ASSUME NEW c \in Nat, NEW v \in Nat, NEW w \in Nat, v < w
    PROVE (v + 1) * c <= w * c
<1>1. PICK d \in Nat : w = v + 1 + d
  <2>1. w - v - 1 \in Nat /\ w = v + 1 + (w - v - 1)
    OBVIOUS
  <2> QED
    BY <2>1
<1>2. w * c = (v + 1) * c + d * c
  BY <1>1, Z3
<1>3. d * c \in Nat /\ (v + 1) * c \in Nat
  BY <1>1, Z3
<1> QED
  BY <1>2, <1>3

(* However long an input is and however many workers there are, each of    *)
(* its rows is in the share of exactly one worker: build_and_feed neither  *)
(* loses a row nor feeds one twice.                                        *)
THEOREM FedExactlyOnce ==
    ASSUME NEW n \in Nat
    PROVE \A j \in 0 .. n - 1 :
            \E w \in Workers : \A v \in Workers : j \in Share(v, n) <=> v = w
<1> SUFFICES ASSUME NEW j \in 0 .. n - 1
             PROVE \E w \in Workers : \A v \in Workers : j \in Share(v, n) <=> v = w
  OBVIOUS
<1> DEFINE c == Chunk(n)
           w == j \div c
<1>1. c \in Nat /\ c > 0 /\ n <= Peers * c
  BY ChunksSuffice
<1>2. Peers \in Nat /\ Peers > 0
  BY PeersAssumption
<1>3. j \in Nat /\ j < n
  OBVIOUS
<1> HIDE DEF c
<1>4. w \in Nat /\ w * c <= j /\ j < (w + 1) * c
  <2>1. w \in Int /\ w >= 0
    BY <1>1, <1>3, Z3
  <2>2. c * w <= j /\ j < c * w + c
    BY <1>1, <1>3, Z3
  <2>3. c * w = w * c /\ (w + 1) * c = c * w + c
    BY <1>1, <2>1, Z3
  <2> QED
    BY <2>1, <2>2, <2>3
<1> HIDE DEF w
<1>5. w < Peers
  <2>1. SUFFICES ASSUME Peers <= w
                 PROVE FALSE
    BY <1>2, <1>4
  <2>2. Peers * c <= w * c
    BY <1>1, <1>2, <1>4, <2>1, Z3
  <2> QED
    BY <1>1, <1>2, <1>3, <1>4, <2>2, Z3
<1>6. w \in Workers
  BY <1>2, <1>4, <1>5 DEF Workers
<1>7. ASSUME NEW v \in Workers
      PROVE j \in Share(v, n) <=> v = w
  <2>1. v \in Nat
    BY <1>2 DEF Workers
  <2>2. j \in Share(w, n)
    BY <1>4 DEF Share, c
  <2>3. CASE v < w
    <3>1. (v + 1) * c <= w * c
      BY <1>1, <1>4, <2>1, <2>3, ChunksAreApart
    <3>2. (v + 1) * c \in Nat /\ w * c \in Nat
      BY <1>1, <1>4, <2>1
    <3>3. ~(j < (v + 1) * c)
      BY <1>3, <1>4, <3>1, <3>2
    <3> QED
      BY <2>3, <1>4, <2>1, <3>3 DEF Share, c
  <2>4. CASE w < v
    <3>1. (w + 1) * c <= v * c
      BY <1>1, <1>4, <2>1, <2>4, ChunksAreApart
    <3>2. (w + 1) * c \in Nat /\ v * c \in Nat
      BY <1>1, <1>4, <2>1
    <3>3. ~(v * c <= j)
      BY <1>3, <1>4, <3>1, <3>2
    <3> QED
      BY <2>4, <1>4, <2>1, <3>3 DEF Share, c
  <2>5. CASE v = w
    BY <2>2, <2>5
  <2> QED
    BY <1>4, <2>1, <2>3, <2>4, <2>5
<1> QED
  BY <1>6, <1>7
-----------------------------------------------------------------------------
(* The peak of an evaluation's memory, for any threads that charge it in   *)
(* any way: they allocate and free when they are settled, and take or drop *)
(* the tag.  The peak is behind the counter while a thread is between its  *)
(* fetch_add and its fetch_max.  The invariant says where the highest      *)
(* value is then: with a thread that still carries it.                     *)

Gather(t) == /\ Settled(t)
             /\ \E sizes \in Seq(Int) : charges' = [charges EXCEPT ![t] = sizes]
             /\ UNCHANGED <<tagged, pending, current, peak, added, higher, highest>>

Retag(t) == Settled(t) /\ (Tag(t) \/ Untag(t))

AccountingNext ==
    \E t \in Threads : Gather(t) \/ Retag(t) \/ Account(t) \/ ComparePeak(t) \/ RaisePeak(t)

AccountingSpec == /\ \E first \in SUBSET Threads : AccountingInit(first)
                  /\ [][AccountingNext]_memory

MemoryTypes == /\ pending \in [Threads -> Int]
               /\ charges \in [Threads -> Seq(Int)]
               /\ current \in Int /\ peak \in Int /\ highest \in Int
               /\ added \in [Threads -> Int \cup {NoBytes}]
               /\ higher \in [Threads -> Int \cup {NoBytes}]

\* Nothing anywhere is above the highest value the counter has had.
NothingHigher ==
    /\ current <= highest
    /\ peak <= highest
    /\ \A t \in Threads : /\ added[t] # NoBytes => added[t] <= highest
                          /\ higher[t] # NoBytes => higher[t] <= highest
                          /\ added[t] = NoBytes \/ higher[t] = NoBytes

\* The peak has it, or a thread that is going to raise the peak to it.
HighestIsCarried ==
    \/ peak = highest
    \/ \E t \in Threads : added[t] = highest \/ higher[t] = highest

MemoryInv == MemoryTypes /\ NothingHigher /\ HighestIsCarried
-----------------------------------------------------------------------------
LEMMA MaxOfTwo ==
    ASSUME NEW m \in Int, NEW n \in Int
    PROVE  Max({m, n}) = IF m >= n THEN m ELSE n
BY DEF Max

LEMMA InitMemory ==
    ASSUME NEW first \in SUBSET Threads, AccountingInit(first)
    PROVE  MemoryInv
<1>1. MemoryTypes
    BY AccountingAssumption DEF AccountingInit, MemoryTypes
<1>2. NothingHigher /\ HighestIsCarried
    BY AccountingAssumption DEF AccountingInit, NothingHigher, HighestIsCarried
<1> QED
    BY <1>1, <1>2 DEF MemoryInv

\* A settled thread whose sum goes to the counter carries what it made of it.
LEMMA FlushKeeps ==
    ASSUME MemoryInv, NEW t \in Threads, NEW total \in Int, FlushPending(t, total),
           added[t] = NoBytes, higher[t] = NoBytes, UNCHANGED <<peak, higher>>,
           charges' \in [Threads -> Seq(Int)]
    PROVE  MemoryInv'
<1> USE AccountingAssumption
<1>1. CASE t \notin tagged
    <2>1. pending' = [pending EXCEPT ![t] = 0] /\ UNCHANGED <<current, added, highest>>
        BY <1>1 DEF FlushPending
    <2>2. MemoryTypes'
        BY <2>1 DEF MemoryInv, MemoryTypes
    <2>3. NothingHigher' /\ HighestIsCarried'
        BY <2>1 DEF MemoryInv, NothingHigher, HighestIsCarried
    <2> QED
        BY <2>2, <2>3 DEF MemoryInv
<1>2. CASE t \in tagged
    <2> DEFINE new == current + total
    <2>1. /\ current' = new /\ new \in Int
          /\ added' = [added EXCEPT ![t] = new]
          /\ pending' = [pending EXCEPT ![t] = 0]
          /\ highest' = IF highest >= new THEN highest ELSE new
        <3>1. new \in Int /\ highest \in Int
            BY DEF MemoryInv, MemoryTypes
        <3>2. Max({highest, new}) = IF highest >= new THEN highest ELSE new
            BY <3>1, MaxOfTwo
        <3>3. /\ current' = new /\ added' = [added EXCEPT ![t] = new]
              /\ pending' = [pending EXCEPT ![t] = 0]
              /\ highest' = Max({highest, new})
            BY <1>2 DEF FlushPending
        <3> QED
            BY <3>1, <3>2, <3>3
    <2> HIDE DEF new
    <2>2. MemoryTypes'
        BY <2>1 DEF MemoryInv, MemoryTypes
    <2>3. NothingHigher'
        BY <2>1 DEF MemoryInv, MemoryTypes, NothingHigher
    <2>4. HighestIsCarried'
        <3>1. CASE highest' = new
            BY <2>1, <3>1 DEF MemoryInv, MemoryTypes, HighestIsCarried
        <3>2. CASE highest' = highest
            BY <2>1, <3>2 DEF MemoryInv, MemoryTypes, HighestIsCarried
        <3> QED
            BY <2>1, <3>1, <3>2
    <2> QED
        BY <2>2, <2>3, <2>4 DEF MemoryInv
<1> QED
    BY <1>1, <1>2

\* A value above the peak is carried on; one that is not needs no carrier.
LEMMA CompareKeeps ==
    ASSUME MemoryInv, NEW t \in Threads, ComparePeak(t)
    PROVE  MemoryInv'
<1> USE AccountingAssumption DEF ComparePeak, MemoryInv
<1>1. MemoryTypes'
    BY DEF MemoryTypes
<1>2. NothingHigher'
    BY DEF MemoryTypes, NothingHigher
<1>3. HighestIsCarried'
    <2>1. CASE added[t] > peak
        BY <2>1 DEF MemoryTypes, NothingHigher, HighestIsCarried
    <2>2. CASE ~ (added[t] > peak)
        BY <2>2 DEF MemoryTypes, NothingHigher, HighestIsCarried
    <2> QED
        BY <2>1, <2>2
<1> QED
    BY <1>1, <1>2, <1>3

\* The maximum is taken with the peak as it stands, so a carrier that comes
\* late lowers nothing.
LEMMA RaiseKeeps ==
    ASSUME MemoryInv, NEW t \in Threads, RaisePeak(t)
    PROVE  MemoryInv'
<1> USE AccountingAssumption
<1>1. /\ peak' = IF peak >= higher[t] THEN peak ELSE higher[t]
      /\ higher[t] \in Int /\ added[t] = NoBytes
      /\ higher' = [higher EXCEPT ![t] = NoBytes]
      /\ UNCHANGED <<pending, charges, current, added, highest>>
    BY MaxOfTwo DEF RaisePeak, MemoryInv, MemoryTypes, NothingHigher
<1>2. MemoryTypes'
    BY <1>1 DEF MemoryInv, MemoryTypes
<1>3. NothingHigher'
    BY <1>1 DEF MemoryInv, MemoryTypes, NothingHigher
<1>4. HighestIsCarried'
    BY <1>1 DEF MemoryInv, MemoryTypes, NothingHigher, HighestIsCarried
<1> QED
    BY <1>2, <1>3, <1>4 DEF MemoryInv

LEMMA MemoryStep ==
    ASSUME MemoryInv, [AccountingNext]_memory
    PROVE  MemoryInv'
<1>1. ASSUME NEW t \in Threads, Gather(t)
      PROVE  MemoryInv'
    BY <1>1 DEF Gather, MemoryInv, MemoryTypes, NothingHigher, HighestIsCarried
<1>2. ASSUME NEW t \in Threads, Settled(t), Tag(t)
      PROVE  MemoryInv'
    BY <1>2 DEF Tag, MemoryInv, MemoryTypes, NothingHigher, HighestIsCarried
<1>3. ASSUME NEW t \in Threads, Settled(t), Untag(t)
      PROVE  MemoryInv'
    BY <1>3, FlushKeeps DEF Settled, Untag, MemoryInv, MemoryTypes
<1>4. ASSUME NEW t \in Threads, Account(t)
      PROVE  MemoryInv'
    <2> DEFINE total == pending[t] + Head(charges[t])
    <2>1. total \in Int /\ charges' \in [Threads -> Seq(Int)]
        BY <1>4 DEF Account, MemoryInv, MemoryTypes
    <2>2. CASE FlushPending(t, total)
        BY <1>4, <2>1, <2>2, FlushKeeps DEF Account
    <2>3. CASE pending' = [pending EXCEPT ![t] = total] /\ UNCHANGED <<current, added, highest>>
        BY <1>4, <2>1, <2>3 DEF Account, MemoryInv, MemoryTypes, NothingHigher, HighestIsCarried
    <2> QED
        BY <1>4, <2>2, <2>3 DEF Account
<1>5. ASSUME NEW t \in Threads, ComparePeak(t) \/ RaisePeak(t)
      PROVE  MemoryInv'
    BY <1>5, CompareKeeps, RaiseKeeps
<1>6. CASE UNCHANGED memory
    BY <1>6 DEF memory, MemoryInv, MemoryTypes, NothingHigher, HighestIsCarried
<1> QED
    BY <1>1, <1>2, <1>3, <1>4, <1>5, <1>6 DEF AccountingNext, Retag
-----------------------------------------------------------------------------
\* When every thread has added what it had and raised the peak, the peak is
\* the highest value the counter ever had, in whatever order the threads
\* added, compared and raised.  (accounting.rs: MemoryCounter::apply)
THEOREM PeakIsExact ==
    AccountingSpec => []((\A t \in Threads : Settled(t)) => peak = highest)
<1>1. MemoryInv /\ [AccountingNext]_memory => MemoryInv'
    BY MemoryStep
<1>2. MemoryInv => ((\A t \in Threads : Settled(t)) => peak = highest)
    BY AccountingAssumption DEF MemoryInv, MemoryTypes, HighestIsCarried, Settled
<1>3. (\E first \in SUBSET Threads : AccountingInit(first)) => MemoryInv
    BY InitMemory
<1> QED
    BY <1>1, <1>2, <1>3, PTL DEF AccountingSpec
-----------------------------------------------------------------------------
(* The inductive invariant of the materialization *)

Stages == {"starting", "claiming", "merging", "counting", "storing", "leaving", "gone"}

\* A helper holds the head it has claimed until it has stored its rows.
Holding(t) == stage[t] \in {"merging", "counting", "storing"}

Types ==
    /\ tagged \in SUBSET Threads
    /\ \A t \in Threads : Len(charges[t]) <= 2
    /\ fed \in SUBSET Workers
    /\ \A u \in moving : u.head \in HeadSet /\ u.row \in Int /\ u.weight \in Int
    /\ retractions \in Nat
    /\ buffer \in [Workers -> [HeadSet -> Batches]]
    /\ flushed \in [Workers -> 0 .. Heads]
    /\ batches \in [HeadSet -> Seq(Batches)]
    /\ next \in Nat \ {0}
    /\ stage \in [Helpers -> Stages]
    /\ claimed \in [Helpers -> Nat]
    /\ rows \in [Helpers -> Seq(Int)]
    /\ tuples \in Int /\ fault \in BOOLEAN
    /\ results \in [HeadSet -> Seq(Seq(Int))]

\* Who charges is tagged: a worker until the helpers have gone, who start
\* when nothing is left to capture or to flush.
InOrder ==
    /\ \A t \in Threads : charges[t] # << >> => t \in tagged
    /\ \A t \in Helpers : t \in tagged <=> stage[t] \notin {"starting", "gone"}
    /\ \A t \in Helpers : stage[t] # "starting" => AllReported
    /\ \A w \in Workers : w \notin tagged => \A t \in Helpers : stage[t] = "gone"
    /\ \A w \in Workers : flushed[w] > 0 => Complete

\* A head that has been claimed is with one helper or has settled.
Apart ==
    /\ \A t \in Helpers : Holding(t) =>
         /\ claimed[t] \in HeadSet /\ claimed[t] < next
         /\ results[claimed[t]] = << >>
         /\ \A u \in Helpers : Holding(u) /\ claimed[u] = claimed[t] => u = t
    /\ \A t \in Helpers : stage[t] \notin {"counting", "storing"} => rows[t] = << >>
    /\ \A h \in HeadSet : h >= next => results[h] = << >>
    /\ \A h \in HeadSet :
         h < next => \/ Len(results[h]) = 1
                     \/ \E t \in Helpers : Holding(t) /\ claimed[t] = h
    /\ \A t \in Helpers : stage[t] \in {"leaving", "gone"} => next > Heads

\* The tuples counted are those that have settled and those about to.
Counted(t) == IF stage[t] = "storing" THEN Len(rows[t]) ELSE 0

ListBytes(lists) == SumFunction([h \in HeadSet |-> TotalLen(lists[h])])

TuplesAreCounted ==
    /\ tuples = ListBytes(results) + SumFunction([t \in Helpers |-> Counted(t)])
    /\ fault <=> tuples > TupleLimit

MaterializationInv ==
    MemoryInv /\ Types /\ InOrder /\ Apart /\ TuplesAreCounted /\ BytesAreCharged
-----------------------------------------------------------------------------
(* What is held and what is owed *)

LEMMA SetsAreFinite ==
    /\ IsFiniteSet(Workers) /\ IsFiniteSet(Helpers) /\ IsFiniteSet(Threads) /\ IsFiniteSet(HeadSet)
<1>1. IsFiniteSet(Workers) /\ IsFiniteSet(HeadSet) /\ IsFiniteSet(Helpers)
    BY PeersAssumption, MaterializationAssumption, FS_Interval DEF Workers, HeadSet
<1> QED
    BY <1>1, MaterializationAssumption, FS_Union

BufferBytes(captured) == SumFunction([w \in Workers |-> TotalLen(captured[w])])

DifferAt(x, S, f, g) == \A y \in S \ {x} : g[y] = f[y]

LEMMA WorkerChange ==
    ASSUME NEW b \in [Workers -> [HeadSet -> Batches]], NEW c \in [Workers -> [HeadSet -> Batches]],
           NEW w \in Workers, DifferAt(w, Workers, b, c)
    PROVE  /\ BufferBytes(b) \in Int /\ TotalLen(b[w]) \in Int /\ TotalLen(c[w]) \in Int
           /\ BufferBytes(c) = BufferBytes(b) - TotalLen(b[w]) + TotalLen(c[w])
<1> DEFINE f == [v \in Workers |-> TotalLen(b[v])]
           g == [v \in Workers |-> TotalLen(c[v])]
<1>1. ASSUME NEW v \in Workers
      PROVE  TotalLen(b[v]) \in Int /\ TotalLen(c[v]) \in Int
    <2>1. b[v] \in [HeadSet -> Batches] /\ c[v] \in [HeadSet -> Batches]
        OBVIOUS
    <2> QED
        BY <2>1, SetsAreFinite, TotalLenType DEF Batches
<1>2. /\ f \in [Workers -> Int] /\ g \in [Workers -> Int]
      /\ \A v \in Workers \ {w} : g[v] = f[v]
    BY <1>1 DEF DifferAt
<1>3. f[w] = TotalLen(b[w]) /\ g[w] = TotalLen(c[w])
    OBVIOUS
<1>4. BufferBytes(b) = SumFunction(f) /\ BufferBytes(c) = SumFunction(g)
    BY DEF BufferBytes
<1> HIDE DEF f, g
<1>5. SumFunction(g) = SumFunction(f) - f[w] + g[w]
    BY <1>2, SetsAreFinite, SumChange
<1>6. SumFunction(f) \in Int
    BY <1>2, SetsAreFinite, SumType
<1> QED
    BY <1>1, <1>3, <1>4, <1>5, <1>6

LEMMA BufferChange ==
    ASSUME NEW b \in [Workers -> [HeadSet -> Batches]], NEW c \in [Workers -> [HeadSet -> Batches]],
           NEW w \in Workers, NEW h \in HeadSet,
           DifferAt(w, Workers, b, c), DifferAt(h, HeadSet, b[w], c[w])
    PROVE  BufferBytes(c) = BufferBytes(b) - Len(b[w][h]) + Len(c[w][h])
<1> DEFINE f == Lengths(b[w])
           g == Lengths(c[w])
<1>1. /\ f \in [HeadSet -> Int] /\ g \in [HeadSet -> Int]
      /\ \A i \in HeadSet \ {h} : g[i] = f[i]
    BY DEF Lengths, Batches, DifferAt
<1>2. /\ f[h] = Len(b[w][h]) /\ g[h] = Len(c[w][h])
      /\ SumFunction(f) = TotalLen(b[w]) /\ SumFunction(g) = TotalLen(c[w])
      /\ Len(b[w][h]) \in Int /\ Len(c[w][h]) \in Int
    BY DEF Lengths, TotalLen, Batches
<1> HIDE DEF f, g
<1>3. SumFunction(g) = SumFunction(f) - f[h] + g[h]
    BY <1>1, SetsAreFinite, SumChange
<1>4. /\ BufferBytes(b) \in Int /\ TotalLen(b[w]) \in Int /\ TotalLen(c[w]) \in Int
      /\ BufferBytes(c) = BufferBytes(b) - TotalLen(b[w]) + TotalLen(c[w])
    BY WorkerChange
<1>5. TotalLen(c[w]) = TotalLen(b[w]) - Len(b[w][h]) + Len(c[w][h])
    BY <1>2, <1>3
<1>6. Len(b[w][h]) \in Int /\ Len(c[w][h]) \in Int
    BY <1>2
<1> QED
    BY <1>4, <1>5, <1>6

LEMMA TotalLenOfSeq ==
    ASSUME NEW A, NEW s \in Seq(Seq(A))
    PROVE  TotalLen(s) \in Int
<1>1. IsFiniteSet(1 .. Len(s)) /\ s \in [1 .. Len(s) -> Seq(A)]
    BY SequencesAreFinite
<1> QED
    BY <1>1, TotalLenType

LEMMA ListChange ==
    ASSUME NEW A, NEW b \in [HeadSet -> Seq(Seq(A))], NEW c \in [HeadSet -> Seq(Seq(A))],
           NEW h \in HeadSet, \A i \in HeadSet \ {h} : c[i] = b[i]
    PROVE  ListBytes(c) = ListBytes(b) - TotalLen(b[h]) + TotalLen(c[h])
<1> DEFINE f == [i \in HeadSet |-> TotalLen(b[i])]
           g == [i \in HeadSet |-> TotalLen(c[i])]
<1>1. /\ f \in [HeadSet -> Int] /\ g \in [HeadSet -> Int]
      /\ \A i \in HeadSet \ {h} : g[i] = f[i]
    BY TotalLenOfSeq
<1>2. f[h] = TotalLen(b[h]) /\ g[h] = TotalLen(c[h])
    OBVIOUS
<1>3. ListBytes(b) = SumFunction(f) /\ ListBytes(c) = SumFunction(g)
    BY DEF ListBytes
<1> HIDE DEF f, g
<1>4. SumFunction(g) = SumFunction(f) - f[h] + g[h]
    BY <1>1, SetsAreFinite, SumChange
<1> QED
    BY <1>2, <1>3, <1>4

LEMMA RowsChange ==
    ASSUME NEW b \in [Helpers -> Seq(Int)], NEW c \in [Helpers -> Seq(Int)], NEW t \in Helpers,
           \A i \in Helpers \ {t} : c[i] = b[i]
    PROVE  TotalLen(c) = TotalLen(b) - Len(b[t]) + Len(c[t])
<1> DEFINE f == Lengths(b)
           g == Lengths(c)
<1>1. /\ f \in [Helpers -> Int] /\ g \in [Helpers -> Int]
      /\ \A i \in Helpers \ {t} : g[i] = f[i]
    BY DEF Lengths
<1>2. /\ f[t] = Len(b[t]) /\ g[t] = Len(c[t])
      /\ SumFunction(f) = TotalLen(b) /\ SumFunction(g) = TotalLen(c)
    BY DEF Lengths, TotalLen
<1> HIDE DEF f, g
<1>3. SumFunction(g) = SumFunction(f) - f[t] + g[t]
    BY <1>1, SetsAreFinite, SumChange
<1> QED
    BY <1>2, <1>3

\* What a thread has still to add to the counter, and what they all have.
Unaccounted(t) == (IF t \in tagged THEN pending[t] ELSE 0) + SumFunction(charges[t])

Owed == SumFunction([t \in Threads |-> Unaccounted(t)])

LEMMA OwedType ==
    ASSUME MemoryTypes
    PROVE  Owed \in Int /\ [t \in Threads |-> Unaccounted(t)] \in [Threads -> Int]
<1>1. ASSUME NEW t \in Threads
      PROVE  Unaccounted(t) \in Int
    <2>1. charges[t] \in Seq(Int) /\ pending[t] \in Int
        BY DEF MemoryTypes
    <2>2. SumFunction(charges[t]) \in Int
        BY <2>1, SequencesAreFinite, SumType
    <2> QED
        BY <2>1, <2>2 DEF Unaccounted
<1>2. [t \in Threads |-> Unaccounted(t)] \in [Threads -> Int]
    BY <1>1
<1> QED
    BY <1>2, SetsAreFinite, SumType DEF Owed

LEMMA OwedChange ==
    ASSUME MemoryTypes, MemoryTypes', NEW t \in Threads,
           \A u \in Threads \ {t} : /\ u \in tagged <=> u \in tagged'
                                    /\ pending[u] = pending'[u] /\ charges[u] = charges'[u]
    PROVE  /\ Owed \in Int /\ Unaccounted(t) \in Int /\ Unaccounted(t)' \in Int
           /\ Owed' = Owed - Unaccounted(t) + Unaccounted(t)'
<1> DEFINE f == [u \in Threads |-> Unaccounted(u)]
           g == [u \in Threads |-> Unaccounted(u)']
<1>1. f \in [Threads -> Int] /\ Owed \in Int
    BY OwedType
<1>2. g \in [Threads -> Int]
    <2>1. ASSUME NEW v \in Threads
          PROVE  Unaccounted(v)' \in Int
        <3>1. charges'[v] \in Seq(Int) /\ pending'[v] \in Int
            BY DEF MemoryTypes
        <3>2. SumFunction(charges'[v]) \in Int
            BY <3>1, SequencesAreFinite, SumType
        <3> QED
            BY <3>1, <3>2 DEF Unaccounted
    <2> QED
        BY <2>1
<1>3. \A u \in Threads \ {t} : g[u] = f[u]
    BY DEF Unaccounted
<1>4. Owed = SumFunction(f) /\ Owed' = SumFunction(g)
    BY DEF Owed
<1>5. f[t] = Unaccounted(t) /\ g[t] = Unaccounted(t)'
    OBVIOUS
<1> HIDE DEF f, g
<1>6. SumFunction(g) = SumFunction(f) - f[t] + g[t]
    BY <1>1, <1>2, <1>3, SetsAreFinite, SumChange
<1> QED
    BY <1>1, <1>2, <1>4, <1>5, <1>6

LEMMA AccountOwes ==
    ASSUME MemoryTypes, MemoryTypes', NEW t \in Threads, t \in tagged, Len(charges[t]) <= 2,
           Account(t)
    PROVE  /\ current' + Owed' = current + Owed
           /\ charges' = [charges EXCEPT ![t] = Tail(@)]
           /\ Len(charges'[t]) <= 2 /\ charges[t] # << >> /\ UNCHANGED tagged
<1> DEFINE c == charges[t]
           rest == Tail(charges[t])
           first == Head(charges[t])
<1>1. charges' = [charges EXCEPT ![t] = rest] /\ UNCHANGED tagged /\ c # << >>
    BY DEF Account
<1>2. c \in Seq(Int) /\ charges'[t] = rest /\ pending[t] \in Int /\ current \in Int
    BY <1>1 DEF MemoryTypes
<1>3. /\ rest \in Seq(Int) /\ Len(rest) <= 2 /\ first \in Int
      /\ SumFunction(c) = first + SumFunction(rest)
    <2> HIDE DEF c
    <2>1. Tail(c) \in Seq(Int) /\ Len(Tail(c)) <= 2 /\ Head(c) \in Int
          /\ SumFunction(c) = Head(c) + SumFunction(Tail(c))
        BY <1>1, <1>2, SumOfTwo DEF c
    <2> QED
        BY <2>1 DEF c
<1>4. SumFunction(rest) \in Int
    <2> HIDE DEF rest
    <2> QED
        BY <1>3, SequencesAreFinite, SumType
<1> HIDE DEF rest, first
<1>5. /\ pending' \in [Threads -> Int]
      /\ \A u \in Threads \ {t} : pending[u] = pending'[u]
      /\ current' = pending[t] + first + current - pending'[t]
    <2>1. CASE FlushPending(t, pending[t] + first)
        BY <1>2, <1>3, <2>1 DEF FlushPending, MemoryTypes
    <2>2. CASE /\ pending' = [pending EXCEPT ![t] = pending[t] + first]
               /\ UNCHANGED <<current, added, highest>>
        BY <1>2, <1>3, <2>2 DEF MemoryTypes
    <2> QED
        BY <2>1, <2>2 DEF Account, first
<1>6. /\ Owed \in Int /\ Unaccounted(t) \in Int /\ Unaccounted(t)' \in Int
      /\ Owed' = Owed - Unaccounted(t) + Unaccounted(t)'
    <2>1. \A u \in Threads \ {t} : /\ u \in tagged <=> u \in tagged'
                                   /\ pending[u] = pending'[u] /\ charges[u] = charges'[u]
        BY <1>1, <1>5 DEF MemoryTypes
    <2> QED
        BY <2>1, OwedChange
<1>7. Unaccounted(t) = pending[t] + first + SumFunction(rest)
    BY <1>2, <1>3, <1>4 DEF Unaccounted, c
<1>8. Unaccounted(t)' = pending'[t] + SumFunction(rest)
    BY <1>1, <1>2 DEF Unaccounted
<1>9. pending'[t] \in Int /\ current' \in Int
    BY DEF MemoryTypes
<1>10. current' + Owed' = current + Owed
    <2>1. /\ first \in Int /\ pending[t] \in Int /\ current \in Int
          /\ current' = pending[t] + first + current - pending'[t]
        BY <1>2, <1>3, <1>5
    <2> DEFINE s == SumFunction(rest)
               p == pending[t]
               q == pending'[t]
               u == Unaccounted(t)
               v == Unaccounted(t)'
    <2>2. /\ s \in Int /\ p \in Int /\ q \in Int /\ u = p + first + s /\ v = q + s
          /\ current' = p + first + current - q
          /\ Owed \in Int /\ Owed' = Owed - u + v /\ first \in Int
          /\ current \in Int /\ current' \in Int
        BY <1>4, <1>6, <1>7, <1>8, <1>9, <2>1
    <2> HIDE DEF s, p, q, u, v
    <2> QED
        BY <2>2
<1> QED
    BY <1>1, <1>2, <1>3, <1>10 DEF rest, c

LEMMA TagOwes ==
    ASSUME MemoryTypes, MemoryTypes', NEW t \in Threads, charges[t] = << >>,
           (t \notin tagged /\ Tag(t)) \/ (t \in tagged /\ Untag(t))
    PROVE  current' + Owed' = current + Owed
<1>1. charges' = charges /\ SumFunction(charges[t]) = 0 /\ pending[t] \in Int /\ current \in Int
    BY SumOfEmpty DEF Tag, Untag, MemoryTypes
<1>2. /\ Owed \in Int /\ Unaccounted(t) \in Int /\ Unaccounted(t)' \in Int
      /\ Owed' = Owed - Unaccounted(t) + Unaccounted(t)'
    <2>1. \A u \in Threads \ {t} : /\ u \in tagged <=> u \in tagged'
                                   /\ pending[u] = pending'[u] /\ charges[u] = charges'[u]
        BY <1>1 DEF Tag, Untag, FlushPending, MemoryTypes
    <2> QED
        BY <2>1, OwedChange
<1>3. CASE t \notin tagged /\ Tag(t)
    <2>1. /\ t \in tagged' /\ pending'[t] = 0 /\ current' = current
        BY <1>3 DEF Tag, MemoryTypes
    <2>2. Unaccounted(t) = 0 /\ Unaccounted(t)' = 0
        BY <1>1, <1>3, <2>1 DEF Unaccounted
    <2> QED
        BY <1>1, <1>2, <2>1, <2>2
<1>4. CASE t \in tagged /\ Untag(t)
    <2>1. t \notin tagged' /\ current' = current + pending[t]
        BY <1>4 DEF Untag, FlushPending
    <2>2. Unaccounted(t) = pending[t] /\ Unaccounted(t)' = 0
        BY <1>1, <1>4, <2>1 DEF Unaccounted
    <2> QED
        BY <1>1, <1>2, <2>1, <2>2
<1> QED
    BY <1>3, <1>4

LEMMA ChargeOwes ==
    ASSUME MemoryTypes, NEW t \in Threads, t \in tagged, Settled(t), NEW m \in Int, NEW n \in Int,
           Charge(t, m, n)
    PROVE  /\ current' + Owed' = current + Owed + m - n
           /\ Gather(t) /\ MemoryTypes' /\ UNCHANGED tagged
           /\ \A u \in Threads \ {t} : charges'[u] = charges[u]
           /\ Len(charges'[t]) <= 2
<1> DEFINE sizes == Sizes(m) \o Sizes(-n)
<1>1. /\ sizes \in Seq(Int) /\ Len(sizes) <= 2 /\ SumFunction(sizes) = m - n
    <2>1. -n \in Int
        OBVIOUS
    <2>2. sizes \in Seq(Int) /\ Len(sizes) <= 2 /\ SumFunction(sizes) = m + (-n)
        BY <2>1, SumOfSizes
    <2> QED
        BY <2>2
<1>2. /\ charges' = [charges EXCEPT ![t] = sizes]
      /\ UNCHANGED <<tagged, pending, current, peak, added, higher, highest>>
    BY DEF Charge
<1> HIDE DEF sizes
<1>3. MemoryTypes' /\ charges'[t] = sizes /\ \A u \in Threads \ {t} : charges'[u] = charges[u]
    BY <1>1, <1>2 DEF MemoryTypes
<1>4. Gather(t)
    BY <1>1, <1>2 DEF Gather
<1>5. /\ Owed \in Int /\ Unaccounted(t) \in Int /\ Unaccounted(t)' \in Int
      /\ Owed' = Owed - Unaccounted(t) + Unaccounted(t)'
    <2>1. \A u \in Threads \ {t} : /\ u \in tagged <=> u \in tagged'
                                   /\ pending[u] = pending'[u] /\ charges[u] = charges'[u]
        BY <1>2, <1>3
    <2> QED
        BY <1>3, <2>1, OwedChange
<1>6. pending[t] \in Int /\ current \in Int /\ charges[t] = << >>
    BY DEF MemoryTypes, Settled
<1>7. Unaccounted(t) = pending[t]
    BY <1>6, SumOfEmpty DEF Unaccounted
<1>8. Unaccounted(t)' = pending[t] + m - n
    BY <1>1, <1>2, <1>3, <1>6 DEF Unaccounted
<1>9. current' + Owed' = current + Owed + m - n
    BY <1>2, <1>5, <1>6, <1>7, <1>8
<1> QED
    BY <1>1, <1>2, <1>3, <1>4, <1>9
-----------------------------------------------------------------------------
(* The invariant holds initially *)

Held == BufferBytes(buffer) + ListBytes(batches) + ListBytes(results) + TotalLen(rows)

CountedSum == SumFunction([t \in Helpers |-> Counted(t)])

LEMMA BytesAre ==
    /\ BytesAreCharged <=> current + Owed = Held
    /\ BytesAreCharged' <=> current' + Owed' = Held'
<1>1. BytesAreCharged <=> current + Owed = Held
    BY DEF BytesAreCharged, Owed, Unaccounted, Held, BufferBytes, ListBytes
<1>2. BytesAreCharged' <=> current' + Owed' = Held'
    BY DEF BytesAreCharged, Owed, Unaccounted, Held, BufferBytes, ListBytes
<1> QED
    BY <1>1, <1>2

LEMMA ThreadsAre ==
    /\ Workers \in SUBSET Threads /\ Helpers \in SUBSET Threads
    /\ \A t \in Threads : t \in Workers <=> t \notin Helpers
    /\ Heads \in Nat /\ TupleLimit \in Nat /\ HeadSet = 1 .. Heads
    /\ \E t : t \in Helpers
BY MaterializationAssumption DEF HeadSet

LEMMA InitHolds ==
    ASSUME Init
    PROVE  MaterializationInv
<1>1. MemoryInv
    <2>1. Workers \in SUBSET Threads
        BY ThreadsAre
    <2> QED
        BY <2>1, InitMemory DEF Init
<1>2. /\ tagged = Workers /\ charges = [t \in Threads |-> << >>] /\ current = 0
      /\ \E own \in 0 .. FlushBytes - 1 : pending = [t \in Threads |-> IF t \in Workers THEN 0 ELSE own]
    BY DEF Init, AccountingInit
<1>3. << >> \in Batches /\ << >> \in Seq(Batches) /\ << >> \in Seq(Int) /\ << >> \in Seq(Seq(Int))
      /\ Len(<< >>) = 0
    BY DEF Batches
<1>4. Types
    <2>1. tagged \in SUBSET Threads /\ \A t \in Threads : Len(charges[t]) <= 2
        BY <1>2, <1>3, ThreadsAre
    <2>2. buffer \in [Workers -> [HeadSet -> Batches]] /\ batches \in [HeadSet -> Seq(Batches)]
        BY <1>3 DEF Init
    <2>3. rows \in [Helpers -> Seq(Int)] /\ results \in [HeadSet -> Seq(Seq(Int))]
        BY <1>3 DEF Init
    <2>4. flushed \in [Workers -> 0 .. Heads] /\ next \in Nat \ {0} /\ stage \in [Helpers -> Stages]
          /\ claimed \in [Helpers -> Nat]
        BY ThreadsAre DEF Init, Stages
    <2>5. fed \in SUBSET Workers /\ moving = {} /\ retractions \in Nat /\ tuples \in Int
        BY DEF Init
    <2>6. fault \in BOOLEAN
        BY Zenon DEF Init
    <2> QED
        BY <2>1, <2>2, <2>3, <2>4, <2>5, <2>6 DEF Types
<1>5. InOrder
    BY <1>2, ThreadsAre DEF InOrder, Init
<1>6. Apart
    <2>1. \A h \in HeadSet : ~ (h < 1)
        BY ThreadsAre
    <2> QED
        BY <2>1 DEF Apart, Init, Holding
<1>7. ListBytes(results) = 0 /\ ListBytes(batches) = 0
    <2>1. \A h \in HeadSet : TotalLen(results[h]) = 0 /\ TotalLen(batches[h]) = 0
        BY TotalLenOfEmpty DEF Init
    <2> DEFINE f == [h \in HeadSet |-> TotalLen(results[h])]
               g == [h \in HeadSet |-> TotalLen(batches[h])]
    <2>2. f \in [HeadSet -> Int] /\ g \in [HeadSet -> Int] /\ \A h \in HeadSet : f[h] = 0 /\ g[h] = 0
        BY <2>1
    <2> HIDE DEF f, g
    <2>3. SumFunction(f) = 0 /\ SumFunction(g) = 0
        BY <2>2, SetsAreFinite, SumOfZeros
    <2> QED
        BY <2>3 DEF ListBytes, f, g
<1>8. CountedSum = 0
    <2> DEFINE f == [t \in Helpers |-> Counted(t)]
    <2>1. f \in [Helpers -> Int] /\ \A t \in Helpers : f[t] = 0
        BY DEF Counted, Init
    <2> HIDE DEF f
    <2>2. SumFunction(f) = 0
        BY <2>1, SetsAreFinite, SumOfZeros
    <2> QED
        BY <2>2 DEF CountedSum, f
<1>9. TotalLen(rows) = 0
    <2> DEFINE f == Lengths(rows)
    <2>1. f \in [Helpers -> Int] /\ \A t \in Helpers : f[t] = 0
        BY <1>3 DEF Lengths, Init
    <2> HIDE DEF f
    <2>2. SumFunction(f) = 0
        BY <2>1, SetsAreFinite, SumOfZeros
    <2> QED
        BY <2>2 DEF TotalLen, Lengths, f
<1>10. BufferBytes(buffer) = 0
    <2>1. ASSUME NEW w \in Workers
          PROVE  TotalLen(buffer[w]) = 0
        <3> DEFINE f == Lengths(buffer[w])
        <3>1. f \in [HeadSet -> Int] /\ \A h \in HeadSet : f[h] = 0
            BY <1>3 DEF Lengths, Init
        <3> HIDE DEF f
        <3>2. SumFunction(f) = 0
            BY <3>1, SetsAreFinite, SumOfZeros
        <3> QED
            BY <3>2 DEF TotalLen, Lengths, f
    <2> DEFINE g == [w \in Workers |-> TotalLen(buffer[w])]
    <2>2. g \in [Workers -> Int] /\ \A w \in Workers : g[w] = 0
        BY <2>1
    <2> HIDE DEF g
    <2>3. SumFunction(g) = 0
        BY <2>2, SetsAreFinite, SumOfZeros
    <2> QED
        BY <2>3 DEF BufferBytes, g
<1>11. Owed = 0
    <2> DEFINE f == [t \in Threads |-> Unaccounted(t)]
    <2>1. \A t \in Threads : Unaccounted(t) = 0
        BY <1>2, SumOfEmpty DEF Unaccounted
    <2>2. f \in [Threads -> Int] /\ \A t \in Threads : f[t] = 0
        BY <2>1
    <2> HIDE DEF f
    <2>3. SumFunction(f) = 0
        BY <2>2, SetsAreFinite, SumOfZeros
    <2> QED
        BY <2>3 DEF Owed, f
<1>12. TuplesAreCounted
    <2>1. tuples = 0 /\ fault = FALSE /\ ~ (0 > TupleLimit)
        BY ThreadsAre DEF Init
    <2> QED
        BY <1>7, <1>8, <2>1 DEF TuplesAreCounted, CountedSum
<1>13. BytesAreCharged
    BY <1>2, <1>7, <1>9, <1>10, <1>11, BytesAre DEF Held
<1> QED
    BY <1>1, <1>4, <1>5, <1>6, <1>12, <1>13 DEF MaterializationInv
-----------------------------------------------------------------------------
(* Every step keeps the invariant *)

LEMMA OwedStays ==
    ASSUME UNCHANGED <<tagged, pending, charges>>
    PROVE  Owed' = Owed
<1>1. \A t \in Threads : Unaccounted(t)' = Unaccounted(t)
    BY DEF Unaccounted
<1>2. [t \in Threads |-> Unaccounted(t)'] = [t \in Threads |-> Unaccounted(t)]
    BY <1>1
<1> QED
    BY <1>2 DEF Owed

LEMMA HeldStays ==
    ASSUME UNCHANGED <<buffer, batches, results, rows>>
    PROVE  Held' = Held
BY DEF Held

LEMMA CountedStays ==
    ASSUME \A t \in Helpers : Counted(t)' = Counted(t)
    PROVE  CountedSum' = CountedSum
<1>1. [t \in Helpers |-> Counted(t)'] = [t \in Helpers |-> Counted(t)]
    OBVIOUS
<1> QED
    BY <1>1 DEF CountedSum

LEMMA SettlingStays ==
    ASSUME MaterializationInv, UNCHANGED <<next, stage, claimed, rows, tuples, fault, results>>
    PROVE  Apart' /\ TuplesAreCounted'
<1>1. Apart'
    BY DEF MaterializationInv, Apart, Holding
<1>2. CountedSum' = CountedSum
    <2>1. \A t \in Helpers : Counted(t)' = Counted(t)
        BY DEF Counted
    <2> QED
        BY <2>1, CountedStays
<1>3. TuplesAreCounted'
    BY <1>2 DEF MaterializationInv, TuplesAreCounted, CountedSum
<1> QED
    BY <1>1, <1>3

LEMMA FeedKeeps ==
    ASSUME MaterializationInv, NEW w \in Workers, Feed(w)
    PROVE  MaterializationInv'
<1> USE DEF MaterializationInv
<1>1. UNCHANGED <<memory, retractions, buffer, flushed, settling>>
    BY DEF Feed
<1>2. MemoryInv'
    BY <1>1, MemoryStep
<1>3. Types'
    <2>1. fed' \in SUBSET Workers
        BY DEF Feed, Types
    <2>2. \A u \in moving' : u.head \in HeadSet /\ u.row \in Int /\ u.weight \in Int
        <3>1. ASSUME NEW h \in HeadSet, NEW j \in Share(w, InputLen[h])
              PROVE  /\ Update(h, j + 1, 1, 0).head \in HeadSet
                     /\ Update(h, j + 1, 1, 0).row \in Int
                     /\ Update(h, j + 1, 1, 0).weight \in Int
            BY MaterializationAssumption DEF Update, Share
        <3>2. ASSUME NEW u \in moving', u \notin moving
              PROVE  \E h \in HeadSet : \E j \in Share(w, InputLen[h]) : u = Update(h, j + 1, 1, 0)
            BY <3>2 DEF Feed
        <3> QED
            BY <3>1, <3>2 DEF Types
    <2> QED
        BY <1>1, <2>1, <2>2 DEF Types, memory, settling
<1>4. InOrder'
    BY <1>1 DEF Feed, InOrder, Complete, AllReported, memory, settling
<1>5. Apart' /\ TuplesAreCounted'
    BY <1>1, SettlingStays DEF settling
<1>6. BytesAreCharged'
    <2>1. Owed' = Owed /\ Held' = Held /\ current' = current
        BY <1>1, OwedStays, HeldStays DEF memory, settling
    <2> QED
        BY <2>1, BytesAre
<1> QED
    BY <1>2, <1>3, <1>4, <1>5, <1>6

LEMMA RetractKeeps ==
    ASSUME MaterializationInv, NEW h \in HeadSet, Retract(h)
    PROVE  MaterializationInv'
<1> USE DEF MaterializationInv
<1>1. UNCHANGED <<memory, fed, buffer, flushed, settling>>
    BY DEF Retract
<1>2. MemoryInv'
    BY <1>1, MemoryStep
<1>3. Types'
    <2>1. retractions' \in Nat
        BY DEF Retract, Types
    <2>2. \A u \in moving' : u.head \in HeadSet /\ u.row \in Int /\ u.weight \in Int
        BY DEF Retract, Types, Update
    <2> QED
        BY <1>1, <2>1, <2>2 DEF Types, memory, settling
<1>4. InOrder'
    BY <1>1 DEF Retract, InOrder, Complete, AllReported, memory, settling
<1>5. Apart' /\ TuplesAreCounted'
    BY <1>1, SettlingStays DEF settling
<1>6. BytesAreCharged'
    <2>1. Owed' = Owed /\ Held' = Held /\ current' = current
        BY <1>1, OwedStays, HeldStays DEF memory, settling
    <2> QED
        BY <2>1, BytesAre
<1> QED
    BY <1>2, <1>3, <1>4, <1>5, <1>6

LEMMA ListBytesType ==
    ASSUME NEW A, NEW b \in [HeadSet -> Seq(Seq(A))]
    PROVE  ListBytes(b) \in Int
<1> DEFINE f == [h \in HeadSet |-> TotalLen(b[h])]
<1>1. f \in [HeadSet -> Int]
    BY TotalLenOfSeq
<1> HIDE DEF f
<1>2. SumFunction(f) \in Int
    BY <1>1, SetsAreFinite, SumType
<1> QED
    BY <1>2 DEF ListBytes, f

LEMMA HeldType ==
    ASSUME Types
    PROVE  /\ ListBytes(batches) \in Int /\ ListBytes(results) \in Int /\ TotalLen(rows) \in Int
           /\ BufferBytes(buffer) \in Int
<1>1. ListBytes(batches) \in Int
    BY ListBytesType DEF Types, Batches
<1>2. ListBytes(results) \in Int
    BY ListBytesType DEF Types
<1>3. TotalLen(rows) \in Int
    BY SetsAreFinite, TotalLenType DEF Types
<1>4. BufferBytes(buffer) \in Int
    <2> DEFINE f == [w \in Workers |-> TotalLen(buffer[w])]
    <2>1. ASSUME NEW w \in Workers
          PROVE  TotalLen(buffer[w]) \in Int
        <3>1. buffer[w] \in [HeadSet -> Batches]
            BY DEF Types
        <3> QED
            BY <3>1, SetsAreFinite, TotalLenType DEF Batches
    <2>2. f \in [Workers -> Int]
        BY <2>1
    <2> HIDE DEF f
    <2>3. SumFunction(f) \in Int
        BY <2>2, SetsAreFinite, SumType
    <2> QED
        BY <2>3 DEF BufferBytes, f
<1> QED
    BY <1>1, <1>2, <1>3, <1>4

LEMMA WorkerIsTagged ==
    ASSUME MaterializationInv, NEW w \in Workers, ~ AllReported
    PROVE  w \in tagged
<1>1. PICK t \in Helpers : TRUE
    BY ThreadsAre
<1>2. stage[t] = "starting"
    BY DEF MaterializationInv, InOrder
<1> QED
    BY <1>2 DEF MaterializationInv, InOrder

LEMMA ArriveKeeps ==
    ASSUME MaterializationInv, NEW w \in Workers, NEW u \in moving, Arrive(w, u)
    PROVE  MaterializationInv'
<1> USE DEF MaterializationInv
<1> DEFINE h == u.head
           old == buffer[w][h]
           new == Append(old, <<u.row, u.weight>>)
<1>1. /\ Settled(w) /\ Charge(w, 1, 0)
      /\ moving' = moving \ {u} /\ UNCHANGED <<fed, retractions, flushed, settling>>
      /\ buffer' = [buffer EXCEPT ![w][h] = new]
    BY DEF Arrive
<1>2. h \in HeadSet /\ <<u.row, u.weight>> \in Int \X Int /\ old \in Batches
    BY DEF Types
<1> HIDE DEF h, old
<1>3. new \in Batches /\ Len(new) = Len(old) + 1 /\ Len(old) \in Int
    BY <1>2 DEF Batches
<1> HIDE DEF new
<1>4. w \in Threads /\ w \in tagged
    <2>1. ~ Complete
        BY DEF Complete
    <2>2. Heads > 0 /\ flushed[w] \in 0 .. Heads
        BY <1>2, ThreadsAre DEF Types
    <2>3. ~ (flushed[w] > 0)
        BY <2>1 DEF InOrder
    <2>4. ~ AllReported
        BY <2>2, <2>3 DEF AllReported
    <2> QED
        BY <2>4, WorkerIsTagged, ThreadsAre
<1>5. MemoryTypes /\ 1 \in Int /\ 0 \in Int
    BY DEF MemoryInv
<1>6. /\ current' + Owed' = current + Owed + 1 - 0
      /\ Gather(w) /\ MemoryTypes' /\ UNCHANGED tagged
      /\ \A t \in Threads \ {w} : charges'[t] = charges[t]
      /\ Len(charges'[w]) <= 2
    BY <1>1, <1>4, <1>5, ChargeOwes
<1>7. MemoryInv'
    BY <1>4, <1>6, MemoryStep DEF AccountingNext
<1>8. /\ buffer' \in [Workers -> [HeadSet -> Batches]]
      /\ BufferBytes(buffer') = BufferBytes(buffer) - Len(old) + Len(new)
    <2>1. /\ buffer' \in [Workers -> [HeadSet -> Batches]] /\ buffer \in [Workers -> [HeadSet -> Batches]]
          /\ DifferAt(w, Workers, buffer, buffer') /\ DifferAt(h, HeadSet, buffer[w], buffer'[w])
        BY <1>1, <1>2, <1>3 DEF Types, DifferAt
    <2>2. BufferBytes(buffer') = BufferBytes(buffer) - Len(buffer[w][h]) + Len(buffer'[w][h])
        BY <1>2, <2>1, BufferChange
    <2>3. buffer'[w][h] = new
        BY <1>1, <1>2, <2>1
    <2> QED
        BY <2>1, <2>2, <2>3 DEF old
<1>9. Types'
    <2>1. \A t \in Threads : Len(charges'[t]) <= 2
        BY <1>6 DEF Types
    <2> QED
        BY <1>1, <1>6, <1>8, <2>1 DEF Types, settling
<1>10. InOrder'
    <2>1. \A t \in Threads : charges'[t] # << >> => t \in tagged'
        BY <1>4, <1>6 DEF InOrder
    <2>2. \A v \in Workers : ~ (flushed[v] > 0)
        BY DEF InOrder, Complete
    <2> QED
        BY <1>1, <1>6, <2>1, <2>2 DEF InOrder, AllReported, settling
<1>11. Apart' /\ TuplesAreCounted'
    BY <1>1, SettlingStays DEF settling
<1>12. BytesAreCharged'
    <2>1. /\ current' + Owed' = current + Owed + 1 /\ current + Owed = Held
          /\ Held = BufferBytes(buffer) + ListBytes(batches) + ListBytes(results) + TotalLen(rows)
        <3>1. current \in Int /\ Owed \in Int
            BY <1>5, OwedType DEF MemoryTypes
        <3> QED
            BY <1>6, <3>1, BytesAre DEF Held
    <2>2. /\ ListBytes(batches) \in Int /\ ListBytes(results) \in Int /\ TotalLen(rows) \in Int
          /\ BufferBytes(buffer) \in Int
        BY HeldType
    <2>3. Held' = BufferBytes(buffer') + ListBytes(batches) + ListBytes(results) + TotalLen(rows)
        BY <1>1 DEF Held, settling
    <2>4. current' + Owed' = Held'
        BY <1>3, <1>8, <2>1, <2>2, <2>3
    <2> QED
        BY <2>4, BytesAre
<1> QED
    BY <1>7, <1>9, <1>10, <1>11, <1>12

\* A batch is published, if there is anything in it.
Published(b, c, h, batch) == c = IF batch = << >> THEN b ELSE [b EXCEPT ![h] = Append(@, batch)]

LEMMA PublishBytes ==
    ASSUME NEW b \in [HeadSet -> Seq(Batches)], NEW c, NEW h \in HeadSet, NEW batch \in Batches,
           Published(b, c, h, batch)
    PROVE  c \in [HeadSet -> Seq(Batches)] /\ ListBytes(c) = ListBytes(b) + Len(batch)
<1>1. ListBytes(b) \in Int /\ TotalLen(b[h]) \in Int /\ Len(batch) \in Int
    BY ListBytesType, TotalLenOfSeq DEF Batches
<1>2. CASE batch = << >>
    <2>1. c = b /\ Len(batch) = 0
        BY <1>2 DEF Published
    <2> QED
        BY <1>1, <2>1
<1>3. CASE batch # << >>
    <2>1. c \in [HeadSet -> Seq(Batches)] /\ c[h] = Append(b[h], batch)
        BY <1>3 DEF Published
    <2>2. \A i \in HeadSet \ {h} : c[i] = b[i]
        BY <1>3 DEF Published
    <2> DEFINE d == c
    <2>3. d \in [HeadSet -> Seq(Batches)] /\ \A i \in HeadSet \ {h} : d[i] = b[i]
        BY <2>1, <2>2
    <2> HIDE DEF d
    <2>4. ListBytes(d) = ListBytes(b) - TotalLen(b[h]) + TotalLen(d[h])
        BY <2>3, ListChange DEF Batches
    <2>5. TotalLen(Append(b[h], batch)) = TotalLen(b[h]) + Len(batch)
        BY TotalLenAppend DEF Batches
    <2>6. TotalLen(d[h]) = TotalLen(b[h]) + Len(batch)
        BY <2>1, <2>5 DEF d
    <2>7. ListBytes(d) = ListBytes(b) + Len(batch)
        BY <1>1, <2>4, <2>6
    <2> QED
        BY <2>1, <2>7 DEF d
<1> QED
    BY <1>2, <1>3

LEMMA FlushStepKeeps ==
    ASSUME MaterializationInv, NEW w \in Workers, Flush(w)
    PROVE  MaterializationInv'
<1> USE DEF MaterializationInv
<1> DEFINE h == flushed[w] + 1
           old == buffer[w][h]
           batch == AsBatch(old)
<1>1. /\ Complete /\ flushed[w] < Heads /\ Settled(w) /\ Charge(w, Len(batch), Len(old))
      /\ flushed' = [flushed EXCEPT ![w] = h]
      /\ UNCHANGED <<fed, moving, retractions, next, stage, claimed, rows, tuples, fault, results>>
    BY DEF Flush
<1>2. Published(batches, batches', h, batch)
    BY DEF Flush, Published
<1>3. buffer' = [buffer EXCEPT ![w][h] = << >>]
    BY DEF Flush
<1>4. h \in HeadSet /\ h \in 0 .. Heads /\ old \in Batches
    BY <1>1, ThreadsAre DEF Types
<1> HIDE DEF h, old
<1>5. batch \in Batches
    BY <1>4, AsBatchIs
<1> HIDE DEF batch
<1>6. Len(batch) \in Int /\ Len(old) \in Int
    BY <1>4, <1>5 DEF Batches
<1>7. ~ AllReported /\ w \in tagged /\ w \in Threads
    <2>1. ~ AllReported
        BY <1>1, ThreadsAre DEF AllReported, Types
    <2> QED
        BY <2>1, WorkerIsTagged, ThreadsAre
<1>8. MemoryTypes
    BY DEF MemoryInv
<1>9. /\ current' + Owed' = current + Owed + Len(batch) - Len(old)
      /\ Gather(w) /\ MemoryTypes' /\ UNCHANGED tagged
      /\ \A t \in Threads \ {w} : charges'[t] = charges[t]
      /\ Len(charges'[w]) <= 2
    BY <1>1, <1>6, <1>7, <1>8, ChargeOwes
<1>10. MemoryInv'
    BY <1>7, <1>9, MemoryStep DEF AccountingNext
<1>11. /\ buffer' \in [Workers -> [HeadSet -> Batches]]
       /\ BufferBytes(buffer') = BufferBytes(buffer) - Len(old)
    <2>1. /\ buffer' \in [Workers -> [HeadSet -> Batches]] /\ buffer \in [Workers -> [HeadSet -> Batches]]
          /\ DifferAt(w, Workers, buffer, buffer') /\ DifferAt(h, HeadSet, buffer[w], buffer'[w])
        BY <1>3, <1>4 DEF Types, DifferAt, Batches
    <2>2. BufferBytes(buffer') = BufferBytes(buffer) - Len(buffer[w][h]) + Len(buffer'[w][h])
        BY <1>4, <2>1, BufferChange
    <2>3. Len(buffer'[w][h]) = 0
        BY <1>3, <1>4 DEF Types
    <2>4. BufferBytes(buffer) \in Int
        BY HeldType
    <2> QED
        BY <1>6, <2>1, <2>2, <2>3, <2>4 DEF old
<1>12. batches' \in [HeadSet -> Seq(Batches)] /\ ListBytes(batches') = ListBytes(batches) + Len(batch)
    <2>1. batches \in [HeadSet -> Seq(Batches)]
        BY DEF Types
    <2> QED
        BY <1>2, <1>4, <1>5, <2>1, PublishBytes
<1>13. Types'
    <2>1. \A t \in Threads : Len(charges'[t]) <= 2
        BY <1>9 DEF Types
    <2>2. flushed' \in [Workers -> 0 .. Heads]
        BY <1>1, <1>4 DEF Types
    <2> QED
        BY <1>1, <1>9, <1>11, <1>12, <2>1, <2>2 DEF Types
<1>14. InOrder'
    <2>1. \A t \in Threads : charges'[t] # << >> => t \in tagged'
        BY <1>7, <1>9 DEF InOrder
    <2>2. \A t \in Helpers : stage[t] = "starting"
        BY <1>7 DEF InOrder
    <2>3. Complete'
        BY <1>1 DEF Complete
    <2> QED
        BY <1>1, <1>9, <2>1, <2>2, <2>3 DEF InOrder
<1>15. Apart' /\ TuplesAreCounted'
    BY <1>1, SettlingStays
<1>16. BytesAreCharged'
    <2>1. current' + Owed' = Held + Len(batch) - Len(old)
        BY <1>9, BytesAre
    <2>2. /\ ListBytes(batches) \in Int /\ ListBytes(results) \in Int /\ TotalLen(rows) \in Int
          /\ BufferBytes(buffer) \in Int
        BY HeldType
    <2>3. Held = BufferBytes(buffer) + ListBytes(batches) + ListBytes(results) + TotalLen(rows)
        BY DEF Held
    <2>4. Held' = BufferBytes(buffer') + ListBytes(batches') + ListBytes(results) + TotalLen(rows)
        BY <1>1 DEF Held
    <2>5. current' + Owed' = Held'
        BY <1>6, <1>11, <1>12, <2>1, <2>2, <2>3, <2>4
    <2> QED
        BY <2>5, BytesAre
<1> QED
    BY <1>10, <1>13, <1>14, <1>15, <1>16

LEMMA CountedChange ==
    ASSUME Types, Types', NEW t \in Helpers,
           \A u \in Helpers \ {t} : Counted(u) = Counted(u)'
    PROVE  /\ CountedSum \in Int /\ Counted(t) \in Int /\ Counted(t)' \in Int
           /\ CountedSum' = CountedSum - Counted(t) + Counted(t)'
<1> DEFINE f == [u \in Helpers |-> Counted(u)]
           g == [u \in Helpers |-> Counted(u)']
<1>1. f \in [Helpers -> Int] /\ g \in [Helpers -> Int]
    BY DEF Counted, Types
<1>2. \A u \in Helpers \ {t} : g[u] = f[u]
    OBVIOUS
<1>3. CountedSum = SumFunction(f) /\ CountedSum' = SumFunction(g)
    BY DEF CountedSum
<1>4. f[t] = Counted(t) /\ g[t] = Counted(t)'
    OBVIOUS
<1> HIDE DEF f, g
<1>5. SumFunction(g) = SumFunction(f) - f[t] + g[t]
    BY <1>1, <1>2, SetsAreFinite, SumChange
<1>6. SumFunction(f) \in Int
    BY <1>1, SetsAreFinite, SumType
<1> QED
    BY <1>1, <1>3, <1>4, <1>5, <1>6

LEMMA StartKeeps ==
    ASSUME MaterializationInv, NEW t \in Helpers, Start(t)
    PROVE  MaterializationInv'
<1> USE DEF MaterializationInv
<1>1. /\ AllReported /\ stage[t] = "starting" /\ Settled(t) /\ Tag(t)
      /\ stage' = [stage EXCEPT ![t] = "claiming"]
      /\ UNCHANGED <<fed, moving, retractions, buffer, flushed, batches, next, claimed, rows,
                     tuples, fault, results>>
    BY DEF Start, Goto, dataflow
<1>2. t \in Threads /\ t \notin tagged /\ MemoryTypes
    BY <1>1, ThreadsAre DEF InOrder, MemoryInv
<1>3. MemoryInv'
    BY <1>1, <1>2, MemoryStep DEF AccountingNext, Retag
<1>4. tagged' = tagged \cup {t} /\ charges' = charges /\ current' = current
    BY <1>1 DEF Tag
<1>5. Types'
    BY <1>1, <1>2, <1>4 DEF Types, Stages
<1>6. InOrder'
    <2>1. \A w \in Workers : w \in tagged
        BY <1>1 DEF InOrder
    <2>2. AllReported' /\ (Complete => Complete')
        BY <1>1 DEF AllReported, Complete
    <2> QED
        BY <1>1, <1>4, <2>1, <2>2 DEF InOrder, Types
<1>7. Apart'
    BY <1>1 DEF Apart, Holding, Types
<1>8. TuplesAreCounted'
    <2>1. \A u \in Helpers : Counted(u)' = Counted(u)
        BY <1>1 DEF Counted, Types
    <2> QED
        BY <1>1, <2>1, CountedStays DEF TuplesAreCounted, CountedSum
<1>9. BytesAreCharged'
    <2>1. current' + Owed' = current + Owed
        BY <1>1, <1>2, <1>3, TagOwes DEF Settled, MemoryInv
    <2>2. Held' = Held
        BY <1>1, HeldStays
    <2> QED
        BY <2>1, <2>2, BytesAre
<1> QED
    BY <1>3, <1>5, <1>6, <1>7, <1>8, <1>9

LEMMA ClaimKeeps ==
    ASSUME MaterializationInv, NEW t \in Helpers, Claim(t)
    PROVE  MaterializationInv'
<1> USE DEF MaterializationInv
<1> DEFINE to == IF next > Heads THEN "leaving" ELSE "merging"
<1>1. /\ stage[t] = "claiming" /\ stage' = [stage EXCEPT ![t] = to]
      /\ next' = next + 1 /\ claimed' = [claimed EXCEPT ![t] = next]
      /\ UNCHANGED <<memory, fed, moving, retractions, buffer, flushed, batches, rows,
                     tuples, fault, results>>
    BY DEF Claim, Goto, dataflow
<1>2. MemoryInv'
    BY <1>1, MemoryStep
<1>3. Types'
    BY <1>1 DEF Types, Stages, memory
<1>4. InOrder'
    <2>1. AllReported' <=> AllReported
        BY <1>1 DEF AllReported
    <2>2. Complete' <=> Complete
        BY <1>1 DEF Complete
    <2> QED
        BY <1>1, <2>1, <2>2 DEF InOrder, Types, memory
<1>5. next \in Nat \ {0} /\ Heads \in Nat /\ \A h \in HeadSet : h \in Nat /\ h <= Heads
    BY ThreadsAre DEF Types
<1>6. Apart'
    <2>1. /\ \A u \in Helpers \ {t} : stage'[u] = stage[u] /\ claimed'[u] = claimed[u]
          /\ stage'[t] = to /\ claimed'[t] = next
        BY <1>1 DEF Types
    <2>2. \A u \in Helpers \ {t} : Holding(u)' <=> Holding(u)
        BY <2>1 DEF Holding
    <2>3. ~ Holding(t) /\ (Holding(t)' <=> next <= Heads)
        BY <1>1, <1>5, <2>1 DEF Holding
    <2>4. ASSUME NEW u \in Helpers, Holding(u)'
          PROVE  /\ claimed'[u] \in HeadSet /\ claimed'[u] < next' /\ results'[claimed'[u]] = << >>
                 /\ \A v \in Helpers : Holding(v)' /\ claimed'[v] = claimed'[u] => v = u
        <3>1. CASE u = t
            <4>1. next \in HeadSet /\ results[next] = << >>
                BY <1>5, <2>3, <2>4, <3>1, ThreadsAre DEF Apart
            <4>2. \A v \in Helpers \ {t} : Holding(v)' => claimed'[v] < next
                BY <2>1, <2>2 DEF Apart
            <4> QED
                BY <1>1, <1>5, <2>1, <3>1, <4>1, <4>2
        <3>2. CASE u # t
            <4>1. Holding(u) /\ claimed'[u] = claimed[u]
                BY <2>1, <2>2, <2>4, <3>2
            <4>2. claimed[u] \in HeadSet /\ claimed[u] < next /\ results[claimed[u]] = << >>
                BY <4>1 DEF Apart
            <4>3. \A v \in Helpers \ {t} : Holding(v)' /\ claimed'[v] = claimed'[u] => v = u
                BY <2>1, <2>2, <4>1 DEF Apart
            <4>4. claimed'[t] # claimed'[u] /\ claimed[u] < next + 1
                BY <1>5, <2>1, <4>1, <4>2
            <4> QED
                BY <1>1, <4>1, <4>2, <4>3, <4>4
        <3> QED
            BY <3>1, <3>2
    <2>5. \A u \in Helpers : stage'[u] \notin {"counting", "storing"} => rows'[u] = << >>
        BY <1>1, <2>1 DEF Apart
    <2>6. \A h \in HeadSet : h >= next' => results'[h] = << >>
        BY <1>1, <1>5 DEF Apart
    <2>7. ASSUME NEW h \in HeadSet, h < next'
          PROVE  Len(results'[h]) = 1 \/ \E u \in Helpers : Holding(u)' /\ claimed'[u] = h
        <3>1. CASE h = next
            BY <1>5, <2>1, <2>3, <3>1
        <3>2. CASE h # next
            <4>1. h < next
                BY <1>1, <1>5, <2>7, <3>2
            <4> QED
                BY <1>1, <2>1, <2>2, <2>3, <4>1 DEF Apart
        <3> QED
            BY <3>1, <3>2
    <2>8. \A u \in Helpers : stage'[u] \in {"leaving", "gone"} => next' > Heads
        BY <1>1, <1>5, <2>1 DEF Apart
    <2> QED
        BY <2>4, <2>5, <2>6, <2>7, <2>8 DEF Apart
<1>7. TuplesAreCounted'
    <2>1. \A u \in Helpers : Counted(u)' = Counted(u)
        BY <1>1 DEF Counted, Types
    <2> QED
        BY <1>1, <2>1, CountedStays DEF TuplesAreCounted, CountedSum
<1>8. BytesAreCharged'
    <2>1. Owed' = Owed /\ Held' = Held /\ current' = current
        BY <1>1, OwedStays, HeldStays DEF memory
    <2> QED
        BY <2>1, BytesAre
<1> QED
    BY <1>2, <1>3, <1>4, <1>6, <1>7, <1>8

LEMMA MergeKeeps ==
    ASSUME MaterializationInv, NEW t \in Helpers, Merge(t)
    PROVE  MaterializationInv'
<1> USE DEF MaterializationInv
<1> DEFINE h == claimed[t]
           old == batches[h]
           merged == Consolidate(old)
<1>1. /\ stage[t] = "merging" /\ Settled(t) /\ stage' = [stage EXCEPT ![t] = "counting"]
      /\ UNCHANGED <<fed, moving, retractions, buffer, flushed, next, claimed, tuples, fault, results>>
    BY DEF Merge, Goto, dataflow
<1>2. /\ batches' = [batches EXCEPT ![h] = << >>] /\ rows' = [rows EXCEPT ![t] = merged]
      /\ Charge(t, Len(merged), TotalLen(old))
    BY DEF Merge
<1>3. h \in HeadSet /\ old \in Seq(Batches) /\ rows[t] = << >>
    BY <1>1 DEF Apart, Holding, Types
<1> HIDE DEF h, old
<1>4. merged \in Seq(Int)
    BY <1>3, ConsolidateType
<1> HIDE DEF merged
<1>5. Len(merged) \in Int /\ TotalLen(old) \in Int
    BY <1>3, <1>4, TotalLenOfSeq DEF Batches
<1>6. t \in Threads /\ t \in tagged /\ MemoryTypes
    BY <1>1, ThreadsAre DEF InOrder, MemoryInv
<1>7. /\ current' + Owed' = current + Owed + Len(merged) - TotalLen(old)
      /\ Gather(t) /\ MemoryTypes' /\ UNCHANGED tagged
      /\ \A u \in Threads \ {t} : charges'[u] = charges[u]
      /\ Len(charges'[t]) <= 2
    BY <1>1, <1>2, <1>5, <1>6, ChargeOwes
<1>8. MemoryInv'
    BY <1>6, <1>7, MemoryStep DEF AccountingNext
<1>9. Types'
    <2>1. \A u \in Threads : Len(charges'[u]) <= 2
        BY <1>7 DEF Types
    <2>2. batches' \in [HeadSet -> Seq(Batches)]
        <3>1. << >> \in Seq(Batches)
            OBVIOUS
        <3> QED
            BY <1>2, <3>1 DEF Types
    <2>3. rows' \in [Helpers -> Seq(Int)] /\ stage' \in [Helpers -> Stages]
        BY <1>1, <1>2, <1>4 DEF Types, Stages
    <2> QED
        BY <1>1, <1>7, <2>1, <2>2, <2>3 DEF Types
<1>10. InOrder'
    <2>1. \A u \in Threads : charges'[u] # << >> => u \in tagged'
        BY <1>6, <1>7 DEF InOrder
    <2>2. (AllReported' <=> AllReported) /\ (Complete' <=> Complete)
        BY <1>1 DEF AllReported, Complete
    <2> QED
        BY <1>1, <1>7, <2>1, <2>2 DEF InOrder, Types
<1>11. Apart'
    <2>1. \A u \in Helpers : (Holding(u)' <=> Holding(u)) /\ (u # t => rows'[u] = rows[u])
        BY <1>1, <1>2 DEF Holding, Types
    <2> QED
        BY <1>1, <2>1 DEF Apart, Types
<1>12. TuplesAreCounted'
    <2>1. \A u \in Helpers : Counted(u)' = Counted(u)
        BY <1>1, <1>2 DEF Counted, Types
    <2> QED
        BY <1>1, <2>1, CountedStays DEF TuplesAreCounted, CountedSum
<1>13. ListBytes(batches') = ListBytes(batches) - TotalLen(old)
    <2>1. batches \in [HeadSet -> Seq(Batches)] /\ batches' \in [HeadSet -> Seq(Batches)]
          /\ \A i \in HeadSet \ {h} : batches'[i] = batches[i]
        BY <1>2, <1>9 DEF Types
    <2>2. ListBytes(batches') = ListBytes(batches) - TotalLen(batches[h]) + TotalLen(batches'[h])
        BY <1>3, <2>1, ListChange DEF Batches
    <2>3. TotalLen(batches'[h]) = 0
        BY <1>2, <1>3, TotalLenOfEmpty DEF Types
    <2>4. ListBytes(batches) \in Int
        BY HeldType
    <2> QED
        BY <1>5, <2>2, <2>3, <2>4 DEF old
<1>14. TotalLen(rows') = TotalLen(rows) + Len(merged)
    <2>1. rows \in [Helpers -> Seq(Int)] /\ rows' \in [Helpers -> Seq(Int)]
          /\ \A u \in Helpers \ {t} : rows'[u] = rows[u]
        BY <1>2, <1>9 DEF Types
    <2>2. TotalLen(rows') = TotalLen(rows) - Len(rows[t]) + Len(rows'[t])
        BY <2>1, RowsChange
    <2>3. Len(rows[t]) = 0 /\ rows'[t] = merged
        BY <1>2, <1>3 DEF Types
    <2>4. TotalLen(rows) \in Int
        BY HeldType
    <2> QED
        BY <1>5, <2>2, <2>3, <2>4
<1>15. BytesAreCharged'
    <2>1. current' + Owed' = Held + Len(merged) - TotalLen(old)
        BY <1>7, BytesAre
    <2>2. /\ ListBytes(batches) \in Int /\ ListBytes(results) \in Int /\ TotalLen(rows) \in Int
          /\ BufferBytes(buffer) \in Int
        BY HeldType
    <2>3. Held = BufferBytes(buffer) + ListBytes(batches) + ListBytes(results) + TotalLen(rows)
        BY DEF Held
    <2>4. Held' = BufferBytes(buffer) + ListBytes(batches') + ListBytes(results) + TotalLen(rows')
        BY <1>1 DEF Held
    <2>5. current' + Owed' = Held'
        BY <1>5, <1>13, <1>14, <2>1, <2>2, <2>3, <2>4
    <2> QED
        BY <2>5, BytesAre
<1> QED
    BY <1>8, <1>9, <1>10, <1>11, <1>12, <1>15

LEMMA NoteTuplesKeeps ==
    ASSUME MaterializationInv, NEW t \in Helpers, NoteTuples(t)
    PROVE  MaterializationInv'
<1> USE DEF MaterializationInv
<1>1. /\ stage[t] = "counting" /\ stage' = [stage EXCEPT ![t] = "storing"]
      /\ tuples' = tuples + Len(rows[t])
      /\ UNCHANGED <<memory, fed, moving, retractions, buffer, flushed, batches, next, claimed, rows, results>>
    BY DEF NoteTuples, Goto, dataflow
<1>2. Len(rows[t]) \in Nat /\ tuples \in Int /\ TupleLimit \in Nat
    BY ThreadsAre DEF Types
<1>3. fault' \in BOOLEAN /\ (fault' <=> tuples' > TupleLimit)
    <2>1. fault' = (fault \/ tuples + Len(rows[t]) > TupleLimit)
        BY DEF NoteTuples
    <2>2. fault <=> tuples > TupleLimit
        BY DEF TuplesAreCounted
    <2>3. tuples > TupleLimit => tuples + Len(rows[t]) > TupleLimit
        BY <1>2
    <2>4. tuples' > TupleLimit <=> tuples + Len(rows[t]) > TupleLimit
        BY <1>1
    <2> QED
        BY <2>1, <2>2, <2>3, <2>4, Zenon
<1>4. MemoryInv'
    BY <1>1, MemoryStep
<1>5. Types'
    <2>1. tuples' \in Int
        BY <1>1, <1>2
    <2> QED
        BY <1>1, <1>3, <2>1 DEF Types, Stages, memory
<1>6. InOrder'
    <2>1. (AllReported' <=> AllReported) /\ (Complete' <=> Complete)
        BY <1>1 DEF AllReported, Complete
    <2> QED
        BY <1>1, <2>1 DEF InOrder, Types, memory
<1>7. Apart'
    <2>1. \A u \in Helpers : Holding(u)' <=> Holding(u)
        BY <1>1 DEF Holding, Types
    <2> QED
        BY <1>1, <2>1 DEF Apart, Types
<1>8. TuplesAreCounted'
    <2>1. \A u \in Helpers \ {t} : Counted(u) = Counted(u)'
        BY <1>1 DEF Counted, Types
    <2>2. Counted(t) = 0 /\ Counted(t)' = Len(rows[t])
        BY <1>1 DEF Counted, Types
    <2>3. CountedSum \in Int /\ CountedSum' = CountedSum - Counted(t) + Counted(t)'
        BY <1>5, <2>1, CountedChange
    <2>4. CountedSum' = CountedSum + Len(rows[t])
        BY <1>2, <2>2, <2>3
    <2>5. ListBytes(results) \in Int /\ tuples = ListBytes(results) + CountedSum
        BY HeldType DEF TuplesAreCounted, CountedSum
    <2>6. tuples' = ListBytes(results') + CountedSum'
        BY <1>1, <1>2, <2>3, <2>4, <2>5
    <2> QED
        BY <1>3, <2>6 DEF TuplesAreCounted, CountedSum
<1>9. BytesAreCharged'
    <2>1. Owed' = Owed /\ Held' = Held /\ current' = current
        BY <1>1, OwedStays, HeldStays DEF memory
    <2> QED
        BY <2>1, BytesAre
<1> QED
    BY <1>4, <1>5, <1>6, <1>7, <1>8, <1>9

LEMMA StoreKeeps ==
    ASSUME MaterializationInv, NEW t \in Helpers, Store(t)
    PROVE  MaterializationInv'
<1> USE DEF MaterializationInv
<1> DEFINE h == claimed[t]
           mine == rows[t]
<1>1. /\ stage[t] = "storing" /\ stage' = [stage EXCEPT ![t] = "claiming"]
      /\ UNCHANGED <<memory, fed, moving, retractions, buffer, flushed, batches, next, claimed, tuples, fault>>
    BY DEF Store, Goto, dataflow
<1>2. results' = [results EXCEPT ![h] = <<mine>>] /\ rows' = [rows EXCEPT ![t] = << >>]
    BY DEF Store
<1>3. h \in HeadSet /\ h < next /\ results[h] = << >> /\ Holding(t)
      /\ \A u \in Helpers : Holding(u) /\ claimed[u] = h => u = t
    BY <1>1 DEF Apart, Holding
<1>4. mine \in Seq(Int) /\ Len(mine) \in Int /\ <<mine>> \in Seq(Seq(Int)) /\ Len(<<mine>>) = 1
      /\ << >> \in Seq(Int) /\ Len(<< >>) = 0
    BY DEF Types
<1> HIDE DEF h
<1>5. /\ results' \in [HeadSet -> Seq(Seq(Int))] /\ results'[h] = <<mine>>
      /\ \A i \in HeadSet \ {h} : results'[i] = results[i]
    BY <1>2, <1>3, <1>4 DEF Types
<1>6. /\ rows' \in [Helpers -> Seq(Int)] /\ rows'[t] = << >>
      /\ \A u \in Helpers \ {t} : rows'[u] = rows[u]
    BY <1>2, <1>4 DEF Types
<1>7. /\ stage' \in [Helpers -> Stages] /\ stage'[t] = "claiming"
      /\ \A u \in Helpers \ {t} : stage'[u] = stage[u]
    BY <1>1 DEF Types, Stages
<1>8. MemoryInv'
    BY <1>1, MemoryStep
<1>9. Types'
    BY <1>1, <1>5, <1>6, <1>7 DEF Types, memory
<1>10. InOrder'
    <2>1. (AllReported' <=> AllReported) /\ (Complete' <=> Complete)
        BY <1>1 DEF AllReported, Complete
    <2> QED
        BY <1>1, <1>7, <2>1 DEF InOrder, Types, memory
<1>11. Apart'
    <2>1. ~ Holding(t)' /\ \A u \in Helpers \ {t} : (Holding(u)' <=> Holding(u)) /\ claimed'[u] = claimed[u]
        BY <1>1, <1>7 DEF Holding
    <2>2. ASSUME NEW u \in Helpers, Holding(u)'
          PROVE  /\ claimed'[u] \in HeadSet /\ claimed'[u] < next' /\ results'[claimed'[u]] = << >>
                 /\ \A v \in Helpers : Holding(v)' /\ claimed'[v] = claimed'[u] => v = u
        <3>1. u # t /\ Holding(u) /\ claimed'[u] = claimed[u]
            BY <2>1, <2>2
        <3>2. claimed[u] \in HeadSet /\ claimed[u] < next /\ results[claimed[u]] = << >>
              /\ \A v \in Helpers : Holding(v) /\ claimed[v] = claimed[u] => v = u
            BY <3>1 DEF Apart
        <3>3. claimed[u] # h
            BY <1>3, <3>1
        <3>4. results'[claimed[u]] = << >>
            BY <1>5, <3>2, <3>3
        <3>5. \A v \in Helpers : Holding(v)' /\ claimed'[v] = claimed'[u] => v = u
            BY <2>1, <3>1, <3>2
        <3> QED
            BY <1>1, <3>1, <3>2, <3>4, <3>5
    <2>3. \A u \in Helpers : stage'[u] \notin {"counting", "storing"} => rows'[u] = << >>
        BY <1>6, <1>7 DEF Apart
    <2>4. \A i \in HeadSet : i >= next' => results'[i] = << >>
        <3>1. \A i \in HeadSet : i >= next => i # h
            BY <1>3, ThreadsAre DEF Types
        <3> QED
            BY <1>1, <1>5, <3>1 DEF Apart
    <2>5. ASSUME NEW i \in HeadSet, i < next'
          PROVE  Len(results'[i]) = 1 \/ \E u \in Helpers : Holding(u)' /\ claimed'[u] = i
        <3>1. CASE i = h
            BY <1>4, <1>5, <3>1
        <3>2. CASE i # h
            <4>1. Len(results[i]) = 1 \/ \E u \in Helpers : Holding(u) /\ claimed[u] = i
                BY <1>1, <2>5 DEF Apart
            <4>2. claimed[t] # i
                BY <3>2 DEF h
            <4>3. results'[i] = results[i]
                BY <1>5, <3>2
            <4> QED
                BY <2>1, <4>1, <4>2, <4>3
        <3> QED
            BY <3>1, <3>2
    <2>6. \A u \in Helpers : stage'[u] \in {"leaving", "gone"} => next' > Heads
        BY <1>1, <1>7 DEF Apart
    <2> QED
        BY <2>2, <2>3, <2>4, <2>5, <2>6 DEF Apart
<1>12. ListBytes(results') = ListBytes(results) + Len(mine)
    <2>1. results \in [HeadSet -> Seq(Seq(Int))]
        BY DEF Types
    <2>2. ListBytes(results') = ListBytes(results) - TotalLen(results[h]) + TotalLen(results'[h])
        <3> DEFINE b == results
                   c == results'
        <3>1. /\ b \in [HeadSet -> Seq(Seq(Int))] /\ c \in [HeadSet -> Seq(Seq(Int))]
              /\ \A i \in HeadSet \ {h} : c[i] = b[i]
            BY <1>5, <2>1
        <3> HIDE DEF b, c
        <3>2. ListBytes(c) = ListBytes(b) - TotalLen(b[h]) + TotalLen(c[h])
            BY <1>3, <3>1, ListChange
        <3> QED
            BY <3>2 DEF b, c
    <2>3. TotalLen(results[h]) = 0
        BY <1>3, TotalLenOfEmpty
    <2>4. TotalLen(results'[h]) = Len(mine)
        <3> HIDE DEF mine
        <3>1. TotalLen(<<mine>>) = Len(mine)
            BY <1>4, TotalLenOfOne
        <3> QED
            BY <1>5, <3>1
    <2>5. ListBytes(results) \in Int
        BY HeldType
    <2> QED
        BY <1>4, <2>2, <2>3, <2>4, <2>5
<1>13. TotalLen(rows') = TotalLen(rows) - Len(mine)
    <2>1. TotalLen(rows') = TotalLen(rows) - Len(rows[t]) + Len(rows'[t])
        BY <1>6, RowsChange DEF Types
    <2>2. Len(rows'[t]) = 0 /\ TotalLen(rows) \in Int
        BY <1>4, <1>6, HeldType
    <2> QED
        BY <1>4, <2>1, <2>2
<1>14. TuplesAreCounted'
    <2>1. \A u \in Helpers \ {t} : Counted(u) = Counted(u)'
        BY <1>6, <1>7 DEF Counted
    <2>2. Counted(t) = Len(mine) /\ Counted(t)' = 0
        BY <1>1, <1>7 DEF Counted
    <2>3. CountedSum \in Int /\ CountedSum' = CountedSum - Counted(t) + Counted(t)'
        BY <1>9, <2>1, CountedChange
    <2>4. CountedSum' = CountedSum - Len(mine)
        BY <1>4, <2>2, <2>3
    <2>5. ListBytes(results) \in Int /\ tuples = ListBytes(results) + CountedSum
        BY HeldType DEF TuplesAreCounted, CountedSum
    <2>6. tuples' = ListBytes(results') + CountedSum'
        BY <1>1, <1>4, <1>12, <2>3, <2>4, <2>5
    <2>7. fault' <=> tuples' > TupleLimit
        BY <1>1 DEF TuplesAreCounted
    <2> QED
        BY <2>6, <2>7 DEF TuplesAreCounted, CountedSum
<1>15. BytesAreCharged'
    <2>1. Owed' = Owed /\ current' = current /\ current + Owed = Held
        BY <1>1, OwedStays, BytesAre DEF memory
    <2>2. /\ ListBytes(batches) \in Int /\ ListBytes(results) \in Int /\ TotalLen(rows) \in Int
          /\ BufferBytes(buffer) \in Int
        BY HeldType
    <2>3. Held = BufferBytes(buffer) + ListBytes(batches) + ListBytes(results) + TotalLen(rows)
        BY DEF Held
    <2>4. Held' = BufferBytes(buffer) + ListBytes(batches) + ListBytes(results') + TotalLen(rows')
        BY <1>1 DEF Held
    <2>5. Held' = Held
        BY <1>4, <1>12, <1>13, <2>2, <2>3, <2>4
    <2> QED
        BY <2>1, <2>5, BytesAre
<1> QED
    BY <1>8, <1>9, <1>10, <1>11, <1>14, <1>15

LEMMA LeaveKeeps ==
    ASSUME MaterializationInv, NEW t \in Helpers, Leave(t)
    PROVE  MaterializationInv'
<1> USE DEF MaterializationInv
<1>1. /\ stage[t] = "leaving" /\ Settled(t) /\ Untag(t)
      /\ stage' = [stage EXCEPT ![t] = "gone"]
      /\ UNCHANGED <<fed, moving, retractions, buffer, flushed, batches, next, claimed, rows,
                     tuples, fault, results>>
    BY DEF Leave, Goto, dataflow
<1>2. t \in Threads /\ t \in tagged /\ MemoryTypes
    BY <1>1, ThreadsAre DEF InOrder, MemoryInv
<1>3. MemoryInv'
    BY <1>1, <1>2, MemoryStep DEF AccountingNext, Retag
<1>4. tagged' = tagged \ {t} /\ charges' = charges /\ charges[t] = << >>
    BY <1>1 DEF Untag, Settled
<1>5. Types'
    BY <1>1, <1>2, <1>4 DEF Types, Stages
<1>6. InOrder'
    <2>1. AllReported' /\ (Complete => Complete')
        BY <1>1 DEF InOrder, AllReported, Complete
    <2>2. \A w \in Workers : w \in tagged' <=> w \in tagged
        BY <1>4, ThreadsAre
    <2> QED
        BY <1>1, <1>4, <2>1, <2>2 DEF InOrder, Types
<1>7. Apart'
    <2>1. \A u \in Helpers : Holding(u)' <=> Holding(u)
        BY <1>1 DEF Holding, Types
    <2> QED
        BY <1>1, <2>1 DEF Apart, Types
<1>8. TuplesAreCounted'
    <2>1. \A u \in Helpers : Counted(u)' = Counted(u)
        BY <1>1 DEF Counted, Types
    <2> QED
        BY <1>1, <2>1, CountedStays DEF TuplesAreCounted, CountedSum
<1>9. BytesAreCharged'
    <2>1. current' + Owed' = current + Owed
        BY <1>1, <1>2, <1>3, <1>4, TagOwes DEF MemoryInv
    <2>2. Held' = Held
        BY <1>1, HeldStays
    <2> QED
        BY <2>1, <2>2, BytesAre
<1> QED
    BY <1>3, <1>5, <1>6, <1>7, <1>8, <1>9

LEMMA EndWorkerKeeps ==
    ASSUME MaterializationInv, NEW w \in Workers, EndWorker(w)
    PROVE  MaterializationInv'
<1> USE DEF MaterializationInv
<1>1. Joined /\ w \in tagged /\ Settled(w) /\ Untag(w) /\ UNCHANGED <<dataflow, settling>>
    BY DEF EndWorker
<1>2. w \in Threads /\ w \notin Helpers /\ MemoryTypes
    BY ThreadsAre DEF MemoryInv
<1>3. MemoryInv'
    BY <1>1, <1>2, MemoryStep DEF AccountingNext, Retag
<1>4. tagged' = tagged \ {w} /\ charges' = charges /\ charges[w] = << >>
    BY <1>1 DEF Untag, Settled
<1>5. Types'
    BY <1>1, <1>4 DEF Types, dataflow, settling
<1>6. InOrder'
    <2>1. \A t \in Helpers : stage[t] = "gone"
        BY <1>1 DEF Joined
    <2>2. \A t \in Helpers : t \in tagged' <=> t \in tagged
        BY <1>2, <1>4
    <2>3. (AllReported' <=> AllReported) /\ (Complete' <=> Complete)
        BY <1>1 DEF AllReported, Complete, dataflow
    <2> QED
        BY <1>1, <1>4, <2>1, <2>2, <2>3 DEF InOrder, dataflow, settling
<1>7. Apart' /\ TuplesAreCounted'
    BY <1>1, SettlingStays DEF settling
<1>8. BytesAreCharged'
    <2>1. current' + Owed' = current + Owed
        BY <1>1, <1>2, <1>3, <1>4, TagOwes DEF MemoryInv
    <2>2. Held' = Held
        BY <1>1, HeldStays DEF dataflow, settling
    <2> QED
        BY <2>1, <2>2, BytesAre
<1> QED
    BY <1>3, <1>5, <1>6, <1>7, <1>8

LEMMA MemoryKeeps ==
    ASSUME MaterializationInv, NEW t \in Threads, Memory(t)
    PROVE  MaterializationInv'
<1> USE DEF MaterializationInv
<1>1. (Account(t) \/ ComparePeak(t) \/ RaisePeak(t)) /\ UNCHANGED <<dataflow, settling>>
    BY DEF Memory
<1>2. MemoryInv' /\ MemoryTypes /\ MemoryTypes'
    <2>1. MemoryInv'
        BY <1>1, MemoryStep DEF AccountingNext
    <2> QED
        BY <2>1 DEF MemoryInv
<1>3. Apart' /\ TuplesAreCounted' /\ Held' = Held
    BY <1>1, SettlingStays, HeldStays DEF dataflow, settling
<1>4. CASE Account(t)
    <2>1. t \in tagged /\ Len(charges[t]) <= 2
        BY <1>4 DEF Account, InOrder, Types
    <2>2. /\ current' + Owed' = current + Owed
          /\ charges' = [charges EXCEPT ![t] = Tail(@)]
          /\ Len(charges'[t]) <= 2 /\ charges[t] # << >> /\ UNCHANGED tagged
        BY <1>2, <1>4, <2>1, AccountOwes
    <2>3. \A u \in Threads \ {t} : charges'[u] = charges[u]
        BY <1>2, <2>2 DEF MemoryTypes
    <2>4. Types'
        <3>1. \A u \in Threads : Len(charges'[u]) <= 2
            BY <2>2, <2>3 DEF Types
        <3> QED
            BY <1>1, <2>2, <3>1 DEF Types, dataflow, settling
    <2>5. InOrder'
        <3>1. \A u \in Threads : charges'[u] # << >> => u \in tagged'
            BY <2>1, <2>2, <2>3 DEF InOrder
        <3>2. (AllReported' <=> AllReported) /\ (Complete' <=> Complete)
            BY <1>1 DEF AllReported, Complete, dataflow
        <3> QED
            BY <1>1, <2>2, <3>1, <3>2 DEF InOrder, dataflow, settling
    <2>6. BytesAreCharged'
        BY <1>3, <2>2, BytesAre
    <2> QED
        BY <1>2, <1>3, <2>4, <2>5, <2>6
<1>5. CASE ComparePeak(t) \/ RaisePeak(t)
    <2>1. UNCHANGED <<tagged, pending, charges, current>>
        BY <1>5 DEF ComparePeak, RaisePeak
    <2>2. Types'
        BY <1>1, <2>1 DEF Types, dataflow, settling
    <2>3. InOrder'
        <3>1. (AllReported' <=> AllReported) /\ (Complete' <=> Complete)
            BY <1>1 DEF AllReported, Complete, dataflow
        <3> QED
            BY <1>1, <2>1, <3>1 DEF InOrder, dataflow, settling
    <2>4. BytesAreCharged'
        BY <1>3, <2>1, OwedStays, BytesAre
    <2> QED
        BY <1>2, <1>3, <2>2, <2>3, <2>4
<1> QED
    BY <1>1, <1>4, <1>5

LEMMA MaterializationStep ==
    ASSUME MaterializationInv, [Next]_vars
    PROVE  MaterializationInv'
<1>1. ASSUME NEW w \in Workers, Feed(w) \/ Flush(w) \/ EndWorker(w) \/ \E u \in moving : Arrive(w, u)
      PROVE  MaterializationInv'
    BY <1>1, FeedKeeps, FlushStepKeeps, EndWorkerKeeps, ArriveKeeps
<1>2. ASSUME NEW h \in HeadSet, Retract(h)
      PROVE  MaterializationInv'
    BY <1>2, RetractKeeps
<1>3. ASSUME NEW t \in Helpers, Start(t) \/ Claim(t) \/ Merge(t) \/ NoteTuples(t) \/ Store(t) \/ Leave(t)
      PROVE  MaterializationInv'
    BY <1>3, StartKeeps, ClaimKeeps, MergeKeeps, NoteTuplesKeeps, StoreKeeps, LeaveKeeps
<1>4. ASSUME NEW t \in Threads, Memory(t)
      PROVE  MaterializationInv'
    BY <1>4, MemoryKeeps
<1>5. CASE UNCHANGED vars
    <2>1. UNCHANGED <<memory, dataflow, settling>>
        BY <1>5 DEF vars
    <2>2. MemoryInv'
        BY <2>1, MemoryStep DEF MaterializationInv
    <2>3. Types' /\ InOrder'
        BY <2>1 DEF MaterializationInv, Types, InOrder, AllReported, Complete, memory, dataflow, settling
    <2>4. Apart' /\ TuplesAreCounted'
        BY <2>1, SettlingStays DEF settling
    <2>5. BytesAreCharged'
        <3>1. Owed' = Owed /\ Held' = Held /\ current' = current
            BY <2>1, OwedStays, HeldStays DEF memory, dataflow, settling
        <3> QED
            BY <3>1, BytesAre DEF MaterializationInv
    <2> QED
        BY <2>2, <2>3, <2>4, <2>5 DEF MaterializationInv
<1> QED
    BY <1>1, <1>2, <1>3, <1>4, <1>5 DEF Next
-----------------------------------------------------------------------------
(* Rows settle as a set *)

\* Terms that are zero do not count.
LEMMA SumWithZeros ==
    ASSUME NEW S, IsFiniteSet(S), NEW f \in [S -> Int], NEW U \in SUBSET S, NEW T \in SUBSET U,
           \A x \in U \ T : f[x] = 0
    PROVE  SumFunctionOnSet(f, U) = SumFunctionOnSet(f, T)
<1> DEFINE sum(V) == SumFunctionOnSet(f, V)
           Bad == {V \in SUBSET U : T \in SUBSET V /\ sum(V) # sum(T)}
<1>1. SUFFICES ASSUME Bad # {} PROVE FALSE
    <2>1. U \notin Bad => sum(U) = sum(T)
        OBVIOUS
    <2> HIDE DEF Bad
    <2> QED
        BY <2>1
<1>2. \A V \in SUBSET U : IsFiniteSet(V)
    BY FS_Subset
<1>3. PICK V \in Bad : \A W \in Bad : Cardinality(V) <= Cardinality(W)
    <2>1. \A W \in Bad : IsFiniteSet(W)
        BY <1>2
    <2> HIDE DEF Bad
    <2> QED
        BY <1>1, <2>1, Smallest
<1>4. V \in SUBSET U /\ V \in SUBSET S /\ IsFiniteSet(V) /\ Cardinality(V) \in Nat /\ T \in SUBSET V /\ sum(V) # sum(T)
    BY <1>2, FS_CardinalityType
<1>5. PICK x \in V : x \notin T
    BY <1>4
<1>6. V \ {x} \in SUBSET U /\ T \in SUBSET V \ {x} /\ V \ {x} \in SUBSET S /\ f[x] = 0 /\ x \in V
    BY <1>4, <1>5
<1>7. Cardinality(V \ {x}) = Cardinality(V) - 1
    BY <1>4, <1>6, FS_RemoveElement
<1>8. sum(V \ {x}) = sum(T)
    <2>1. V \ {x} \notin Bad
        <3> HIDE DEF Bad
        <3> QED
            BY <1>3, <1>4, <1>7
    <2> QED
        BY <1>6, <2>1
<1>9. sum(V) = f[x] + sum(V \ {x}) /\ sum(V \ {x}) \in Int
    BY <1>4, <1>6, SumWithout, SumIsInt
<1> HIDE DEF sum
<1> QED
    BY <1>4, <1>6, <1>8, <1>9

\* What an update under way adds to the weight of a head's row.
UpdateWeight(u, h, r) == IF u.head = h /\ u.row = r THEN u.weight ELSE 0

FlowWeight(updates, h, r) == SumFunction([u \in updates |-> UpdateWeight(u, h, r)])

AreUpdates(updates) ==
    IsFiniteSet(updates) /\ \A u \in updates : u.head \in HeadSet /\ u.row \in Int /\ u.weight \in Int

\* Of updates that join, at most one of which is of the row.
LEMMA FlowGrows ==
    ASSUME NEW M, NEW N, AreUpdates(M), AreUpdates(N), M \cap N = {}, NEW h, NEW r
    PROVE  /\ FlowWeight(M, h, r) \in Int
           /\ (\A u \in N : UpdateWeight(u, h, r) = 0) => FlowWeight(M \cup N, h, r) = FlowWeight(M, h, r)
           /\ \A u \in N : (\A v \in N \ {u} : UpdateWeight(v, h, r) = 0)
                => FlowWeight(M \cup N, h, r) = FlowWeight(M, h, r) + UpdateWeight(u, h, r)
<1> DEFINE S == M \cup N
           f == [u \in S |-> UpdateWeight(u, h, r)]
           g == [u \in M |-> UpdateWeight(u, h, r)]
<1>1. IsFiniteSet(S) /\ IsFiniteSet(M)
    BY FS_Union DEF AreUpdates
<1>2. \A u \in S : UpdateWeight(u, h, r) \in Int
    BY DEF AreUpdates, UpdateWeight
<1>3. f \in [S -> Int] /\ g \in [M -> Int] /\ DOMAIN f = S /\ DOMAIN g = M
    BY <1>2
<1>4. FlowWeight(S, h, r) = SumFunctionOnSet(f, S) /\ FlowWeight(M, h, r) = SumFunctionOnSet(g, M)
    BY <1>3 DEF FlowWeight, SumFunction
<1>5. \A u \in M : f[u] = g[u]
    OBVIOUS
<1>6. \A u \in S : f[u] = UpdateWeight(u, h, r)
    OBVIOUS
<1>7. M \in SUBSET S /\ S \in SUBSET S /\ S \ M \in SUBSET N
    OBVIOUS
<1>8. ASSUME NEW u \in N
      PROVE  /\ S \ {u} \in SUBSET S /\ M \in SUBSET (S \ {u}) /\ u \in S
             /\ (S \ {u}) \ M \in SUBSET (N \ {u})
    OBVIOUS
<1> HIDE DEF f, g, S
<1>9. FlowWeight(M, h, r) = SumFunctionOnSet(f, M)
    BY <1>4, <1>5, SumsAgree
<1>10. FlowWeight(M, h, r) \in Int
    BY <1>1, <1>3, <1>7, <1>9, SumIsInt
<1>11. ASSUME \A u \in N : UpdateWeight(u, h, r) = 0
       PROVE  FlowWeight(S, h, r) = FlowWeight(M, h, r)
    <2>1. \A u \in S \ M : f[u] = 0
        BY <1>6, <1>7, <1>11
    <2>2. SumFunctionOnSet(f, S) = SumFunctionOnSet(f, M)
        BY <1>1, <1>3, <1>7, <2>1, SumWithZeros
    <2> QED
        BY <1>4, <1>9, <2>2
<1>12. ASSUME NEW u \in N, \A v \in N \ {u} : UpdateWeight(v, h, r) = 0
       PROVE  FlowWeight(S, h, r) = FlowWeight(M, h, r) + UpdateWeight(u, h, r)
    <2>1. /\ S \ {u} \in SUBSET S /\ M \in SUBSET (S \ {u}) /\ u \in S
          /\ (S \ {u}) \ M \in SUBSET (N \ {u})
        BY <1>8
    <2>2. \A v \in (S \ {u}) \ M : f[v] = 0
        BY <1>6, <1>12, <2>1
    <2>3. SumFunctionOnSet(f, S \ {u}) = SumFunctionOnSet(f, M)
        BY <1>1, <1>3, <2>1, <2>2, SumWithZeros
    <2>4. SumFunctionOnSet(f, S) = f[u] + SumFunctionOnSet(f, S \ {u})
        BY <1>1, <1>3, <1>7, <2>1, SumWithout
    <2>5. f[u] = UpdateWeight(u, h, r) /\ UpdateWeight(u, h, r) \in Int
        BY <1>2, <1>6, <2>1
    <2> QED
        BY <1>4, <1>9, <1>10, <2>3, <2>4, <2>5
<1> QED
    BY <1>10, <1>11, <1>12 DEF S

LEMMA FlowOfNone ==
    ASSUME NEW h, NEW r
    PROVE  FlowWeight({}, h, r) = 0
<1> DEFINE f == [u \in {} |-> UpdateWeight(u, h, r)]
<1>1. f \in [{} -> Int] /\ IsFiniteSet({}) /\ \A u \in {} : f[u] = 0
    BY FS_EmptySet
<1> HIDE DEF f
<1>2. SumFunction(f) = 0
    BY <1>1, SumOfZeros
<1> QED
    BY <1>2 DEF FlowWeight, f

\* One update joins, or leaves.
LEMMA FlowOfOne ==
    ASSUME NEW M, NEW u, AreUpdates(M \cup {u}), u \notin M, NEW h, NEW r
    PROVE  /\ FlowWeight(M, h, r) \in Int /\ UpdateWeight(u, h, r) \in Int
           /\ FlowWeight(M \cup {u}, h, r) = FlowWeight(M, h, r) + UpdateWeight(u, h, r)
<1> DEFINE N == {u}
<1>1. AreUpdates(M) /\ AreUpdates(N)
    <2>1. M \in SUBSET (M \cup {u}) /\ N \in SUBSET (M \cup {u})
        OBVIOUS
    <2>2. IsFiniteSet(M) /\ IsFiniteSet(N)
        BY <2>1, FS_Subset DEF AreUpdates
    <2> QED
        BY <2>1, <2>2 DEF AreUpdates
<1>2. M \cap N = {} /\ u \in N /\ \A v \in N \ {u} : UpdateWeight(v, h, r) = 0
    OBVIOUS
<1>3. UpdateWeight(u, h, r) \in Int
    BY DEF AreUpdates, UpdateWeight
<1>4. M \cup {u} = M \cup N
    OBVIOUS
<1> HIDE DEF N
<1> QED
    BY <1>1, <1>2, <1>3, <1>4, FlowGrows

\* What a head's row weighs in the captures of all workers.
CapturedWeight(b, h, r) == SumFunction([w \in Workers |-> Weight(b[w][h], r)])

LEMMA CapturedType ==
    ASSUME NEW b \in [Workers -> [HeadSet -> Batches]], NEW h \in HeadSet, NEW r
    PROVE  CapturedWeight(b, h, r) \in Int
<1> DEFINE f == [w \in Workers |-> Weight(b[w][h], r)]
<1>1. \A w \in Workers : b[w][h] \in Batches
    OBVIOUS
<1>2. \A w \in Workers : Weight(b[w][h], r) \in Int
    BY <1>1, WeightType
<1>3. f \in [Workers -> Int]
    BY <1>2
<1> HIDE DEF f
<1>4. SumFunction(f) \in Int
    BY <1>3, SetsAreFinite, SumType
<1> QED
    BY <1>4 DEF CapturedWeight, f

LEMMA CapturedChange ==
    ASSUME NEW b \in [Workers -> [HeadSet -> Batches]], NEW c \in [Workers -> [HeadSet -> Batches]],
           NEW w \in Workers, NEW h \in HeadSet, NEW r,
           \A v \in Workers \ {w} : c[v][h] = b[v][h]
    PROVE  CapturedWeight(c, h, r) = CapturedWeight(b, h, r) - Weight(b[w][h], r) + Weight(c[w][h], r)
<1> DEFINE f == [v \in Workers |-> Weight(b[v][h], r)]
           g == [v \in Workers |-> Weight(c[v][h], r)]
<1>1. \A v \in Workers : b[v][h] \in Batches /\ c[v][h] \in Batches
    OBVIOUS
<1>2. \A v \in Workers : Weight(b[v][h], r) \in Int /\ Weight(c[v][h], r) \in Int
    BY <1>1, WeightType
<1>3. f \in [Workers -> Int] /\ g \in [Workers -> Int]
    BY <1>2
<1>4. \A v \in Workers \ {w} : g[v] = f[v]
    OBVIOUS
<1>5. f[w] = Weight(b[w][h], r) /\ g[w] = Weight(c[w][h], r)
    OBVIOUS
<1> HIDE DEF f, g
<1>6. SumFunction(g) = SumFunction(f) - f[w] + g[w]
    BY <1>3, <1>4, SetsAreFinite, SumChange
<1> QED
    BY <1>5, <1>6 DEF CapturedWeight, f, g

LEMMA CapturedStays ==
    ASSUME NEW b, NEW c, NEW h \in HeadSet, NEW r, \A v \in Workers : c[v][h] = b[v][h]
    PROVE  CapturedWeight(c, h, r) = CapturedWeight(b, h, r)
<1>1. [v \in Workers |-> Weight(c[v][h], r)] = [v \in Workers |-> Weight(b[v][h], r)]
    OBVIOUS
<1> QED
    BY <1>1 DEF CapturedWeight

LEMMA CapturedOfNone ==
    ASSUME NEW b, NEW h \in HeadSet, NEW r, \A w \in Workers : b[w][h] = << >>
    PROVE  CapturedWeight(b, h, r) = 0
<1> DEFINE f == [w \in Workers |-> Weight(b[w][h], r)]
<1>1. \A w \in Workers : Weight(b[w][h], r) = 0
    BY WeightOfNone
<1>2. f \in [Workers -> Int] /\ \A w \in Workers : f[w] = 0
    BY <1>1
<1> HIDE DEF f
<1>3. SumFunction(f) = 0
    BY <1>2, SetsAreFinite, SumOfZeros
<1> QED
    BY <1>3 DEF CapturedWeight, f

\* What a row of a head weighs of what the given workers have fed.
FedWeight(workers, h, r) == IF \E w \in workers : r - 1 \in Share(w, InputLen[h]) THEN 1 ELSE 0

WholeInput(h) == [i \in 1 .. InputLen[h] |-> i]

HasMerged(t) == stage[t] \in {"counting", "storing"}

Merged(h) == results[h] # << >> \/ \E t \in Helpers : HasMerged(t) /\ claimed[t] = h

\* What is under way is a fed row or of a retraction.
UnderWay ==
    /\ IsFiniteSet(moving)
    /\ \A u \in moving : u.of \in 0 .. retractions
    /\ \A u \in moving : u.of = 0 => \E w \in fed : u.row - 1 \in Share(w, InputLen[u.head])

FlushedIsEmpty == \A w \in Workers, h \in HeadSet : h <= flushed[w] => buffer[w][h] = << >>

BatchesAscend == \A h \in HeadSet : AllAscend(batches[h])

\* Until a head is merged, its rows weigh what has been fed of them: under
\* way, captured and published together.
WeightsAddUp ==
    \A h \in HeadSet : ~ Merged(h) =>
      \A r \in Int : FlowWeight(moving, h, r) + CapturedWeight(buffer, h, r) + TotalWeight(batches[h], r)
                       = FedWeight(fed, h, r)

RowsAreRight ==
    /\ \A t \in Helpers : HasMerged(t) => rows[t] = WholeInput(claimed[t])
    /\ \A h \in HeadSet : results[h] # << >> => results[h] = << WholeInput(h) >>

SettledInv ==
    MaterializationInv /\ UnderWay /\ FlushedIsEmpty /\ BatchesAscend /\ WeightsAddUp /\ RowsAreRight

LEMMA InputsAre ==
    ASSUME NEW h \in HeadSet
    PROVE  /\ InputLen[h] \in Nat
           /\ \A w \in Workers : Share(w, InputLen[h]) \in SUBSET (0 .. InputLen[h] - 1)
           /\ \A w, v \in Workers : v # w => Share(w, InputLen[h]) \cap Share(v, InputLen[h]) = {}
           /\ \A r \in Int : r \in 1 .. InputLen[h] <=> \E w \in Workers : r - 1 \in Share(w, InputLen[h])
<1> DEFINE n == InputLen[h]
<1>1. n \in Nat
    BY MaterializationAssumption
<1> HIDE DEF n
<1>2. \A w \in Workers : Share(w, n) \in SUBSET (0 .. n - 1)
    BY DEF Share
<1>3. \A j \in 0 .. n - 1 : \E w \in Workers : \A v \in Workers : j \in Share(v, n) <=> v = w
    BY <1>1, FedExactlyOnce
<1>4. ASSUME NEW w \in Workers, NEW v \in Workers, v # w
      PROVE  Share(w, n) \cap Share(v, n) = {}
    BY <1>2, <1>3, <1>4
<1>5. ASSUME NEW r \in Int
      PROVE  r \in 1 .. n <=> \E w \in Workers : r - 1 \in Share(w, n)
    <2>1. r \in 1 .. n <=> r - 1 \in 0 .. n - 1
        BY <1>1
    <2> QED
        BY <1>2, <1>3, <2>1
<1> QED
    BY <1>1, <1>2, <1>4, <1>5 DEF n

LEMMA WeighedIs ==
    ASSUME MaterializationInv, UnderWay, NEW h \in HeadSet, NEW r \in Int
    PROVE  /\ AreUpdates(moving) /\ FlowWeight(moving, h, r) \in Int
           /\ CapturedWeight(buffer, h, r) \in Int
           /\ TotalWeight(batches[h], r) \in Int
           /\ batches[h] \in Seq(Batches) /\ \A w \in Workers : buffer[w][h] \in Batches
<1>1. AreUpdates(moving)
    BY DEF MaterializationInv, Types, UnderWay, AreUpdates
<1>2. batches[h] \in Seq(Batches) /\ buffer \in [Workers -> [HeadSet -> Batches]]
    BY DEF MaterializationInv, Types
<1>3. FlowWeight(moving, h, r) \in Int
    <2>1. AreUpdates({}) /\ moving \cap {} = {}
        BY FS_EmptySet DEF AreUpdates
    <2> QED
        BY <1>1, <2>1, FlowGrows
<1>4. CapturedWeight(buffer, h, r) \in Int
    BY <1>2, CapturedType
<1>5. TotalWeight(batches[h], r) \in Int
    BY <1>2, TotalWeightIs
<1> QED
    BY <1>1, <1>2, <1>3, <1>4, <1>5

LEMMA InitSettled ==
    ASSUME Init
    PROVE  SettledInv
<1>1. MaterializationInv
    BY InitHolds
<1>2. /\ fed = {} /\ moving = {} /\ retractions = 0
      /\ buffer = [w \in Workers |-> [h \in HeadSet |-> << >>]]
      /\ flushed = [w \in Workers |-> 0]
      /\ batches = [h \in HeadSet |-> << >>]
      /\ stage = [t \in Helpers |-> "starting"]
      /\ results = [h \in HeadSet |-> << >>]
    BY DEF Init
<1>3. UnderWay
    BY <1>2, FS_EmptySet DEF UnderWay
<1>4. FlushedIsEmpty
    BY <1>2 DEF FlushedIsEmpty
<1>5. BatchesAscend
    BY <1>2 DEF BatchesAscend, AllAscend
<1>6. WeightsAddUp
    <2>1. ASSUME NEW h \in HeadSet, NEW r \in Int
          PROVE  FlowWeight(moving, h, r) + CapturedWeight(buffer, h, r) + TotalWeight(batches[h], r)
                   = FedWeight(fed, h, r)
        <3>1. FlowWeight(moving, h, r) = 0
            BY <1>2, FlowOfNone
        <3>2. CapturedWeight(buffer, h, r) = 0
            <4>1. \A w \in Workers : buffer[w][h] = << >>
                BY <1>2
            <4> QED
                BY <4>1, CapturedOfNone
        <3>3. TotalWeight(batches[h], r) = 0
            <4>1. batches[h] = << >> /\ batches[h] \in Seq(Batches)
                BY <1>2
            <4> QED
                BY <4>1, TotalWeightIs
        <3>4. FedWeight(fed, h, r) = 0
            BY <1>2 DEF FedWeight
        <3> QED
            BY <3>1, <3>2, <3>3, <3>4
    <2> QED
        BY <2>1 DEF WeightsAddUp
<1>7. RowsAreRight
    BY <1>2 DEF RowsAreRight, HasMerged
<1> QED
    BY <1>1, <1>3, <1>4, <1>5, <1>6, <1>7 DEF SettledInv

\* A step that merges and stores nothing, and leaves the dataflow alone.
LEMMA SettledStays ==
    ASSUME SettledInv, MaterializationInv',
           UNCHANGED <<dataflow, batches, results>>,
           \A t \in Helpers : HasMerged(t)' <=> HasMerged(t),
           \A t \in Helpers : HasMerged(t) => claimed'[t] = claimed[t] /\ rows'[t] = rows[t]
    PROVE  SettledInv'
<1> USE DEF SettledInv
<1>1. UNCHANGED <<fed, moving, retractions, buffer, flushed, batches, results>>
    BY DEF dataflow
<1>2. UnderWay' /\ FlushedIsEmpty' /\ BatchesAscend'
    BY <1>1 DEF UnderWay, FlushedIsEmpty, BatchesAscend
<1>3. \A h \in HeadSet : Merged(h)' <=> Merged(h)
    BY <1>1 DEF Merged
<1>4. WeightsAddUp'
    BY <1>1, <1>3 DEF WeightsAddUp
<1>5. RowsAreRight'
    BY <1>1 DEF RowsAreRight, WholeInput
<1> QED
    BY <1>2, <1>4, <1>5

\* A step of the dataflow.
LEMMA SettlingIsLater ==
    ASSUME SettledInv, UNCHANGED <<stage, claimed, rows, results>>
    PROVE  RowsAreRight' /\ \A h \in HeadSet : Merged(h)' <=> Merged(h)
BY DEF SettledInv, RowsAreRight, Merged, HasMerged

LEMMA FeedSettles ==
    ASSUME SettledInv, NEW w \in Workers, Feed(w)
    PROVE  SettledInv'
<1> USE DEF SettledInv
<1> DEFINE N == UNION {{Update(h, j + 1, 1, 0) : j \in Share(w, InputLen[h])} : h \in HeadSet}
<1>1. /\ w \notin fed /\ fed' = fed \cup {w} /\ moving' = moving \cup N
      /\ UNCHANGED <<retractions, buffer, flushed, batches, stage, claimed, rows, results>>
    BY DEF Feed, settling
<1>2. MaterializationInv'
    BY FeedKeeps
<1>3. \A u \in N : \E h \in HeadSet : \E j \in Share(w, InputLen[h]) : u = Update(h, j + 1, 1, 0)
    OBVIOUS
<1>4. \A h \in HeadSet : \A j \in Share(w, InputLen[h]) : Update(h, j + 1, 1, 0) \in N
    OBVIOUS
<1>5. IsFiniteSet(N)
    <2> DEFINE fedOf(h) == {Update(h, j + 1, 1, 0) : j \in Share(w, InputLen[h])}
               all == {fedOf(h) : h \in HeadSet}
    <2>1. ASSUME NEW h \in HeadSet
          PROVE  IsFiniteSet(fedOf(h))
        <3>1. IsFiniteSet(Share(w, InputLen[h]))
            <4>1. InputLen[h] \in Nat /\ Share(w, InputLen[h]) \in SUBSET (0 .. InputLen[h] - 1)
                BY InputsAre
            <4>2. 0 \in Int /\ InputLen[h] - 1 \in Int
                BY <4>1
            <4>3. IsFiniteSet(0 .. InputLen[h] - 1)
                BY <4>2, FS_Interval
            <4> QED
                BY <4>1, <4>3, FS_Subset
        <3> DEFINE S == Share(w, InputLen[h])
                   f == [j \in S |-> Update(h, j + 1, 1, 0)]
        <3>2. f \in Surjection(S, fedOf(h))
            BY DEF Surjection
        <3> HIDE DEF f, S
        <3>3. IsFiniteSet(S)
            BY <3>1 DEF S
        <3> HIDE DEF fedOf
        <3> QED
            BY <3>2, <3>3, FS_Surjection
    <2>2. IsFiniteSet(all)
        <3> HIDE DEF fedOf
        <3> DEFINE f == [h \in HeadSet |-> fedOf(h)]
        <3>1. f \in Surjection(HeadSet, all)
            BY DEF Surjection
        <3> HIDE DEF f, all
        <3> QED
            BY <3>1, SetsAreFinite, FS_Surjection
    <2>3. \A T \in all : IsFiniteSet(T)
        BY <2>1
    <2>4. N = UNION all
        OBVIOUS
    <2> HIDE DEF all, N, fedOf
    <2> QED
        BY <2>2, <2>3, <2>4, FS_UNION
<1> HIDE DEF N
<1>6. ASSUME NEW u \in N
      PROVE  /\ u.head \in HeadSet /\ u.row \in Int /\ u.weight = 1 /\ u.of = 0
             /\ u.row - 1 \in Share(w, InputLen[u.head])
             /\ u = Update(u.head, u.row, 1, 0)
    <2>1. PICK h \in HeadSet : \E j \in Share(w, InputLen[h]) : u = Update(h, j + 1, 1, 0)
        BY <1>3
    <2>2. PICK j \in Share(w, InputLen[h]) : u = Update(h, j + 1, 1, 0)
        BY <2>1
    <2>3. j \in Int
        BY InputsAre
    <2>4. (j + 1) - 1 = j /\ j + 1 \in Int
        BY <2>3
    <2> QED
        BY <2>2, <2>4 DEF Update
<1>7. AreUpdates(N)
    BY <1>5, <1>6 DEF AreUpdates
<1>8. moving \cap N = {}
    <2>1. ASSUME NEW u \in moving, u \in N
          PROVE  FALSE
        <3>1. u.head \in HeadSet /\ u.of = 0 /\ u.row - 1 \in Share(w, InputLen[u.head])
            BY <1>6, <2>1
        <3>2. PICK v \in fed : u.row - 1 \in Share(v, InputLen[u.head])
            BY <3>1 DEF UnderWay
        <3>3. v \in Workers /\ v # w
            BY <1>1 DEF MaterializationInv, Types
        <3> QED
            BY <3>1, <3>2, <3>3, InputsAre
    <2> QED
        BY <2>1
<1>9. UnderWay'
    <2>1. IsFiniteSet(moving')
        BY <1>1, <1>5, FS_Union DEF UnderWay
    <2>2. retractions \in Nat
        BY DEF MaterializationInv, Types
    <2>3. \A u \in moving' : u.of \in 0 .. retractions'
        BY <1>1, <1>6, <2>2 DEF UnderWay
    <2>4. \A u \in moving' : u.of = 0 => \E v \in fed' : u.row - 1 \in Share(v, InputLen[u.head])
        BY <1>1, <1>6 DEF UnderWay
    <2> QED
        BY <2>1, <2>3, <2>4 DEF UnderWay
<1>10. FlushedIsEmpty' /\ BatchesAscend'
    BY <1>1 DEF FlushedIsEmpty, BatchesAscend
<1>11. RowsAreRight' /\ \A h \in HeadSet : Merged(h)' <=> Merged(h)
    BY <1>1, SettlingIsLater
<1>12. ASSUME NEW h \in HeadSet, ~ Merged(h), NEW r \in Int
       PROVE  FlowWeight(moving \cup N, h, r) + CapturedWeight(buffer, h, r) + TotalWeight(batches[h], r)
                = FedWeight(fed \cup {w}, h, r)
    <2> DEFINE flow == FlowWeight(moving, h, r)
               rest == CapturedWeight(buffer, h, r)
               total == TotalWeight(batches[h], r)
    <2>1. flow \in Int /\ rest \in Int /\ total \in Int /\ AreUpdates(moving)
        BY WeighedIs
    <2>2. flow + rest + total = FedWeight(fed, h, r)
        BY <1>12 DEF WeightsAddUp
    <2> HIDE DEF rest, total
    <2>3. CASE r - 1 \in Share(w, InputLen[h])
        <3> DEFINE u == Update(h, r, 1, 0)
        <3>1. u \in N /\ UpdateWeight(u, h, r) = 1
            <4>1. (r - 1) + 1 = r
                OBVIOUS
            <4>2. Update(h, (r - 1) + 1, 1, 0) \in N
                BY <1>4, <2>3
            <4> QED
                BY <4>1, <4>2 DEF Update, UpdateWeight
        <3>2. \A v \in N \ {u} : UpdateWeight(v, h, r) = 0
            BY <1>6 DEF UpdateWeight
        <3> HIDE DEF u
        <3>3. FlowWeight(moving \cup N, h, r) = flow + 1
            BY <1>7, <1>8, <2>1, <3>1, <3>2, FlowGrows
        <3>4. FedWeight(fed \cup {w}, h, r) = 1
            BY <2>3 DEF FedWeight
        <3>5. FedWeight(fed, h, r) = 0
            <4>1. ASSUME NEW v \in fed
                  PROVE  r - 1 \notin Share(v, InputLen[h])
                <5>1. v \in Workers /\ v # w
                    BY <1>1 DEF MaterializationInv, Types
                <5> QED
                    BY <2>3, <5>1, InputsAre
            <4> QED
                BY <4>1 DEF FedWeight
        <3> HIDE DEF flow
        <3>6. FlowWeight(moving \cup N, h, r) + rest + total = 1
            BY <2>1, <2>2, <3>3, <3>5
        <3> QED
            BY <3>4, <3>6 DEF rest, total
    <2>4. CASE r - 1 \notin Share(w, InputLen[h])
        <3>1. \A v \in N : UpdateWeight(v, h, r) = 0
            BY <1>6, <2>4 DEF UpdateWeight
        <3>2. FlowWeight(moving \cup N, h, r) = flow
            BY <1>7, <1>8, <2>1, <3>1, FlowGrows
        <3>3. FedWeight(fed \cup {w}, h, r) = FedWeight(fed, h, r)
            BY <2>4 DEF FedWeight
        <3> QED
            BY <2>2, <3>2, <3>3 DEF rest, total
    <2> QED
        BY <2>3, <2>4
<1>13. WeightsAddUp'
    BY <1>1, <1>11, <1>12 DEF WeightsAddUp
<1> QED
    BY <1>2, <1>9, <1>10, <1>11, <1>13

LEMMA RetractSettles ==
    ASSUME SettledInv, NEW h \in HeadSet, Retract(h)
    PROVE  SettledInv'
<1> USE DEF SettledInv
<1> DEFINE u == Update(h, 0, 1, retractions + 1)
           v == Update(h, 0, -1, retractions + 1)
           M == moving \cup {u}
<1>1. /\ retractions' = retractions + 1 /\ moving' = M \cup {v}
      /\ UNCHANGED <<fed, buffer, flushed, batches, stage, claimed, rows, results>>
    BY DEF Retract, settling
<1>2. MaterializationInv'
    BY RetractKeeps
<1>3. retractions \in Nat /\ AreUpdates(moving)
    BY DEF MaterializationInv, Types, UnderWay, AreUpdates
<1>4. /\ u.head = h /\ u.row = 0 /\ u.weight = 1 /\ u.of = retractions + 1
      /\ v.head = h /\ v.row = 0 /\ v.weight = -1 /\ v.of = retractions + 1
    BY DEF Update
<1> HIDE DEF u, v
<1>5. u \notin moving /\ v \notin M
    <2>1. \A x \in moving : x.of # retractions + 1
        BY <1>3 DEF UnderWay
    <2>2. u # v
        BY <1>4
    <2> QED
        BY <1>4, <2>1, <2>2
<1>6. AreUpdates(M) /\ AreUpdates(M \cup {v})
    <2>1. IsFiniteSet(M) /\ IsFiniteSet(M \cup {v})
        BY <1>3, FS_AddElement DEF AreUpdates
    <2> QED
        BY <1>3, <1>4, <2>1 DEF AreUpdates
<1>7. UnderWay'
    BY <1>1, <1>3, <1>4, <1>6 DEF UnderWay, AreUpdates
<1>8. FlushedIsEmpty' /\ BatchesAscend'
    BY <1>1 DEF FlushedIsEmpty, BatchesAscend
<1>9. RowsAreRight' /\ \A g \in HeadSet : Merged(g)' <=> Merged(g)
    BY <1>1, SettlingIsLater
<1>10. ASSUME NEW g \in HeadSet, NEW r \in Int
       PROVE  FlowWeight(M \cup {v}, g, r) = FlowWeight(moving, g, r)
    <2>1. /\ FlowWeight(moving, g, r) \in Int
          /\ FlowWeight(M, g, r) = FlowWeight(moving, g, r) + UpdateWeight(u, g, r)
        BY <1>5, <1>6, FlowOfOne
    <2>2. FlowWeight(M \cup {v}, g, r) = FlowWeight(M, g, r) + UpdateWeight(v, g, r)
        <3> HIDE DEF M
        <3> QED
            BY <1>5, <1>6, FlowOfOne
    <2>3. \/ UpdateWeight(u, g, r) = 0 /\ UpdateWeight(v, g, r) = 0
          \/ UpdateWeight(u, g, r) = 1 /\ UpdateWeight(v, g, r) = -1
        BY <1>4 DEF UpdateWeight
    <2> HIDE DEF M
    <2> QED
        BY <2>1, <2>2, <2>3
<1>11. WeightsAddUp'
    BY <1>1, <1>9, <1>10 DEF WeightsAddUp
<1> QED
    BY <1>2, <1>7, <1>8, <1>9, <1>11

LEMMA ArriveSettles ==
    ASSUME SettledInv, NEW w \in Workers, NEW u \in moving, Arrive(w, u)
    PROVE  SettledInv'
<1> USE DEF SettledInv
<1> DEFINE h == u.head
           entry == <<u.row, u.weight>>
           M == moving \ {u}
<1>1. /\ moving' = M /\ UNCHANGED <<fed, retractions, flushed, batches, stage, claimed, rows, results>>
      /\ buffer' = [buffer EXCEPT ![w][h] = Append(@, entry)]
    BY DEF Arrive, settling
<1>2. MaterializationInv'
    BY ArriveKeeps
<1>3. h \in HeadSet /\ entry \in Int \X Int /\ u.row \in Int /\ u.weight \in Int
    BY DEF MaterializationInv, Types
<1>4. AreUpdates(moving) /\ moving = M \cup {u} /\ u \notin M
    BY DEF MaterializationInv, Types, UnderWay, AreUpdates
<1>5. /\ buffer \in [Workers -> [HeadSet -> Batches]] /\ buffer' \in [Workers -> [HeadSet -> Batches]]
    BY <1>2 DEF MaterializationInv, Types
<1> HIDE DEF h, entry, M
<1>6. /\ buffer'[w][h] = Append(buffer[w][h], entry)
      /\ \A g \in HeadSet \ {h} : buffer'[w][g] = buffer[w][g]
      /\ \A x \in Workers \ {w} : buffer'[x] = buffer[x]
    BY <1>1, <1>3, <1>5
<1>7. UnderWay'
    <2>1. IsFiniteSet(moving')
        BY <1>1, FS_Subset DEF UnderWay, M
    <2> QED
        BY <1>1, <2>1 DEF UnderWay, M
<1>8. FlushedIsEmpty'
    <2>1. ~ Complete
        BY DEF Complete
    <2>2. ASSUME NEW x \in Workers, NEW g \in HeadSet
          PROVE  ~ (g <= flushed'[x])
        <3>1. flushed[x] \in 0 .. Heads /\ ~ (flushed[x] > 0)
            BY <2>1 DEF MaterializationInv, InOrder, Types
        <3> QED
            BY <1>1, <3>1, ThreadsAre
    <2> QED
        BY <2>2 DEF FlushedIsEmpty
<1>9. BatchesAscend'
    BY <1>1 DEF BatchesAscend
<1>10. RowsAreRight' /\ \A g \in HeadSet : Merged(g)' <=> Merged(g)
    BY <1>1, SettlingIsLater
<1>11. ASSUME NEW g \in HeadSet, NEW r \in Int
       PROVE  FlowWeight(M, g, r) + CapturedWeight(buffer', g, r)
                = FlowWeight(moving, g, r) + CapturedWeight(buffer, g, r)
    <2>1. /\ FlowWeight(M, g, r) \in Int /\ UpdateWeight(u, g, r) \in Int
          /\ FlowWeight(moving, g, r) = FlowWeight(M, g, r) + UpdateWeight(u, g, r)
        BY <1>4, FlowOfOne
    <2>2. CapturedWeight(buffer, g, r) \in Int
        BY WeighedIs
    <2>3. CapturedWeight(buffer', g, r) = CapturedWeight(buffer, g, r) + UpdateWeight(u, g, r)
        <3>1. CASE g = h
            <4>1. CapturedWeight(buffer', h, r)
                    = CapturedWeight(buffer, h, r) - Weight(buffer[w][h], r) + Weight(buffer'[w][h], r)
                <5>1. \A x \in Workers \ {w} : buffer'[x][h] = buffer[x][h]
                    BY <1>6
                <5> DEFINE b == buffer
                           c == buffer'
                <5>2. /\ b \in [Workers -> [HeadSet -> Batches]] /\ c \in [Workers -> [HeadSet -> Batches]]
                      /\ w \in Workers /\ h \in HeadSet
                      /\ \A x \in Workers \ {w} : c[x][h] = b[x][h]
                    BY <1>3, <1>5, <5>1
                <5> HIDE DEF b, c
                <5>3. CapturedWeight(c, h, r) = CapturedWeight(b, h, r) - Weight(b[w][h], r) + Weight(c[w][h], r)
                    BY <5>2, CapturedChange
                <5> QED
                    BY <5>3 DEF b, c
            <4>2. buffer[w][h] \in Batches
                BY <1>3, <1>5
            <4>3. Weight(buffer'[w][h], r) = Weight(buffer[w][h], r) + WeightIn(entry, r)
                BY <1>3, <1>6, <4>2, WeightAppend
            <4>4. WeightIn(entry, r) = UpdateWeight(u, h, r)
                BY DEF WeightIn, UpdateWeight, entry, h
            <4>5. Weight(buffer[w][h], r) \in Int
                BY <4>2, WeightType
            <4> QED
                BY <2>1, <2>2, <3>1, <4>1, <4>3, <4>4, <4>5
        <3>2. CASE g # h
            <4>1. \A x \in Workers : buffer'[x][g] = buffer[x][g]
                BY <1>6, <3>2
            <4>2. CapturedWeight(buffer', g, r) = CapturedWeight(buffer, g, r)
                BY <4>1, CapturedStays
            <4>3. UpdateWeight(u, g, r) = 0
                BY <3>2 DEF UpdateWeight, h
            <4> QED
                BY <2>2, <4>2, <4>3
        <3> QED
            BY <3>1, <3>2
    <2> QED
        BY <2>1, <2>2, <2>3
<1>12. WeightsAddUp'
    <2>1. ASSUME NEW g \in HeadSet, ~ Merged(g), NEW r \in Int
          PROVE  FlowWeight(M, g, r) + CapturedWeight(buffer', g, r) + TotalWeight(batches[g], r)
                   = FedWeight(fed, g, r)
        <3>1. FlowWeight(moving, g, r) + CapturedWeight(buffer, g, r) + TotalWeight(batches[g], r)
                = FedWeight(fed, g, r)
            BY <2>1 DEF WeightsAddUp
        <3> QED
            BY <1>11, <3>1
    <2> QED
        BY <1>1, <1>10, <2>1 DEF WeightsAddUp
<1> QED
    BY <1>2, <1>7, <1>8, <1>9, <1>10, <1>12

LEMMA FlushSettles ==
    ASSUME SettledInv, NEW w \in Workers, Flush(w)
    PROVE  SettledInv'
<1> USE DEF SettledInv
<1> DEFINE h == flushed[w] + 1
           old == buffer[w][h]
           batch == AsBatch(old)
<1>1. /\ Complete /\ flushed[w] < Heads
      /\ flushed' = [flushed EXCEPT ![w] = h]
      /\ UNCHANGED <<fed, moving, retractions, stage, claimed, rows, results>>
    BY DEF Flush
<1>2. batches' = IF batch = << >> THEN batches ELSE [batches EXCEPT ![h] = Append(@, batch)]
    BY DEF Flush
<1>3. buffer' = [buffer EXCEPT ![w][h] = << >>]
    BY DEF Flush
<1>4. MaterializationInv'
    BY FlushStepKeeps
<1>5. /\ buffer \in [Workers -> [HeadSet -> Batches]] /\ buffer' \in [Workers -> [HeadSet -> Batches]]
      /\ batches \in [HeadSet -> Seq(Batches)] /\ flushed \in [Workers -> 0 .. Heads]
    BY <1>4 DEF MaterializationInv, Types
<1>6. h \in HeadSet /\ old \in Batches
    BY <1>1, <1>5, ThreadsAre
<1>7. batch \in Batches /\ Ascends(batch) /\ \A r \in Int : Weight(batch, r) = Weight(old, r)
    BY <1>6, AsBatchIs, AsBatchWeighs
<1>8. flushed[w] \in Int /\ h = flushed[w] + 1 /\ old = buffer[w][h]
    BY <1>5
<1> HIDE DEF h, old, batch
<1>9. /\ buffer'[w][h] = << >>
      /\ \A g \in HeadSet \ {h} : buffer'[w][g] = buffer[w][g]
      /\ \A x \in Workers \ {w} : buffer'[x] = buffer[x]
    BY <1>3, <1>5, <1>6
<1>10. UnderWay'
    BY <1>1 DEF UnderWay
<1>11. FlushedIsEmpty'
    <2>1. ASSUME NEW x \in Workers, NEW g \in HeadSet, g <= flushed'[x]
          PROVE  buffer'[x][g] = << >>
        <3>1. CASE x # w
            BY <1>1, <1>5, <1>9, <2>1, <3>1 DEF FlushedIsEmpty
        <3>2. CASE x = w
            <4>1. g <= h /\ g \in Int
                BY <1>1, <1>5, <2>1, <3>2, ThreadsAre
            <4>2. CASE g = h
                BY <1>9, <3>2, <4>2
            <4>3. CASE g # h
                <5>1. g <= flushed[w]
                    BY <1>8, <4>1, <4>3
                <5> QED
                    BY <1>9, <3>2, <4>3, <5>1 DEF FlushedIsEmpty
            <4> QED
                BY <4>2, <4>3
        <3> QED
            BY <3>1, <3>2
    <2> QED
        BY <2>1 DEF FlushedIsEmpty
<1>12. /\ batch = << >> => batches' = batches
       /\ batch # << >> => batches'[h] = Append(batches[h], batch)
       /\ \A g \in HeadSet \ {h} : batches'[g] = batches[g]
    BY <1>2, <1>5, <1>6
<1>13. BatchesAscend'
    <2>1. ASSUME NEW g \in HeadSet
          PROVE  AllAscend(batches'[g])
        <3>1. AllAscend(batches[g])
            BY DEF BatchesAscend
        <3>2. CASE g # h \/ batch = << >>
            BY <1>12, <3>1, <3>2
        <3>3. CASE g = h /\ batch # << >>
            <4> DEFINE bs == batches[h]
            <4>1. batches'[g] = Append(bs, batch)
                BY <1>12, <3>3
            <4>2. bs \in Seq(Batches) /\ AllAscend(bs)
                BY <1>5, <1>6, <3>1, <3>3
            <4> HIDE DEF bs
            <4>3. /\ Append(bs, batch) \in Seq(Batches) /\ Len(Append(bs, batch)) = Len(bs) + 1 /\ Len(bs) \in Nat
                  /\ DOMAIN bs = 1 .. Len(bs) /\ DOMAIN Append(bs, batch) = 1 .. Len(bs) + 1
                  /\ \A i \in 1 .. Len(bs) : Append(bs, batch)[i] = bs[i]
                  /\ Append(bs, batch)[Len(bs) + 1] = batch
                BY <1>7, <4>2, AppendProperties
            <4>4. \A i \in 1 .. Len(bs) + 1 : i = Len(bs) + 1 \/ i \in 1 .. Len(bs)
                BY <4>3
            <4>5. AllAscend(Append(bs, batch))
                BY <1>7, <4>2, <4>3, <4>4 DEF AllAscend
            <4> QED
                BY <4>1, <4>5
        <3> QED
            BY <3>2, <3>3
    <2> QED
        BY <2>1 DEF BatchesAscend
<1>14. RowsAreRight' /\ \A g \in HeadSet : Merged(g)' <=> Merged(g)
    BY <1>1, SettlingIsLater
<1>15. ASSUME NEW g \in HeadSet, NEW r \in Int
       PROVE  CapturedWeight(buffer', g, r) + TotalWeight(batches'[g], r)
                = CapturedWeight(buffer, g, r) + TotalWeight(batches[g], r)
    <2>1. CapturedWeight(buffer, g, r) \in Int /\ TotalWeight(batches[g], r) \in Int /\ batches[g] \in Seq(Batches)
        BY WeighedIs
    <2>2. CASE g = h
        <3>1. CapturedWeight(buffer', h, r)
                = CapturedWeight(buffer, h, r) - Weight(old, r) + Weight(<< >>, r)
            <4> DEFINE b == buffer
                       c == buffer'
            <4>1. /\ b \in [Workers -> [HeadSet -> Batches]] /\ c \in [Workers -> [HeadSet -> Batches]]
                  /\ w \in Workers /\ h \in HeadSet
                  /\ \A x \in Workers \ {w} : c[x][h] = b[x][h]
                BY <1>5, <1>6, <1>9
            <4> HIDE DEF b, c
            <4>2. CapturedWeight(c, h, r) = CapturedWeight(b, h, r) - Weight(b[w][h], r) + Weight(c[w][h], r)
                BY <4>1, CapturedChange
            <4>3. old = b[w][h] /\ c[w][h] = << >>
                BY <1>8, <1>9 DEF b, c
            <4>4. CapturedWeight(c, h, r) = CapturedWeight(b, h, r) - Weight(old, r) + Weight(<< >>, r)
                BY <4>2, <4>3
            <4> QED
                BY <4>4 DEF b, c
        <3>2. Weight(<< >>, r) = 0 /\ Weight(batch, r) = Weight(old, r) /\ Weight(old, r) \in Int
            BY <1>6, <1>7, WeightOfNone, WeightType
        <3>3. TotalWeight(batches'[h], r) = TotalWeight(batches[h], r) + Weight(old, r)
            <4>1. CASE batch = << >>
                <5>1. Weight(old, r) = 0 /\ batches' = batches
                    BY <1>12, <3>2, <4>1
                <5> QED
                    BY <2>1, <2>2, <5>1
            <4>2. CASE batch # << >>
                <5>1. batches'[h] = Append(batches[h], batch)
                    BY <1>12, <4>2
                <5>2. TotalWeight(Append(batches[h], batch), r) = TotalWeight(batches[h], r) + Weight(batch, r)
                    BY <1>7, <2>1, <2>2, TotalWeightIs
                <5> QED
                    BY <3>2, <5>1, <5>2
            <4> QED
                BY <4>1, <4>2
        <3> QED
            BY <2>1, <2>2, <3>1, <3>2, <3>3
    <2>3. CASE g # h
        <3>1. \A x \in Workers : buffer'[x][g] = buffer[x][g]
            BY <1>9, <2>3
        <3>2. CapturedWeight(buffer', g, r) = CapturedWeight(buffer, g, r)
            BY <3>1, CapturedStays
        <3>3. batches'[g] = batches[g]
            BY <1>12, <2>3
        <3> QED
            BY <3>2, <3>3
    <2> QED
        BY <2>2, <2>3
<1>16. WeightsAddUp'
    <2>1. ASSUME NEW g \in HeadSet, ~ Merged(g), NEW r \in Int
          PROVE  FlowWeight(moving, g, r) + CapturedWeight(buffer', g, r) + TotalWeight(batches'[g], r)
                   = FedWeight(fed, g, r)
        <3>1. FlowWeight(moving, g, r) + CapturedWeight(buffer, g, r) + TotalWeight(batches[g], r)
                = FedWeight(fed, g, r)
            BY <2>1 DEF WeightsAddUp
        <3>2. FlowWeight(moving, g, r) \in Int /\ CapturedWeight(buffer, g, r) \in Int /\ TotalWeight(batches[g], r) \in Int
            BY WeighedIs
        <3>3. CapturedWeight(buffer', g, r) \in Int /\ TotalWeight(batches'[g], r) \in Int
            <4> DEFINE c == buffer'
                       bs == batches'[g]
            <4>1. c \in [Workers -> [HeadSet -> Batches]] /\ bs \in Seq(Batches)
                BY <1>4, <1>5 DEF MaterializationInv, Types
            <4> HIDE DEF c, bs
            <4>2. CapturedWeight(c, g, r) \in Int /\ TotalWeight(bs, r) \in Int
                BY <4>1, CapturedType, TotalWeightIs
            <4> QED
                BY <4>2 DEF c, bs
        <3> QED
            BY <1>15, <3>1, <3>2, <3>3
    <2> QED
        BY <1>1, <1>14, <2>1 DEF WeightsAddUp
<1> QED
    BY <1>4, <1>10, <1>11, <1>13, <1>14, <1>16

\* When everything has been captured and published, the batches of a head
\* that no one has merged hold its whole input.
LEMMA MergeSettles ==
    ASSUME SettledInv, NEW t \in Helpers, Merge(t)
    PROVE  SettledInv'
<1> USE DEF SettledInv
<1> DEFINE h == claimed[t]
           old == batches[h]
<1>1. /\ stage[t] = "merging" /\ stage' = [stage EXCEPT ![t] = "counting"]
      /\ batches' = [batches EXCEPT ![h] = << >>] /\ rows' = [rows EXCEPT ![t] = Consolidate(old)]
      /\ UNCHANGED <<fed, moving, retractions, buffer, flushed, claimed, results>>
    BY DEF Merge, Goto, dataflow
<1>2. MaterializationInv'
    BY MergeKeeps
<1>3. /\ stage \in [Helpers -> Stages] /\ rows \in [Helpers -> Seq(Int)]
      /\ batches \in [HeadSet -> Seq(Batches)] /\ flushed \in [Workers -> 0 .. Heads]
      /\ buffer \in [Workers -> [HeadSet -> Batches]]
    BY DEF MaterializationInv, Types
<1>4. /\ h \in HeadSet /\ results[h] = << >>
      /\ \A u \in Helpers : Holding(u) /\ claimed[u] = h => u = t
    BY <1>1 DEF MaterializationInv, Apart, Holding
<1>5. old \in Seq(Batches) /\ AllAscend(old)
    BY <1>3, <1>4 DEF BatchesAscend
<1>6. AllReported
    BY <1>1 DEF MaterializationInv, InOrder
<1>7. Complete
    <2>1. 0 \in Workers
        BY PeersAssumption DEF Workers
    <2>2. flushed[0] = Heads /\ Heads > 0
        BY <1>4, <1>6, <2>1, ThreadsAre DEF AllReported
    <2> QED
        BY <2>1, <2>2 DEF MaterializationInv, InOrder
<1>8. ~ Merged(h)
    <2>1. ASSUME NEW u \in Helpers, HasMerged(u), claimed[u] = h
          PROVE  FALSE
        <3>1. Holding(u)
            BY <2>1 DEF HasMerged, Holding
        <3>2. u = t
            BY <1>4, <2>1, <3>1
        <3> QED
            BY <1>1, <2>1, <3>2 DEF HasMerged
    <2> QED
        BY <1>4, <2>1 DEF Merged
<1>9. ASSUME NEW r \in Int
      PROVE  TotalWeight(old, r) = IF r \in 1 .. InputLen[h] THEN 1 ELSE 0
    <2>1. FlowWeight(moving, h, r) + CapturedWeight(buffer, h, r) + TotalWeight(old, r) = FedWeight(fed, h, r)
        BY <1>4, <1>8 DEF WeightsAddUp
    <2>2. FlowWeight(moving, h, r) = 0
        BY <1>7, FlowOfNone DEF Complete
    <2>3. CapturedWeight(buffer, h, r) = 0
        <3>1. \A w \in Workers : buffer[w][h] = << >>
            <4>1. \A w \in Workers : h <= flushed[w]
                BY <1>4, <1>6, ThreadsAre DEF AllReported
            <4> QED
                BY <1>4, <4>1 DEF FlushedIsEmpty
        <3> QED
            BY <1>4, <3>1, CapturedOfNone
    <2>4. FedWeight(fed, h, r) = IF r \in 1 .. InputLen[h] THEN 1 ELSE 0
        <3>1. r \in 1 .. InputLen[h] <=> \E w \in Workers : r - 1 \in Share(w, InputLen[h])
            BY <1>4, InputsAre
        <3>2. fed = Workers
            BY <1>7 DEF Complete
        <3> QED
            BY <3>1, <3>2 DEF FedWeight
    <2>5. TotalWeight(old, r) \in Int
        BY <1>5, TotalWeightIs
    <2> HIDE DEF old
    <2>6. TotalWeight(old, r) = FedWeight(fed, h, r)
        BY <2>1, <2>2, <2>3, <2>5
    <2> QED
        BY <2>4, <2>6
<1>10. Consolidate(old) = WholeInput(h)
    <2> DEFINE n == InputLen[h]
    <2>1. n \in Nat /\ \A r \in Int : TotalWeight(old, r) = IF r \in 1 .. n THEN 1 ELSE 0
        BY <1>4, <1>9, InputsAre
    <2> HIDE DEF n, old
    <2>2. Consolidate(old) = [i \in 1 .. n |-> i]
        BY <1>5, <2>1, ConsolidateIs
    <2> QED
        BY <2>2 DEF WholeInput, n
<1> HIDE DEF h, old
<1>11. /\ rows'[t] = WholeInput(h) /\ \A u \in Helpers \ {t} : rows'[u] = rows[u]
       /\ HasMerged(t)' /\ \A u \in Helpers \ {t} : HasMerged(u)' <=> HasMerged(u)
    BY <1>1, <1>3, <1>10 DEF HasMerged
<1>12. UnderWay' /\ FlushedIsEmpty'
    BY <1>1 DEF UnderWay, FlushedIsEmpty
<1>13. batches'[h] = << >> /\ \A g \in HeadSet \ {h} : batches'[g] = batches[g]
    BY <1>1, <1>3, <1>4
<1>14. BatchesAscend'
    <2>1. AllAscend(<< >>)
        BY DEF AllAscend
    <2> QED
        BY <1>13, <2>1 DEF BatchesAscend
<1>15. WeightsAddUp'
    <2>1. ASSUME NEW g \in HeadSet, ~ Merged(g)'
          PROVE  g # h /\ ~ Merged(g)
        <3>1. claimed'[t] = h
            BY <1>1 DEF h
        <3>2. g # h
            BY <1>11, <2>1, <3>1 DEF Merged
        <3>3. claimed' = claimed /\ results' = results
            BY <1>1
        <3>4. \A u \in Helpers : HasMerged(u) => HasMerged(u)'
            BY <1>11
        <3> QED
            BY <2>1, <3>2, <3>3, <3>4 DEF Merged
    <2> QED
        BY <1>1, <1>13, <2>1 DEF WeightsAddUp
<1>16. RowsAreRight'
    <2>1. \A u \in Helpers : HasMerged(u)' => rows'[u] = WholeInput(claimed'[u])
        BY <1>1, <1>11 DEF RowsAreRight, h
    <2>2. \A g \in HeadSet : results'[g] # << >> => results'[g] = << WholeInput(g) >>
        BY <1>1 DEF RowsAreRight
    <2> QED
        BY <2>1, <2>2 DEF RowsAreRight, WholeInput
<1> QED
    BY <1>2, <1>12, <1>14, <1>15, <1>16

LEMMA StoreSettles ==
    ASSUME SettledInv, NEW t \in Helpers, Store(t)
    PROVE  SettledInv'
<1> USE DEF SettledInv
<1> DEFINE h == claimed[t]
<1>1. /\ stage[t] = "storing" /\ stage' = [stage EXCEPT ![t] = "claiming"]
      /\ results' = [results EXCEPT ![h] = <<rows[t]>>] /\ rows' = [rows EXCEPT ![t] = << >>]
      /\ UNCHANGED <<fed, moving, retractions, buffer, flushed, batches, claimed>>
    BY DEF Store, Goto, dataflow
<1>2. MaterializationInv'
    BY StoreKeeps
<1>3. /\ stage \in [Helpers -> Stages] /\ rows \in [Helpers -> Seq(Int)]
      /\ results \in [HeadSet -> Seq(Seq(Int))]
    BY DEF MaterializationInv, Types
<1>4. h \in HeadSet /\ rows[t] = WholeInput(h) /\ HasMerged(t)
    BY <1>1 DEF MaterializationInv, Apart, Holding, HasMerged, RowsAreRight
<1> HIDE DEF h
<1>5. /\ results'[h] = << WholeInput(h) >> /\ \A g \in HeadSet \ {h} : results'[g] = results[g]
      /\ ~ HasMerged(t)' /\ \A u \in Helpers \ {t} : (HasMerged(u)' <=> HasMerged(u)) /\ rows'[u] = rows[u]
    BY <1>1, <1>3, <1>4 DEF HasMerged
<1>6. UnderWay' /\ FlushedIsEmpty' /\ BatchesAscend'
    BY <1>1 DEF UnderWay, FlushedIsEmpty, BatchesAscend
<1>7. << WholeInput(h) >> # << >>
    OBVIOUS
<1>8. WeightsAddUp'
    <2>1. ASSUME NEW g \in HeadSet, Merged(g)
          PROVE  Merged(g)'
        <3>1. CASE g = h
            BY <1>5, <1>7, <3>1 DEF Merged
        <3>2. CASE g # h
            <4>1. claimed' = claimed /\ claimed[t] # g /\ results'[g] = results[g]
                BY <1>1, <1>5, <3>2 DEF h
            <4> QED
                BY <1>5, <2>1, <4>1 DEF Merged
        <3> QED
            BY <3>1, <3>2
    <2> QED
        BY <1>1, <2>1 DEF WeightsAddUp
<1>9. RowsAreRight'
    <2>1. \A u \in Helpers : HasMerged(u)' => rows'[u] = WholeInput(claimed'[u])
        BY <1>1, <1>5 DEF RowsAreRight
    <2>2. \A g \in HeadSet : results'[g] # << >> => results'[g] = << WholeInput(g) >>
        BY <1>5 DEF RowsAreRight
    <2> QED
        BY <2>1, <2>2 DEF RowsAreRight, WholeInput
<1> QED
    BY <1>2, <1>6, <1>8, <1>9

LEMMA SettledStep ==
    ASSUME SettledInv, [Next]_vars
    PROVE  SettledInv'
<1> USE DEF SettledInv
<1>1. MaterializationInv'
    BY MaterializationStep
<1>2. ASSUME NEW w \in Workers, Feed(w) \/ Flush(w) \/ EndWorker(w) \/ \E u \in moving : Arrive(w, u)
      PROVE  SettledInv'
    <2>1. EndWorker(w) => SettledInv'
        BY <1>1, SettledStays DEF EndWorker, settling, HasMerged
    <2> QED
        BY <1>2, <2>1, FeedSettles, FlushSettles, ArriveSettles
<1>3. ASSUME NEW h \in HeadSet, Retract(h)
      PROVE  SettledInv'
    BY <1>3, RetractSettles
<1>4. ASSUME NEW t \in Helpers, Start(t) \/ Claim(t) \/ NoteTuples(t) \/ Leave(t)
      PROVE  SettledInv'
    <2>1. stage \in [Helpers -> Stages] /\ claimed \in [Helpers -> Nat]
        BY DEF MaterializationInv, Types
    <2>2. /\ UNCHANGED <<dataflow, batches, results, rows>>
          /\ stage' = [stage EXCEPT ![t] = stage'[t]]
          /\ HasMerged(t)' <=> HasMerged(t)
          /\ HasMerged(t) => claimed'[t] = claimed[t]
          /\ \A u \in Helpers \ {t} : claimed'[u] = claimed[u]
        BY <1>4, <2>1 DEF Start, Claim, NoteTuples, Leave, Goto, HasMerged
    <2>3. \A u \in Helpers \ {t} : stage'[u] = stage[u]
        BY <2>1, <2>2
    <2>4. \A u \in Helpers : HasMerged(u)' <=> HasMerged(u)
        BY <2>2, <2>3 DEF HasMerged
    <2>5. \A u \in Helpers : HasMerged(u) => claimed'[u] = claimed[u] /\ rows'[u] = rows[u]
        BY <2>2
    <2> QED
        BY <1>1, <2>2, <2>4, <2>5, SettledStays
<1>5. ASSUME NEW t \in Helpers, Merge(t) \/ Store(t)
      PROVE  SettledInv'
    BY <1>5, MergeSettles, StoreSettles
<1>6. ASSUME UNCHANGED <<dataflow, settling>>
      PROVE  SettledInv'
    BY <1>1, <1>6, SettledStays DEF settling, HasMerged
<1>7. ASSUME NEW t \in Threads, Memory(t)
      PROVE  SettledInv'
    BY <1>6, <1>7 DEF Memory
<1>8. CASE UNCHANGED vars
    BY <1>6, <1>8 DEF vars
<1> QED
    BY <1>2, <1>3, <1>4, <1>5, <1>7, <1>8 DEF Next
-----------------------------------------------------------------------------
(* The theorems of the materialization *)

\* Whatever the threads do in whichever order, the invariant holds.
\* (dataflow.rs: build_and_feed; inspect.rs: capture; runner.rs: parallel_map,
\* consolidate; accounting.rs)
THEOREM MaterializationIsInductive == Spec => []MaterializationInv
<1>1. Init => MaterializationInv
    BY InitHolds
<1>2. MaterializationInv /\ [Next]_vars => MaterializationInv'
    BY MaterializationStep
<1> QED
    BY <1>1, <1>2, PTL DEF Spec

\* For any number of workers, helpers and heads: what the evaluation's
\* threads hold is what its counter says, once what tagged threads have yet
\* to add is counted in.  (accounting.rs: account, MemoryTag; runner.rs)
THEOREM MemoryIsCharged == Spec => []BytesAreCharged
<1>1. MaterializationInv => BytesAreCharged
    BY DEF MaterializationInv
<1> QED
    BY <1>1, MaterializationIsInductive, PTL

\* The peak that is reported is the highest the counter has been, however
\* the threads' additions and comparisons interleave.
\* (accounting.rs: MemoryCounter::apply)
THEOREM ThePeakIsTheHighest == Spec => []PeakIsTheHighest
<1>1. MaterializationInv => PeakIsTheHighest
    <2> SUFFICES ASSUME MaterializationInv, AllEnded
                 PROVE  peak = highest
        BY DEF PeakIsTheHighest
    <2>1. \A t \in Threads : Settled(t)
        BY ThreadsAre DEF AllEnded, Joined
    <2>2. HighestIsCarried /\ NothingHigher /\ MemoryTypes
        BY DEF MaterializationInv, MemoryInv
    <2> QED
        BY <2>1, <2>2, AccountingAssumption DEF MemoryTypes, HighestIsCarried, Settled
<1> QED
    BY <1>1, MaterializationIsInductive, PTL

\* When the helpers are joined, the evaluation has a fault exactly if its
\* heads hold more rows than the ceiling allows.
\* (accounting.rs: note_tuples; runner.rs: parallel_map)
THEOREM TheCeilingIsNoticed == Spec => []CeilingIsNoticed
<1>1. MaterializationInv => CeilingIsNoticed
    <2> SUFFICES ASSUME MaterializationInv, Joined
                 PROVE  fault <=> TotalLen([h \in HeadSet |-> results[h][1]]) > TupleLimit
        BY DEF CeilingIsNoticed
    <2> USE DEF MaterializationInv
    <2> DEFINE first == [h \in HeadSet |-> results[h][1]]
    <2>1. \A t \in Helpers : stage[t] = "gone"
        BY DEF Joined
    <2>2. next > Heads
        BY <2>1, ThreadsAre DEF Apart
    <2>3. ASSUME NEW h \in HeadSet
          PROVE  Len(results[h]) = 1 /\ results[h][1] \in Seq(Int) /\ TotalLen(results[h]) = Len(results[h][1])
        <3>1. h < next
            BY <2>2, ThreadsAre DEF Types
        <3>2. Len(results[h]) = 1
            BY <2>1, <3>1 DEF Apart, Holding
        <3>3. results[h] \in Seq(Seq(Int))
            BY DEF Types
        <3> DEFINE r == results[h][1]
        <3>4. r \in Seq(Int) /\ results[h] = <<r>>
            BY <3>2, <3>3
        <3>5. TotalLen(<<r>>) = Len(r)
            <4> HIDE DEF r
            <4> QED
                BY <3>4, TotalLenOfOne
        <3> QED
            BY <3>2, <3>4, <3>5
    <2>4. TotalLen(first) = ListBytes(results)
        <3>1. DOMAIN first = HeadSet /\ \A h \in HeadSet : first[h] = results[h][1]
            OBVIOUS
        <3>2. Lengths(first) = [h \in HeadSet |-> TotalLen(results[h])]
            BY <2>3, <3>1 DEF Lengths
        <3> QED
            BY <3>2 DEF TotalLen, Lengths, ListBytes
    <2>5. CountedSum = 0
        <3> DEFINE f == [t \in Helpers |-> Counted(t)]
        <3>1. f \in [Helpers -> Int] /\ \A t \in Helpers : f[t] = 0
            BY <2>1 DEF Counted
        <3> HIDE DEF f
        <3>2. SumFunction(f) = 0
            BY <3>1, SetsAreFinite, SumOfZeros
        <3> QED
            BY <3>2 DEF CountedSum, f
    <2>6. tuples = ListBytes(results) /\ (fault <=> tuples > TupleLimit)
        BY <2>5, HeldType DEF TuplesAreCounted, CountedSum
    <2> HIDE DEF first
    <2>7. tuples = TotalLen(first)
        BY <2>4, <2>6
    <2> QED
        BY <2>6, <2>7, Zenon DEF first
<1> QED
    BY <1>1, MaterializationIsInductive, PTL

\* For any number of workers, helpers and heads, any inputs and any number
\* of retractions: when the helpers are joined, every head has settled as
\* exactly its rows, sorted and each once.
\* (dataflow.rs: build_and_feed; inspect.rs: capture, flush; runner.rs:
\* parallel_map, consolidate, merge_batches)
THEOREM HeadsSettleAsSets == Spec => []SettledAsASet
<1>1. Init => SettledInv
    BY InitSettled
<1>2. SettledInv /\ [Next]_vars => SettledInv'
    BY SettledStep
<1>3. SettledInv => SettledAsASet
    <2> SUFFICES ASSUME SettledInv, Joined, NEW h \in HeadSet
                 PROVE  results[h] = << [i \in 1 .. InputLen[h] |-> i] >>
        BY DEF SettledAsASet
    <2> USE DEF SettledInv
    <2>1. \A t \in Helpers : stage[t] = "gone"
        BY DEF Joined
    <2>2. next > Heads
        BY <2>1, ThreadsAre DEF MaterializationInv, Apart
    <2>3. h < next
        BY <2>2, ThreadsAre DEF MaterializationInv, Types
    <2>4. Len(results[h]) = 1
        BY <2>1, <2>3 DEF MaterializationInv, Apart, Holding
    <2>5. results[h] # << >>
        BY <2>4
    <2> QED
        BY <2>5 DEF RowsAreRight, WholeInput
<1> QED
    BY <1>1, <1>2, <1>3, PTL DEF Spec
=============================================================================
