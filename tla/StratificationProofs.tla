------------------------ MODULE StratificationProofs ------------------------
(***************************************************************************)
(* Stratification is right for every program over finitely many rules, in  *)
(* whatever order the searches try them.                                   *)
(*                                                                         *)
(* All of it is about paths in the dependency graph.  While the first      *)
(* search runs, a finished rule that leads to a rule of the stack is on a  *)
(* cycle with a rule of the stack (LeadsBack), so a rule is left before    *)
(* one that leads to it, or else something on a cycle with the latter is   *)
(* left even later (OrderIsRight).  The second search, which starts where  *)
(* the first one ended last, therefore meets rules that are on a cycle     *)
(* with its root and no others (LeadsBackToAll): its components are the    *)
(* strongly connected ones, and no component leads to a later one.  The    *)
(* rounds of merging then only have to keep count of what is laid out.     *)
(***************************************************************************)
EXTENDS Stratification, FiniteSetTheorems, SequenceTheorems, WellFoundedInduction, TLAPS

\* Pairs of rules of which the first leads to the second, in any number of
\* steps.
Paths == {p \in Rules \X Rules : p[1] = p[2] \/ p[2] \in Reached[p[1]]}

Mutual(x, y) == <<x, y>> \in Paths /\ <<y, x>> \in Paths
-----------------------------------------------------------------------------
(* The first search *)

\* Rules are on the stack, finished, or not met yet.
Ordering ==
    /\ visited = ToSet(stack) \cup ToSet(order)
    /\ ToSet(stack) \cap ToSet(order) = {}
    /\ \A i, j \in DOMAIN stack : stack[i] = stack[j] => i = j
    /\ \A i, j \in DOMAIN stack : i <= j => <<stack[j], stack[i]>> \in Paths
    /\ \A f \in ToSet(order) : DependsOn(f) \subseteq visited

LeadsBack ==
    \A f \in ToSet(order), s \in ToSet(stack) :
        <<f, s>> \in Paths => \E z \in ToSet(stack) : Mutual(z, f)

\* What leads to a rule of the order, and not back, comes before it, or
\* something on a cycle with it does.
OrderIsRight ==
    /\ \A i, j \in DOMAIN order : order[i] = order[j] => i = j
    /\ \A i \in DOMAIN order, y \in Rules :
          <<y, order[i]>> \in Paths /\ <<order[i], y>> \notin Paths =>
              \E z \in Rules : /\ Mutual(z, y)
                               /\ \A j \in DOMAIN order : order[j] = z => j < i
-----------------------------------------------------------------------------
(* The second search *)

\* Every component but the last is whole.
Whole(a) == \A m \in sccs[a], y \in Rules : Mutual(y, m) => y \in sccs[a]

LeadsBackToAll ==
    \A a \in DOMAIN sccs : \A m \in sccs[a], y \in Rules \ Assigned :
        <<y, m>> \in Paths => <<m, y>> \in Paths

Assigning ==
    /\ Rules \ ToSet(order) \subseteq Assigned
    /\ \A a \in DOMAIN sccs : \A x, y \in sccs[a] : <<x, y>> \in Paths
    /\ \A a, b \in DOMAIN sccs : a < b => Whole(a)
    /\ \A a, b \in DOMAIN sccs : a < b =>
          \A m \in sccs[a], y \in sccs[b] : <<y, m>> \notin Paths
    /\ LeadsBackToAll
-----------------------------------------------------------------------------
(* The components and their strata *)

ComponentsAreRight ==
    /\ Assigned = Rules
    /\ \A a \in DOMAIN sccs : \A x \in sccs[a], y \in Rules : y \in sccs[a] <=> Mutual(x, y)
    /\ \A a, b \in DOMAIN sccs : a < b =>
          \A m \in sccs[a], y \in sccs[b] : <<m, y>> \notin Paths
    /\ (\E a \in DOMAIN sccs : NegatesItself(sccs[a])) <=> phase = "refused"

LaidOut == UNION {sccs[a] : a \in merged}

Waiting == \A a \in DOMAIN sccs : waiting[a] = WaitsFor(sccs[a]) \ LaidOut

InStrata ==
    /\ \A r \in Rules : r \in LaidOut <=> \E k \in DOMAIN strata : r \in strata[k].rules
    /\ \A j, k \in DOMAIN strata : \A r \in strata[j].rules : r \in strata[k].rules => j = k
    /\ \A k \in DOMAIN strata : \A r \in strata[k].rules :
          strata[k].recursive <=> r \in Reached[r]
    /\ \A k \in DOMAIN strata : \A r \in strata[k].rules : \A s \in DependsOn(r) :
          \/ \E j \in 1 .. k - 1 : s \in strata[j].rules
          \/ s \in strata[k].rules /\ strata[k].recursive /\ Mutual(r, s)
-----------------------------------------------------------------------------
Phases == {"ordering", "assigning", "merging", "done", "refused"}

Types == /\ phase \in Phases
         /\ visited \in SUBSET Rules
         /\ stack \in Seq(Rules) /\ order \in Seq(Rules)
         /\ sccs \in Seq(SUBSET Rules)
         /\ waiting \in Seq(SUBSET Rules)
         /\ merged \subseteq DOMAIN sccs
         /\ strata \in Seq([rules : SUBSET Rules, recursive : BOOLEAN])

StratificationInv ==
    /\ Types
    /\ phase = "ordering" => Ordering /\ LeadsBack /\ sccs = << >>
    /\ phase = "assigning" => Assigning /\ ToSet(stack) = {}
    /\ phase \in {"ordering", "assigning"} =>
          OrderIsRight /\ merged = {} /\ strata = << >>
    /\ phase \in {"merging", "done", "refused"} =>
          ComponentsAreRight /\ DOMAIN waiting = DOMAIN sccs /\ Waiting /\ InStrata
    /\ phase = "done" => LaidOut = Rules

\* What keeps the rounds going: while a component is left, one is ready.
RoundsProgress == phase = "merging" /\ Unmerged # {} => Ready # {}
-----------------------------------------------------------------------------
(* Paths *)

LEMMA PathsAre ==
    ASSUME NEW x \in Rules, NEW y \in Rules
    PROVE  <<x, y>> \in Paths <=> x = y \/ y \in Reached[x]
BY DEF Paths

\* What a rule leads to is in every closed set that holds what it depends on.
LEMMA ReachedIsLeast ==
    ASSUME NEW x \in Rules, NEW C \in SUBSET Rules,
           \A t \in C : DependsOn(t) \subseteq C, DependsOn(x) \subseteq C
    PROVE  Reached[x] \subseteq C
BY DEF Reached, Closed

\* And it is such a set.
LEMMA ReachedIsClosed ==
    ASSUME NEW x \in Rules
    PROVE  /\ Reached[x] \subseteq Rules
           /\ DependsOn(x) \subseteq Reached[x]
           /\ \A t \in Reached[x] : DependsOn(t) \subseteq Reached[x]
<1>1. \A t \in Rules : DependsOn(t) \subseteq Rules
    BY DEF DependsOn
<1>2. Reached[x] \subseteq Rules /\ DependsOn(x) \subseteq Reached[x]
    BY <1>1 DEF Reached, Closed
<1>3. ASSUME NEW t \in Reached[x], NEW u \in DependsOn(t)
      PROVE  u \in Reached[x]
    <2>1. t \in Rules /\ u \in Rules
        BY <1>1, <1>2, <1>3
    <2>2. ASSUME NEW C \in Closed, DependsOn(x) \subseteq C
          PROVE  u \in C
        <3>1. t \in C
            BY <1>3, <2>2 DEF Reached
        <3> QED
            BY <1>3, <3>1 DEF Closed
    <2> QED
        BY <2>1, <2>2 DEF Reached
<1> QED
    BY <1>2, <1>3

LEMMA EdgesArePaths ==
    ASSUME NEW x \in Rules, NEW y \in DependsOn(x)
    PROVE  y \in Rules /\ y \in Reached[x] /\ <<x, y>> \in Paths
BY ReachedIsClosed, PathsAre

LEMMA PathsAreReflexive == \A x \in Rules : <<x, x>> \in Paths
BY PathsAre

LEMMA ReachedIsTransitive ==
    ASSUME NEW x \in Rules, NEW y \in Reached[x]
    PROVE  Reached[y] \subseteq Reached[x]
<1>1. /\ y \in Rules /\ Reached[x] \in SUBSET Rules /\ DependsOn(y) \subseteq Reached[x]
      /\ \A t \in Reached[x] : DependsOn(t) \subseteq Reached[x]
    BY ReachedIsClosed
<1> QED
    BY <1>1, ReachedIsLeast

LEMMA PathsAreTransitive ==
    ASSUME NEW x \in Rules, NEW y \in Rules, NEW z \in Rules,
           <<x, y>> \in Paths, <<y, z>> \in Paths
    PROVE  <<x, z>> \in Paths
BY PathsAre, ReachedIsTransitive

\* A path that is not of no step begins with one.
LEMMA FirstStep ==
    ASSUME NEW x \in Rules, NEW y \in Reached[x]
    PROVE  \E d \in DependsOn(x) : <<d, y>> \in Paths
<1> DEFINE C == {t \in Rules : \E d \in DependsOn(x) : <<d, t>> \in Paths}
<1>1. DependsOn(x) \subseteq C
    BY EdgesArePaths, PathsAreReflexive
<1>2. ASSUME NEW t \in C, NEW u \in DependsOn(t)
      PROVE  u \in C
    <2>1. PICK d \in DependsOn(x) : <<d, t>> \in Paths
        OBVIOUS
    <2>2. d \in Rules /\ t \in Rules /\ u \in Rules /\ <<t, u>> \in Paths
        BY EdgesArePaths
    <2>3. <<d, u>> \in Paths
        BY <2>1, <2>2, PathsAreTransitive
    <2> QED
        BY <2>2, <2>3
<1>3. Reached[x] \subseteq C
    BY <1>1, <1>2, ReachedIsLeast
<1> QED
    BY <1>3

\* A path into a set from outside has a step into it.
LEMMA CrossingEdge ==
    ASSUME NEW A \in SUBSET Rules, NEW x \in Rules, x \notin A, NEW y \in A, <<x, y>> \in Paths
    PROVE  \E u \in Rules \ A, v \in A :
              /\ v \in DependsOn(u)
              /\ <<x, u>> \in Paths /\ <<v, y>> \in Paths
<1> SUFFICES ASSUME \A u \in Rules \ A, v \in A :
                       /\ v \in DependsOn(u)
                       /\ <<x, u>> \in Paths
                       => <<v, y>> \notin Paths
             PROVE  FALSE
    OBVIOUS
<1> DEFINE C == {t \in Rules : <<x, t>> \in Paths /\ ~ (t \in A /\ <<t, y>> \in Paths)}
<1>1. x \in C
    BY PathsAreReflexive
<1>2. ASSUME NEW t \in C, NEW u \in DependsOn(t)
      PROVE  u \in C
    <2>1. t \in Rules /\ u \in Rules /\ <<t, u>> \in Paths /\ <<x, t>> \in Paths
        BY EdgesArePaths
    <2>2. <<x, u>> \in Paths
        BY <2>1, PathsAreTransitive
    <2>3. ASSUME u \in A, <<u, y>> \in Paths
          PROVE  FALSE
        <3>1. <<t, y>> \in Paths
            BY <2>1, <2>3, PathsAreTransitive
        <3> QED
            BY <2>1, <2>3, <3>1
    <2> QED
        BY <2>1, <2>2, <2>3
<1>3. DependsOn(x) \subseteq C
    BY <1>1, <1>2
<1>4. Reached[x] \subseteq C
    BY <1>2, <1>3, ReachedIsLeast
<1>5. y \in Reached[x]
    BY PathsAre
<1>6. y \in C
    BY <1>4, <1>5
<1> QED
    BY <1>6, PathsAreReflexive

LEMMA MutualIsTransitive ==
    ASSUME NEW x \in Rules, NEW y \in Rules, NEW z \in Rules, Mutual(x, y), Mutual(y, z)
    PROVE  Mutual(x, z)
BY PathsAreTransitive DEF Mutual

\* Only the program makes paths.
LEMMA SamePaths ==
    ASSUME UNCHANGED program
    PROVE  /\ Paths' = Paths /\ Reached' = Reached
           /\ \A x : DependsOn(x)' = DependsOn(x) /\ Negates(x)' = Negates(x)
           /\ \A x, y : Mutual(x, y)' <=> Mutual(x, y)
<1>1. \A x : DependsOn(x)' = DependsOn(x) /\ Negates(x)' = Negates(x)
    BY DEF DependsOn, Negates
<1>2. Closed' = Closed
    BY <1>1 DEF Closed
<1>3. Reached' = Reached
    BY <1>1, <1>2 DEF Reached
<1>4. Paths' = Paths
    BY <1>3 DEF Paths
<1> QED
    BY <1>1, <1>3, <1>4 DEF Mutual
-----------------------------------------------------------------------------
(* Sequences *)

LEMMA Push ==
    ASSUME NEW S, NEW seq \in Seq(S), NEW e \in S
    PROVE  /\ <<e>> \o seq \in Seq(S)
           /\ Len(seq) \in Nat /\ DOMAIN seq = 1 .. Len(seq)
           /\ DOMAIN (<<e>> \o seq) = 1 .. Len(seq) + 1
           /\ (<<e>> \o seq)[1] = e
           /\ \A i \in 1 .. Len(seq) : (<<e>> \o seq)[i + 1] = seq[i]
           /\ \A i \in 2 .. Len(seq) + 1 : (<<e>> \o seq)[i] = seq[i - 1]
           /\ ToSet(<<e>> \o seq) = {e} \cup ToSet(seq)
<1> DEFINE p == <<e>> \o seq
<1>1. <<e>> \in Seq(S) /\ Len(<<e>>) = 1 /\ <<e>>[1] = e
    OBVIOUS
<1>2. Len(seq) \in Nat /\ DOMAIN seq = 1 .. Len(seq)
    OBVIOUS
<1>3. /\ p \in Seq(S) /\ Len(p) = 1 + Len(seq)
      /\ \A i \in 1 .. 1 + Len(seq) : p[i] = IF i <= 1 THEN <<e>>[i] ELSE seq[i - 1]
    BY <1>1, ConcatProperties
<1>4. DOMAIN p = 1 .. Len(seq) + 1
    BY <1>2, <1>3
<1> HIDE DEF p
<1>5. p[1] = e /\ \A i \in 2 .. Len(seq) + 1 : p[i] = seq[i - 1]
    BY <1>1, <1>2, <1>3
<1>6. \A i \in 1 .. Len(seq) : p[i + 1] = seq[i]
    BY <1>2, <1>5
<1>7. ToSet(p) = {e} \cup ToSet(seq)
    <2>1. ToSet(p) \subseteq {e} \cup ToSet(seq)
        BY <1>2, <1>4, <1>5 DEF ToSet
    <2>2. {e} \cup ToSet(seq) \subseteq ToSet(p)
        BY <1>2, <1>4, <1>5, <1>6 DEF ToSet
    <2> QED
        BY <2>1, <2>2
<1> QED
    BY <1>2, <1>3, <1>4, <1>5, <1>6, <1>7 DEF p

LEMMA Pop ==
    ASSUME NEW S, NEW seq \in Seq(S), seq # << >>
    PROVE  /\ Tail(seq) \in Seq(S)
           /\ Len(seq) \in Nat \ {0} /\ DOMAIN seq = 1 .. Len(seq)
           /\ Head(seq) = seq[1] /\ Head(seq) \in S
           /\ DOMAIN Tail(seq) = 1 .. Len(seq) - 1
           /\ \A i \in 1 .. Len(seq) - 1 : Tail(seq)[i] = seq[i + 1]
           /\ ToSet(seq) = {Head(seq)} \cup ToSet(Tail(seq))
<1>1. /\ Tail(seq) \in Seq(S)
      /\ Len(seq) \in Nat \ {0} /\ DOMAIN seq = 1 .. Len(seq)
      /\ Head(seq) = seq[1] /\ Head(seq) \in S
      /\ DOMAIN Tail(seq) = 1 .. Len(seq) - 1
      /\ \A i \in 1 .. Len(seq) - 1 : Tail(seq)[i] = seq[i + 1]
    OBVIOUS
<1>2. ToSet(seq) \subseteq {Head(seq)} \cup ToSet(Tail(seq))
    <2> SUFFICES ASSUME NEW i \in DOMAIN seq
                 PROVE  seq[i] \in {Head(seq)} \cup ToSet(Tail(seq))
        BY DEF ToSet
    <2>1. CASE i = 1
        BY <1>1, <2>1
    <2>2. CASE i # 1
        <3>1. i - 1 \in 1 .. Len(seq) - 1 /\ Tail(seq)[i - 1] = seq[i]
            BY <1>1, <2>2
        <3> QED
            BY <1>1, <3>1 DEF ToSet
    <2> QED
        BY <2>1, <2>2
<1>3. {Head(seq)} \cup ToSet(Tail(seq)) \subseteq ToSet(seq)
    BY <1>1 DEF ToSet
<1> QED
    BY <1>1, <1>2, <1>3
-----------------------------------------------------------------------------
(* The first search *)

LEMMA InitKeeps == Init => StratificationInv
<1> SUFFICES ASSUME Init PROVE StratificationInv
    OBVIOUS
<1>1. ToSet(<< >>) = {} /\ DOMAIN << >> = {}
    BY DEF ToSet
<1>2. Types
    BY <1>1 DEF Init, Types, Phases
<1>3. Ordering /\ LeadsBack /\ OrderIsRight
    BY <1>1 DEF Init, Ordering, LeadsBack, OrderIsRight
<1> QED
    BY <1>2, <1>3 DEF Init, StratificationInv

\* A rule that is visited is led to by the whole stack.
LEMMA VisitKeeps ==
    ASSUME StratificationInv, NEW r \in Rules, Visit(r)
    PROVE  StratificationInv'
<1>1. /\ phase = "ordering" /\ phase' = "ordering" /\ r \notin visited
      /\ stack # << >> => r \in DependsOn(Head(stack))
      /\ visited' = visited \cup {r} /\ stack' = <<r>> \o stack
      /\ UNCHANGED <<program, order, sccs, waiting, merged, strata>>
    BY DEF Visit
<1>2. Types /\ Ordering /\ LeadsBack /\ OrderIsRight /\ sccs = << >> /\ merged = {} /\ strata = << >>
    BY <1>1 DEF StratificationInv
<1>3. stack \in Seq(Rules) /\ order \in Seq(Rules) /\ ToSet(order) \subseteq Rules
      /\ ToSet(stack) \subseteq Rules
    BY <1>2 DEF Types, ToSet
<1>4. /\ stack' \in Seq(Rules)
      /\ Len(stack) \in Nat /\ DOMAIN stack = 1 .. Len(stack)
      /\ DOMAIN stack' = 1 .. Len(stack) + 1
      /\ stack'[1] = r
      /\ \A i \in 2 .. Len(stack) + 1 : stack'[i] = stack[i - 1]
      /\ ToSet(stack') = {r} \cup ToSet(stack)
    BY <1>1, <1>3, Push
<1>5. /\ Paths' = Paths
      /\ \A x : DependsOn(x)' = DependsOn(x)
      /\ \A x, y : Mutual(x, y)' <=> Mutual(x, y)
    BY <1>1, SamePaths
<1>6. \A i \in 1 .. Len(stack) : <<stack[i], r>> \in Paths
    <2> SUFFICES ASSUME NEW i \in 1 .. Len(stack) PROVE <<stack[i], r>> \in Paths
        OBVIOUS
    <2>1. stack # << >> /\ 1 \in DOMAIN stack /\ Head(stack) = stack[1] /\ stack[1] \in Rules
        BY <1>3, <1>4
    <2>2. <<stack[1], r>> \in Paths
        BY <1>1, <2>1, EdgesArePaths
    <2>3. stack[i] \in Rules /\ i \in DOMAIN stack /\ 1 <= i
        BY <1>3, <1>4
    <2>4. <<stack[i], stack[1]>> \in Paths
        BY <1>2, <2>1, <2>3 DEF Ordering
    <2> QED
        BY <2>1, <2>2, <2>3, <2>4, PathsAreTransitive
<1>7. Types'
    BY <1>1, <1>2, <1>4 DEF Types
<1>8. Ordering'
    <2>1. visited' = ToSet(stack') \cup ToSet(order') /\ ToSet(stack') \cap ToSet(order') = {}
        BY <1>1, <1>2, <1>4 DEF Ordering
    <2>2. \A i, j \in DOMAIN stack' : stack'[i] = stack'[j] => i = j
        <3>1. \A i \in 1 .. Len(stack) : stack[i] # r
            BY <1>1, <1>2, <1>4 DEF Ordering, ToSet
        <3> SUFFICES ASSUME NEW i \in DOMAIN stack', NEW j \in DOMAIN stack', stack'[i] = stack'[j]
                     PROVE  i = j
            OBVIOUS
        <3>2. CASE i = 1 \/ j = 1
            <4>1. \A k \in 2 .. Len(stack) + 1 : stack'[k] # r
                BY <1>4, <3>1
            <4> QED
                BY <1>4, <3>2, <4>1
        <3>3. CASE i # 1 /\ j # 1
            <4>1. /\ i - 1 \in DOMAIN stack /\ j - 1 \in DOMAIN stack
                  /\ stack[i - 1] = stack[j - 1]
                BY <1>4, <3>3
            <4>2. i - 1 = j - 1
                BY <1>2, <4>1 DEF Ordering
            <4> QED
                BY <1>4, <4>2
        <3> QED
            BY <3>2, <3>3
    <2>3. \A i, j \in DOMAIN stack' : i <= j => <<stack'[j], stack'[i]>> \in Paths'
        <3> SUFFICES ASSUME NEW i \in DOMAIN stack', NEW j \in DOMAIN stack', i <= j
                     PROVE  <<stack'[j], stack'[i]>> \in Paths
            BY <1>5
        <3>1. CASE j = 1
            BY <1>4, <3>1, PathsAreReflexive
        <3>2. CASE i = 1 /\ j # 1
            BY <1>4, <1>6, <3>2
        <3>3. CASE i # 1
            <4>1. /\ i - 1 \in DOMAIN stack /\ j - 1 \in DOMAIN stack /\ i - 1 <= j - 1
                  /\ stack'[i] = stack[i - 1] /\ stack'[j] = stack[j - 1]
                BY <1>4, <3>3
            <4> QED
                BY <1>2, <4>1 DEF Ordering
        <3> QED
            BY <3>1, <3>2, <3>3
    <2>4. \A f \in ToSet(order') : DependsOn(f)' \subseteq visited'
        BY <1>1, <1>2, <1>5 DEF Ordering
    <2> QED
        BY <2>1, <2>2, <2>3, <2>4 DEF Ordering
<1>9. LeadsBack'
    <2> SUFFICES ASSUME NEW f \in ToSet(order), NEW s \in ToSet(stack'), <<f, s>> \in Paths
                 PROVE  \E z \in ToSet(stack') : Mutual(z, f)
        BY <1>1, <1>5 DEF LeadsBack
    <2>1. CASE s \in ToSet(stack)
        BY <1>2, <1>4, <2>1 DEF LeadsBack
    <2>2. CASE s = r
        <3>1. f \in Rules /\ r \notin ToSet(order)
            BY <1>1, <1>2, <1>3 DEF Ordering
        <3> DEFINE A == Rules \ ToSet(order)
        <3>2. PICK u \in Rules \ A, v \in A :
                 v \in DependsOn(u) /\ <<f, u>> \in Paths /\ <<v, r>> \in Paths
            <4>1. f \in Rules /\ f \notin A /\ A \in SUBSET Rules /\ r \in A /\ <<f, r>> \in Paths
                BY <2>2, <3>1
            <4> HIDE DEF A
            <4> QED
                BY <4>1, CrossingEdge
        <3>3. v \in ToSet(stack) /\ <<u, v>> \in Paths
            BY <1>2, <3>2, EdgesArePaths DEF Ordering
        <3>4. <<f, v>> \in Paths
            BY <3>1, <3>2, <3>3, PathsAreTransitive
        <3> QED
            BY <1>2, <1>4, <3>3, <3>4 DEF LeadsBack
    <2> QED
        BY <1>4, <2>1, <2>2
<1>10. OrderIsRight'
    BY <1>1, <1>2, <1>5 DEF OrderIsRight
<1> QED
    BY <1>1, <1>2, <1>7, <1>8, <1>9, <1>10 DEF StratificationInv

\* A rule is left when all it depends on has been met: what leads to it and is
\* finished already was on a cycle with a rule that is still on the stack.
LEMMA FinishKeeps ==
    ASSUME StratificationInv, Finish
    PROVE  StratificationInv'
<1> DEFINE h == Head(stack)
<1>1. /\ phase = "ordering" /\ phase' = "ordering" /\ stack # << >>
      /\ DependsOn(h) \subseteq visited
      /\ stack' = Tail(stack) /\ order' = <<h>> \o order
      /\ UNCHANGED <<program, visited, sccs, waiting, merged, strata>>
    BY DEF Finish
<1>2. Types /\ Ordering /\ LeadsBack /\ OrderIsRight /\ sccs = << >> /\ merged = {} /\ strata = << >>
    BY <1>1 DEF StratificationInv
<1>3. stack \in Seq(Rules) /\ order \in Seq(Rules) /\ ToSet(order) \subseteq Rules
      /\ ToSet(stack) \subseteq Rules
    BY <1>2 DEF Types, ToSet
<1>4. /\ stack' \in Seq(Rules)
      /\ Len(stack) \in Nat \ {0} /\ DOMAIN stack = 1 .. Len(stack)
      /\ h = stack[1] /\ h \in Rules
      /\ DOMAIN stack' = 1 .. Len(stack) - 1
      /\ \A i \in 1 .. Len(stack) - 1 : stack'[i] = stack[i + 1]
      /\ ToSet(stack) = {h} \cup ToSet(stack')
    BY <1>1, <1>3, Pop
<1> HIDE DEF h
<1>5. /\ order' \in Seq(Rules)
      /\ Len(order) \in Nat /\ DOMAIN order = 1 .. Len(order)
      /\ DOMAIN order' = 1 .. Len(order) + 1
      /\ order'[1] = h
      /\ \A i \in 2 .. Len(order) + 1 : order'[i] = order[i - 1]
      /\ ToSet(order') = {h} \cup ToSet(order)
    BY <1>1, <1>3, <1>4, Push
<1>6. /\ Paths' = Paths
      /\ \A x : DependsOn(x)' = DependsOn(x)
      /\ \A x, y : Mutual(x, y)' <=> Mutual(x, y)
    BY <1>1, SamePaths
<1>7. h \notin ToSet(stack')
    <2> SUFFICES ASSUME NEW i \in 1 .. Len(stack) - 1, stack[i + 1] = h PROVE FALSE
        BY <1>4 DEF ToSet
    <2>1. 1 \in DOMAIN stack /\ i + 1 \in DOMAIN stack
        BY <1>4
    <2>2. i + 1 = 1
        BY <1>2, <1>4, <2>1 DEF Ordering
    <2> QED
        BY <1>4, <2>2
<1>8. h \notin ToSet(order)
    BY <1>2, <1>4 DEF Ordering
<1>9. \A s \in ToSet(stack') : s \in Rules /\ <<s, h>> \in Paths
    <2> SUFFICES ASSUME NEW i \in 1 .. Len(stack) - 1
                 PROVE  stack[i + 1] \in Rules /\ <<stack[i + 1], h>> \in Paths
        BY <1>4 DEF ToSet
    <2>1. 1 \in DOMAIN stack /\ i + 1 \in DOMAIN stack /\ 1 <= i + 1
        BY <1>4
    <2>2. stack[i + 1] \in Rules
        BY <1>3, <2>1
    <2>3. <<stack[i + 1], stack[1]>> \in Paths
        BY <1>2, <2>1 DEF Ordering
    <2> QED
        BY <1>4, <2>2, <2>3
<1>10. Types'
    BY <1>1, <1>2, <1>4, <1>5 DEF Types
<1>11. Ordering'
    <2>1. visited' = ToSet(stack') \cup ToSet(order') /\ ToSet(stack') \cap ToSet(order') = {}
        BY <1>1, <1>2, <1>4, <1>5, <1>7 DEF Ordering
    <2>2. ASSUME NEW i \in DOMAIN stack', NEW j \in DOMAIN stack'
          PROVE  /\ stack'[i] = stack'[j] => i = j
                 /\ i <= j => <<stack'[j], stack'[i]>> \in Paths
        <3>1. /\ i + 1 \in DOMAIN stack /\ j + 1 \in DOMAIN stack
              /\ stack'[i] = stack[i + 1] /\ stack'[j] = stack[j + 1]
            BY <1>4
        <3>2. stack[i + 1] = stack[j + 1] => i + 1 = j + 1
            BY <1>2, <3>1 DEF Ordering
        <3>3. i + 1 <= j + 1 => <<stack[j + 1], stack[i + 1]>> \in Paths
            BY <1>2, <3>1 DEF Ordering
        <3> QED
            BY <1>4, <3>1, <3>2, <3>3
    <2>3. \A f \in ToSet(order') : DependsOn(f)' \subseteq visited'
        BY <1>1, <1>2, <1>5, <1>6 DEF Ordering
    <2> QED
        BY <1>6, <2>1, <2>2, <2>3 DEF Ordering
<1>12. LeadsBack'
    <2> SUFFICES ASSUME NEW f \in ToSet(order'), NEW s \in ToSet(stack'), <<f, s>> \in Paths
                 PROVE  \E z \in ToSet(stack') : Mutual(z, f)
        BY <1>6 DEF LeadsBack
    <2>1. s \in Rules /\ <<s, h>> \in Paths
        BY <1>9
    <2>2. CASE f = h
        BY <2>1, <2>2 DEF Mutual
    <2>3. CASE f \in ToSet(order)
        <3>1. PICK z \in ToSet(stack) : Mutual(z, f)
            BY <1>2, <1>4, <2>3 DEF LeadsBack
        <3>2. CASE z = h
            <4>1. <<s, f>> \in Paths
                BY <1>3, <1>4, <2>1, <2>3, <3>1, <3>2, PathsAreTransitive DEF Mutual
            <4> QED
                BY <4>1 DEF Mutual
        <3> QED
            BY <1>4, <3>1, <3>2
    <2> QED
        BY <1>5, <2>2, <2>3
<1>13. OrderIsRight'
    <2>1. ASSUME NEW i \in DOMAIN order', NEW j \in DOMAIN order', order'[i] = order'[j]
          PROVE  i = j
        <3>1. \A k \in 2 .. Len(order) + 1 : order'[k] # h
            BY <1>5, <1>8 DEF ToSet
        <3>2. CASE i = 1 \/ j = 1
            BY <1>5, <2>1, <3>1, <3>2
        <3>3. CASE i # 1 /\ j # 1
            <4>1. /\ i - 1 \in DOMAIN order /\ j - 1 \in DOMAIN order
                  /\ order[i - 1] = order[j - 1]
                BY <1>5, <2>1, <3>3
            <4>2. i - 1 = j - 1
                BY <1>2, <4>1 DEF OrderIsRight
            <4> QED
                BY <1>5, <4>2
        <3> QED
            BY <3>2, <3>3
    <2>2. ASSUME NEW i \in DOMAIN order', NEW y \in Rules,
                 <<y, order'[i]>> \in Paths, <<order'[i], y>> \notin Paths
          PROVE  \E z \in Rules : /\ Mutual(z, y)
                                  /\ \A j \in DOMAIN order' : order'[j] = z => j < i
        <3>1. CASE i = 1
            <4>1. \E z \in Rules \ ToSet(order') : Mutual(z, y)
                <5>1. CASE y \in ToSet(order)
                    <6>1. PICK z \in ToSet(stack) : Mutual(z, y)
                        BY <1>2, <1>4, <1>5, <2>2, <3>1, <5>1 DEF LeadsBack
                    <6>2. z # h
                        BY <1>5, <2>2, <3>1, <6>1 DEF Mutual
                    <6> QED
                        BY <1>2, <1>3, <1>5, <6>1, <6>2 DEF Ordering
                <5>2. CASE y \notin ToSet(order)
                    <6>1. y # h /\ Mutual(y, y)
                        BY <1>5, <2>2, <3>1, PathsAreReflexive DEF Mutual
                    <6> QED
                        BY <1>5, <5>2, <6>1
                <5> QED
                    BY <5>1, <5>2
            <4> QED
                BY <4>1 DEF ToSet
        <3>2. CASE i # 1
            <4>1. i - 1 \in DOMAIN order /\ order'[i] = order[i - 1]
                BY <1>5, <3>2
            <4>2. PICK z \in Rules : /\ Mutual(z, y)
                                     /\ \A j \in DOMAIN order : order[j] = z => j < i - 1
                BY <1>2, <2>2, <4>1 DEF OrderIsRight
            <4>3. ASSUME NEW j \in DOMAIN order', order'[j] = z
                  PROVE  j < i
                <5>1. CASE j = 1
                    BY <1>5, <3>2, <5>1
                <5>2. CASE j # 1
                    <6>1. j - 1 \in DOMAIN order /\ order[j - 1] = z
                        BY <1>5, <4>3, <5>2
                    <6>2. j - 1 < i - 1
                        BY <4>2, <6>1
                    <6> QED
                        BY <1>5, <6>2
                <5> QED
                    BY <5>1, <5>2
            <4> QED
                BY <4>2, <4>3
        <3> QED
            BY <3>1, <3>2
    <2> QED
        BY <1>6, <2>1, <2>2 DEF OrderIsRight
<1> QED
    BY <1>1, <1>2, <1>10, <1>11, <1>12, <1>13 DEF StratificationInv

LEMMA OrderedKeeps ==
    ASSUME StratificationInv, Ordered
    PROVE  StratificationInv'
<1>1. /\ phase = "ordering" /\ phase' = "assigning" /\ stack = << >> /\ visited = Rules
      /\ UNCHANGED <<program, visited, stack, order, sccs, waiting, merged, strata>>
    BY DEF Ordered
<1>2. Types /\ Ordering /\ OrderIsRight /\ sccs = << >> /\ merged = {} /\ strata = << >>
    BY <1>1 DEF StratificationInv
<1>3. ToSet(stack) = {} /\ DOMAIN sccs = {} /\ Assigned = {}
    BY <1>1, <1>2 DEF ToSet, Assigned
<1>4. /\ Paths' = Paths
      /\ \A x, y : Mutual(x, y)' <=> Mutual(x, y)
    BY <1>1, SamePaths
<1>5. Types'
    BY <1>1, <1>2 DEF Types, Phases
<1>6. Rules \ ToSet(order) \subseteq Assigned
    BY <1>1, <1>2, <1>3 DEF Ordering
<1>7. Assigning'
    BY <1>1, <1>3, <1>6 DEF Assigning, LeadsBackToAll, Assigned
<1>8. OrderIsRight'
    BY <1>1, <1>2, <1>4 DEF OrderIsRight
<1> QED
    BY <1>1, <1>2, <1>3, <1>5, <1>7, <1>8 DEF StratificationInv
-----------------------------------------------------------------------------
(* The second search *)

LEMMA ComponentsAreSets ==
    ASSUME sccs \in Seq(SUBSET Rules)
    PROVE  /\ Len(sccs) \in Nat /\ DOMAIN sccs = 1 .. Len(sccs)
           /\ \A a \in DOMAIN sccs : sccs[a] \in SUBSET Rules /\ sccs[a] \subseteq Assigned
           /\ Assigned \in SUBSET Rules
           /\ \A x \in Assigned : \E a \in DOMAIN sccs : x \in sccs[a]
BY DEF Assigned, ToSet

\* A rule that grows the last component leads to all of it, so it is led to by
\* all of it; and if an earlier component led to it, it would be in that one.
LEMMA GrowKeeps ==
    ASSUME StratificationInv, NEW s \in Rules, Grow(s)
    PROVE  StratificationInv'
<1> DEFINE n == Len(sccs)
<1>1. /\ phase = "assigning" /\ phase' = "assigning" /\ s \in Growing
      /\ sccs' = [sccs EXCEPT ![n] = @ \cup {s}]
      /\ UNCHANGED <<program, visited, stack, order, waiting, merged, strata>>
    BY DEF Grow
<1>2. Types /\ Assigning /\ OrderIsRight /\ merged = {} /\ strata = << >> /\ ToSet(stack) = {}
    BY <1>1 DEF StratificationInv
<1>3. sccs \in Seq(SUBSET Rules)
    BY <1>2 DEF Types
<1>4. /\ n \in Nat /\ DOMAIN sccs = 1 .. n
      /\ \A a \in DOMAIN sccs : sccs[a] \in SUBSET Rules /\ sccs[a] \subseteq Assigned
      /\ Assigned \in SUBSET Rules
      /\ \A x \in Assigned : \E a \in DOMAIN sccs : x \in sccs[a]
    BY <1>3, ComponentsAreSets
<1>5. s \notin Assigned /\ sccs # << >> /\ \E r \in Last(sccs) : s \in Neighbours(r)
    BY <1>1 DEF Growing
<1>6. n \in DOMAIN sccs /\ Last(sccs) = sccs[n]
    BY <1>3, <1>4, <1>5 DEF Last
<1> HIDE DEF n
<1>7. PICK r \in sccs[n] : r \in DependsOn(s)
    BY <1>5, <1>6 DEF Neighbours
<1>8. r \in Rules /\ <<s, r>> \in Paths
    BY <1>7, EdgesArePaths
<1>9. <<r, s>> \in Paths
    BY <1>2, <1>5, <1>6, <1>8 DEF Assigning, LeadsBackToAll
<1>10. \A x \in sccs[n] : Mutual(x, s)
    <2> SUFFICES ASSUME NEW x \in sccs[n] PROVE Mutual(x, s)
        OBVIOUS
    <2>1. x \in Rules /\ <<x, r>> \in Paths /\ <<r, x>> \in Paths
        BY <1>2, <1>4, <1>6 DEF Assigning
    <2>2. <<x, s>> \in Paths
        BY <1>8, <1>9, <2>1, PathsAreTransitive
    <2>3. <<s, x>> \in Paths
        BY <1>8, <2>1, PathsAreTransitive
    <2> QED
        BY <2>2, <2>3 DEF Mutual
<1>11. /\ sccs' \in Seq(SUBSET Rules) /\ DOMAIN sccs' = DOMAIN sccs
       /\ sccs'[n] = sccs[n] \cup {s}
       /\ \A a \in DOMAIN sccs : a # n => sccs'[a] = sccs[a]
    BY <1>1, <1>3, <1>4, <1>6
<1>12. Assigned' = Assigned \cup {s}
    <2>1. Assigned' \subseteq Assigned \cup {s}
        BY <1>4, <1>6, <1>11 DEF Assigned, ToSet
    <2>2. s \in Assigned'
        BY <1>6, <1>11 DEF Assigned, ToSet
    <2>3. \A a \in DOMAIN sccs : sccs[a] \subseteq sccs'[a]
        BY <1>6, <1>11
    <2>4. \A a \in DOMAIN sccs : sccs'[a] \subseteq Assigned'
        BY <1>11 DEF Assigned, ToSet
    <2>5. Assigned \subseteq Assigned'
        BY <1>4, <2>3, <2>4
    <2> QED
        BY <2>1, <2>2, <2>5
<1>13. /\ Paths' = Paths
       /\ \A x, y : Mutual(x, y)' <=> Mutual(x, y)
    BY <1>1, SamePaths
<1>14. Types'
    BY <1>1, <1>2, <1>11 DEF Types
<1>15. \A a, b \in DOMAIN sccs : a < b => a # n
    BY <1>4, <1>6
<1>16. Assigning'
    <2>1. Rules \ ToSet(order') \subseteq Assigned'
        BY <1>1, <1>2, <1>12 DEF Assigning
    <2>2. \A a \in DOMAIN sccs' : \A x, y \in sccs'[a] : <<x, y>> \in Paths'
        <3> SUFFICES ASSUME NEW a \in DOMAIN sccs, NEW x \in sccs'[a], NEW y \in sccs'[a]
                     PROVE  <<x, y>> \in Paths
            BY <1>11, <1>13
        <3>1. CASE a # n
            BY <1>2, <1>11, <3>1 DEF Assigning
        <3>2. CASE a = n
            <4>1. \A u, v \in sccs[n] : <<u, v>> \in Paths
                BY <1>2, <1>6 DEF Assigning
            <4>2. x \in sccs[n] \cup {s} /\ y \in sccs[n] \cup {s}
                BY <1>11, <3>2
            <4> QED
                BY <1>10, <4>1, <4>2, PathsAreReflexive DEF Mutual
        <3> QED
            BY <3>1, <3>2
    <2>3. \A a, b \in DOMAIN sccs' : a < b => Whole(a)'
        <3> SUFFICES ASSUME NEW a \in DOMAIN sccs, NEW b \in DOMAIN sccs, a < b
                     PROVE  Whole(a)'
            BY <1>11
        <3>1. Whole(a) /\ sccs'[a] = sccs[a]
            BY <1>2, <1>11, <1>15 DEF Assigning
        <3> QED
            BY <1>13, <3>1 DEF Whole
    <2>4. \A a, b \in DOMAIN sccs' : a < b =>
             \A m \in sccs'[a], y \in sccs'[b] : <<y, m>> \notin Paths'
        <3> SUFFICES ASSUME NEW a \in DOMAIN sccs, NEW b \in DOMAIN sccs, a < b,
                            NEW m \in sccs'[a], NEW y \in sccs'[b], <<y, m>> \in Paths
                     PROVE  FALSE
            BY <1>11, <1>13
        <3>1. m \in sccs[a] /\ Whole(a) /\ m \in Rules
            BY <1>2, <1>4, <1>11, <1>15 DEF Assigning
        <3>2. CASE y \in sccs[b]
            BY <1>2, <3>1, <3>2 DEF Assigning
        <3>3. CASE y = s
            <4>1. Mutual(s, m)
                BY <1>2, <1>5, <3>1, <3>3 DEF Assigning, LeadsBackToAll, Mutual
            <4>2. s \in sccs[a]
                BY <3>1, <4>1 DEF Whole
            <4> QED
                BY <1>4, <1>5, <4>2
        <3> QED
            BY <1>11, <3>2, <3>3
    <2>5. LeadsBackToAll'
        <3> SUFFICES ASSUME NEW a \in DOMAIN sccs, NEW m \in sccs'[a], NEW y \in Rules \ Assigned,
                            <<y, m>> \in Paths
                     PROVE  <<m, y>> \in Paths
            BY <1>11, <1>12, <1>13 DEF LeadsBackToAll
        <3>1. CASE m \in sccs[a]
            BY <1>2, <3>1 DEF Assigning, LeadsBackToAll
        <3>2. CASE m = s
            <4>1. <<y, r>> \in Paths
                BY <1>8, <3>2, PathsAreTransitive
            <4>2. <<r, y>> \in Paths
                BY <1>2, <1>6, <4>1 DEF Assigning, LeadsBackToAll
            <4> QED
                BY <1>8, <3>2, <4>2, PathsAreTransitive
        <3> QED
            BY <1>11, <3>1, <3>2
    <2> QED
        BY <2>1, <2>2, <2>3, <2>4, <2>5 DEF Assigning
<1>17. OrderIsRight'
    BY <1>1, <1>2, <1>13 DEF OrderIsRight
<1> QED
    BY <1>1, <1>2, <1>14, <1>16, <1>17 DEF StratificationInv

\* A component that no longer grows is whole.
LEMMA AllAreWhole ==
    ASSUME StratificationInv, phase = "assigning", Growing = {}
    PROVE  \A a \in DOMAIN sccs : Whole(a)
<1>1. Types /\ Assigning
    BY DEF StratificationInv
<1>2. sccs \in Seq(SUBSET Rules)
    BY <1>1 DEF Types
<1>3. /\ Len(sccs) \in Nat /\ DOMAIN sccs = 1 .. Len(sccs)
      /\ \A a \in DOMAIN sccs : sccs[a] \in SUBSET Rules /\ sccs[a] \subseteq Assigned
      /\ Assigned \in SUBSET Rules
      /\ \A x \in Assigned : \E a \in DOMAIN sccs : x \in sccs[a]
    BY <1>2, ComponentsAreSets
<1> DEFINE n == Len(sccs)
<1>4. \A a \in DOMAIN sccs : a < n => Whole(a) /\ a < n /\ n \in DOMAIN sccs
    BY <1>1, <1>3 DEF Assigning
<1>5. \A a \in DOMAIN sccs : a # n => a < n
    BY <1>3
<1>6. n \in DOMAIN sccs => sccs # << >> /\ Last(sccs) = sccs[n]
    BY <1>2, <1>3 DEF Last
<1> HIDE DEF n
<1>7. ASSUME n \in DOMAIN sccs PROVE Whole(n)
    <2> SUFFICES ASSUME NEW m \in sccs[n], NEW y \in Rules, Mutual(y, m)
                 PROVE  y \in sccs[n]
        BY DEF Whole
    <2>1. m \in Rules /\ m \in Assigned /\ <<y, m>> \in Paths /\ <<m, y>> \in Paths
        BY <1>3, <1>7 DEF Mutual
    <2>2. CASE y \in Assigned
        <3>1. PICK b \in DOMAIN sccs : y \in sccs[b]
            BY <1>3, <2>2
        <3>2. ASSUME b # n PROVE FALSE
            <4>1. Whole(b) /\ b < n
                BY <1>4, <1>5, <3>2
            <4>2. m \in sccs[b]
                BY <2>1, <3>1, <4>1 DEF Whole, Mutual
            <4>3. <<m, m>> \notin Paths
                BY <1>1, <1>7, <4>1, <4>2 DEF Assigning
            <4> QED
                BY <2>1, <4>3, PathsAreReflexive
        <3> QED
            BY <3>1, <3>2
    <2>3. CASE y \notin Assigned
        <3>1. PICK u \in Rules \ Assigned, v \in Assigned :
                 v \in DependsOn(u) /\ <<y, u>> \in Paths /\ <<v, m>> \in Paths
            BY <1>3, <2>1, <2>3, CrossingEdge
        <3>2. PICK c \in DOMAIN sccs : v \in sccs[c]
            BY <1>3, <3>1
        <3>3. v \in Rules /\ <<u, v>> \in Paths
            BY <3>1, EdgesArePaths
        <3>4. <<v, y>> \in Paths
            BY <2>1, <3>1, <3>3, PathsAreTransitive
        <3>5. <<v, u>> \in Paths
            BY <3>1, <3>3, <3>4, PathsAreTransitive
        <3>6. CASE c = n
            <4>1. u \in Growing
                BY <1>6, <1>7, <3>1, <3>2, <3>6 DEF Growing, Neighbours
            <4> QED
                BY <4>1
        <3>7. CASE c # n
            <4>1. Whole(c)
                BY <1>4, <1>5, <3>7
            <4>2. u \in sccs[c]
                BY <3>1, <3>2, <3>3, <3>5, <4>1 DEF Whole, Mutual
            <4> QED
                BY <1>3, <3>1, <4>2
        <3> QED
            BY <3>6, <3>7
    <2> QED
        BY <2>2, <2>3
<1> QED
    BY <1>4, <1>5, <1>7

\* A rule that starts a component leads to none of the others, and what leads
\* to it and is in none is on a cycle with it: of the rules that are left, it
\* ended last.
LEMMA StartKeeps ==
    ASSUME StratificationInv, Start
    PROVE  StratificationInv'
<1> DEFINE h == Head(order)
           n == Len(sccs)
<1>1. /\ phase = "assigning" /\ phase' = "assigning" /\ Growing = {} /\ order # << >>
      /\ order' = Tail(order)
      /\ sccs' = IF h \in Assigned THEN sccs ELSE Append(sccs, {h})
      /\ UNCHANGED <<program, visited, stack, waiting, merged, strata>>
    BY DEF Start
<1>2. Types /\ Assigning /\ OrderIsRight /\ merged = {} /\ strata = << >> /\ ToSet(stack) = {}
    BY <1>1 DEF StratificationInv
<1>3. sccs \in Seq(SUBSET Rules) /\ order \in Seq(Rules)
    BY <1>2 DEF Types
<1>4. /\ n \in Nat /\ DOMAIN sccs = 1 .. n
      /\ \A a \in DOMAIN sccs : sccs[a] \in SUBSET Rules /\ sccs[a] \subseteq Assigned
      /\ Assigned \in SUBSET Rules
      /\ \A x \in Assigned : \E a \in DOMAIN sccs : x \in sccs[a]
    BY <1>3, ComponentsAreSets
<1>5. /\ order' \in Seq(Rules)
      /\ Len(order) \in Nat \ {0} /\ DOMAIN order = 1 .. Len(order)
      /\ h = order[1] /\ h \in Rules
      /\ DOMAIN order' = 1 .. Len(order) - 1
      /\ \A i \in 1 .. Len(order) - 1 : order'[i] = order[i + 1]
      /\ ToSet(order) = {h} \cup ToSet(order')
    BY <1>1, <1>3, Pop
<1>6. \A a \in DOMAIN sccs : Whole(a)
    BY <1>1, AllAreWhole
<1> HIDE DEF h, n
<1>7. /\ Paths' = Paths
      /\ \A x, y : Mutual(x, y)' <=> Mutual(x, y)
    BY <1>1, SamePaths
<1>8. OrderIsRight'
    <2>1. ASSUME NEW i \in DOMAIN order', NEW j \in DOMAIN order', order'[i] = order'[j]
          PROVE  i = j
        <3>1. i + 1 \in DOMAIN order /\ j + 1 \in DOMAIN order /\ order[i + 1] = order[j + 1]
            BY <1>5, <2>1
        <3>2. i + 1 = j + 1
            BY <1>2, <3>1 DEF OrderIsRight
        <3> QED
            BY <1>5, <3>2
    <2>2. ASSUME NEW i \in DOMAIN order', NEW y \in Rules,
                 <<y, order'[i]>> \in Paths, <<order'[i], y>> \notin Paths
          PROVE  \E z \in Rules : /\ Mutual(z, y)
                                  /\ \A j \in DOMAIN order' : order'[j] = z => j < i
        <3>1. i + 1 \in DOMAIN order /\ order'[i] = order[i + 1]
            BY <1>5
        <3>2. PICK z \in Rules : /\ Mutual(z, y)
                                 /\ \A j \in DOMAIN order : order[j] = z => j < i + 1
            BY <1>2, <2>2, <3>1 DEF OrderIsRight
        <3>3. ASSUME NEW j \in DOMAIN order', order'[j] = z
              PROVE  j < i
            <4>1. j + 1 \in DOMAIN order /\ order[j + 1] = z
                BY <1>5, <3>3
            <4>2. j + 1 < i + 1
                BY <3>2, <4>1
            <4> QED
                BY <1>5, <4>2
        <3> QED
            BY <3>2, <3>3
    <2> QED
        BY <1>7, <2>1, <2>2 DEF OrderIsRight
<1>9. CASE h \in Assigned
    <2>1. sccs' = sccs /\ Assigned' = Assigned
        BY <1>1, <1>9 DEF Assigned
    <2>2. Rules \ ToSet(order') \subseteq Assigned'
        BY <1>2, <1>5, <1>9, <2>1 DEF Assigning
    <2>3. LeadsBackToAll'
        BY <1>2, <1>7, <2>1 DEF Assigning, LeadsBackToAll
    <2>4. \A a \in DOMAIN sccs : Whole(a)'
        BY <1>6, <1>7, <2>1 DEF Whole
    <2>5. Assigning'
        BY <1>2, <1>7, <2>1, <2>2, <2>3, <2>4 DEF Assigning
    <2>6. Types'
        BY <1>1, <1>2, <1>5, <2>1 DEF Types
    <2> QED
        BY <1>1, <1>2, <1>8, <2>5, <2>6 DEF StratificationInv
<1>10. CASE h \notin Assigned
    <2>1. /\ sccs' \in Seq(SUBSET Rules) /\ DOMAIN sccs' = 1 .. n + 1
          /\ sccs'[n + 1] = {h} /\ \A a \in DOMAIN sccs : sccs'[a] = sccs[a]
        BY <1>1, <1>3, <1>4, <1>5, <1>10 DEF n
    <2>2. Assigned' = Assigned \cup {h}
        <3>1. Assigned' \subseteq Assigned \cup {h}
            BY <1>4, <2>1 DEF Assigned, ToSet
        <3>2. h \in Assigned'
            BY <1>4, <2>1 DEF Assigned, ToSet
        <3>3. \A a \in DOMAIN sccs : sccs[a] \subseteq Assigned'
            BY <1>4, <2>1 DEF Assigned, ToSet
        <3> QED
            BY <1>4, <3>1, <3>2, <3>3
    <2>3. \A a \in DOMAIN sccs' : a \in DOMAIN sccs \/ a = n + 1
        BY <1>4, <2>1
    <2>4. \A a, b \in DOMAIN sccs' : a < b => a \in DOMAIN sccs
        BY <1>4, <2>1
    <2>5. Rules \ ToSet(order') \subseteq Assigned'
        BY <1>2, <1>5, <2>2 DEF Assigning
    <2>6. \A a \in DOMAIN sccs' : \A x, y \in sccs'[a] : <<x, y>> \in Paths'
        BY <1>2, <1>5, <1>7, <2>1, <2>3, PathsAreReflexive DEF Assigning
    <2>7. \A a, b \in DOMAIN sccs' : a < b => Whole(a)'
        BY <1>6, <1>7, <2>1, <2>4 DEF Whole
    <2>8. \A a, b \in DOMAIN sccs' : a < b =>
             \A m \in sccs'[a], y \in sccs'[b] : <<y, m>> \notin Paths'
        <3> SUFFICES ASSUME NEW a \in DOMAIN sccs', NEW b \in DOMAIN sccs', a < b,
                            NEW m \in sccs'[a], NEW y \in sccs'[b], <<y, m>> \in Paths
                     PROVE  FALSE
            BY <1>7
        <3>1. a \in DOMAIN sccs /\ m \in sccs[a] /\ m \in Rules
            BY <1>4, <2>1, <2>4
        <3>2. CASE b \in DOMAIN sccs
            BY <1>2, <2>1, <3>1, <3>2 DEF Assigning
        <3>3. CASE b = n + 1
            <4>1. y = h /\ h \in Rules
                BY <1>5, <2>1, <3>3
            <4>2. Mutual(h, m)
                BY <1>2, <1>10, <3>1, <4>1 DEF Assigning, LeadsBackToAll, Mutual
            <4>3. h \in sccs[a]
                BY <1>6, <3>1, <4>1, <4>2 DEF Whole
            <4> QED
                BY <1>4, <1>10, <3>1, <4>3
        <3> QED
            BY <2>3, <3>2, <3>3
    <2>9. LeadsBackToAll'
        <3> SUFFICES ASSUME NEW a \in DOMAIN sccs', NEW m \in sccs'[a], NEW y \in Rules \ Assigned',
                            <<y, m>> \in Paths, <<m, y>> \notin Paths
                     PROVE  FALSE
            BY <1>7 DEF LeadsBackToAll
        <3>1. y \in Rules \ Assigned
            BY <2>2
        <3>2. CASE a \in DOMAIN sccs
            BY <1>2, <2>1, <3>1, <3>2 DEF Assigning, LeadsBackToAll
        <3>3. CASE a = n + 1
            <4>1. m = order[1] /\ 1 \in DOMAIN order
                BY <1>5, <2>1, <3>3
            <4>2. PICK z \in Rules : /\ Mutual(z, y)
                                     /\ \A j \in DOMAIN order : order[j] = z => j < 1
                BY <1>2, <3>1, <4>1 DEF OrderIsRight
            <4>3. z \notin ToSet(order)
                BY <1>5, <4>2 DEF ToSet
            <4>4. PICK b \in DOMAIN sccs : z \in sccs[b]
                BY <1>2, <1>4, <4>3 DEF Assigning
            <4>5. y \in sccs[b]
                BY <1>6, <3>1, <4>2, <4>4 DEF Whole, Mutual
            <4> QED
                BY <1>4, <3>1, <4>5
        <3> QED
            BY <2>3, <3>2, <3>3
    <2>10. Assigning'
        BY <2>5, <2>6, <2>7, <2>8, <2>9 DEF Assigning
    <2>11. Types'
        BY <1>1, <1>2, <1>5, <2>1 DEF Types
    <2> QED
        BY <1>1, <1>2, <1>8, <2>10, <2>11 DEF StratificationInv
<1> QED
    BY <1>9, <1>10

\* When nothing is left to start from, the components are the strongly
\* connected ones; reversed, they have what they depend on before them.
LEMMA ComponentsKeeps ==
    ASSUME StratificationInv, Components
    PROVE  StratificationInv'
<1> DEFINE n == Len(sccs)
<1>1. /\ phase = "assigning" /\ Growing = {} /\ order = << >>
      /\ sccs' = Reverse(sccs)
      /\ phase' = IF \E scc \in ToSet(sccs) : NegatesItself(scc) THEN "refused" ELSE "merging"
      /\ waiting' = [i \in DOMAIN sccs |-> WaitsFor(sccs'[i])]
      /\ UNCHANGED <<program, visited, stack, order, merged, strata>>
    BY DEF Components
<1>2. Types /\ Assigning /\ merged = {} /\ strata = << >>
    BY <1>1 DEF StratificationInv
<1>3. sccs \in Seq(SUBSET Rules)
    BY <1>2 DEF Types
<1>4. /\ n \in Nat /\ DOMAIN sccs = 1 .. n
      /\ \A a \in DOMAIN sccs : sccs[a] \in SUBSET Rules /\ sccs[a] \subseteq Assigned
      /\ Assigned \in SUBSET Rules
      /\ \A x \in Assigned : \E a \in DOMAIN sccs : x \in sccs[a]
    BY <1>3, ComponentsAreSets
<1>5. \A a \in DOMAIN sccs : Whole(a)
    BY <1>1, AllAreWhole
<1> HIDE DEF n
<1>6. Assigned = Rules
    <2>1. ToSet(order) = {}
        BY <1>1 DEF ToSet
    <2> QED
        BY <1>2, <1>4, <2>1 DEF Assigning
<1>7. /\ Paths' = Paths
      /\ \A x : DependsOn(x)' = DependsOn(x) /\ Negates(x)' = Negates(x)
      /\ \A x, y : Mutual(x, y)' <=> Mutual(x, y)
    BY <1>1, SamePaths
<1>8. /\ DOMAIN sccs' = 1 .. n
      /\ \A a \in 1 .. n : n - a + 1 \in 1 .. n /\ sccs'[a] = sccs[n - a + 1]
    BY <1>1, <1>4 DEF Reverse, n
<1>9. \A a \in 1 .. n : n - (n - a + 1) + 1 = a
    BY <1>4
<1>10. \A a \in DOMAIN sccs : n - a + 1 \in 1 .. n /\ sccs'[n - a + 1] = sccs[a]
    BY <1>4, <1>8, <1>9
<1>11. sccs' \in Seq(SUBSET Rules)
    BY <1>1, <1>3, <1>4, <1>8 DEF Reverse, n
<1>12. ToSet(sccs') = ToSet(sccs)
    BY <1>4, <1>8, <1>10 DEF ToSet
<1>13. \A S : WaitsFor(S)' = WaitsFor(S)
    BY <1>7 DEF WaitsFor
<1>16. phase' \in {"merging", "refused"}
    BY <1>1
<1>17. Types'
    <2>1. \A S \in SUBSET Rules : WaitsFor(S) \in SUBSET Rules
        BY DEF WaitsFor, DependsOn
    <2>2. \A i \in 1 .. n : sccs'[i] \in SUBSET Rules
        BY <1>4, <1>8
    <2>3. waiting' \in [1 .. n -> SUBSET Rules]
        BY <1>1, <1>4, <2>1, <2>2
    <2>4. waiting' \in Seq(SUBSET Rules)
        BY <1>4, <2>3
    <2>5. phase' \in Phases
        BY <1>16 DEF Phases
    <2>6. merged' \subseteq DOMAIN sccs'
        BY <1>1, <1>2
    <2> QED
        BY <1>1, <1>2, <1>11, <2>4, <2>5, <2>6 DEF Types
<1>18. ComponentsAreRight'
    <2>1. Assigned' = Rules
        BY <1>6, <1>12 DEF Assigned
    <2>2. \A a \in DOMAIN sccs' : \A x \in sccs'[a], y \in Rules : y \in sccs'[a] <=> Mutual(x, y)
        <3> SUFFICES ASSUME NEW a \in DOMAIN sccs, NEW x \in sccs[a], NEW y \in Rules
                     PROVE  y \in sccs[a] <=> Mutual(x, y)
            BY <1>4, <1>8
        <3> QED
            BY <1>2, <1>5 DEF Assigning, Whole, Mutual
    <2>3. \A a, b \in DOMAIN sccs' : a < b =>
             \A m \in sccs'[a], y \in sccs'[b] : <<m, y>> \notin Paths
        <3> SUFFICES ASSUME NEW a \in 1 .. n, NEW b \in 1 .. n, a < b,
                            NEW m \in sccs'[a], NEW y \in sccs'[b]
                     PROVE  <<m, y>> \notin Paths
            BY <1>8
        <3>1. n - b + 1 < n - a + 1
            BY <1>4
        <3>2. n - b + 1 \in DOMAIN sccs /\ n - a + 1 \in DOMAIN sccs
            BY <1>4, <1>8
        <3>3. m \in sccs[n - a + 1] /\ y \in sccs[n - b + 1]
            BY <1>8
        <3> QED
            BY <1>2, <3>1, <3>2, <3>3 DEF Assigning
    <2>4. (\E a \in DOMAIN sccs : NegatesItself(sccs[a]))' <=> phase' = "refused"
        <3>1. (\E a \in DOMAIN sccs' : NegatesItself(sccs'[a])) <=>
                 \E scc \in ToSet(sccs) : NegatesItself(scc)
            BY <1>12 DEF ToSet
        <3>2. (\E a \in DOMAIN sccs : NegatesItself(sccs[a]))' <=>
                 \E a \in DOMAIN sccs' : NegatesItself(sccs'[a])
            BY <1>1 DEF NegatesItself, Recursive, Negates, DependsOn
        <3> QED
            BY <1>1, <3>1, <3>2
    <2> QED
        BY <1>7, <2>1, <2>2, <2>3, <2>4 DEF ComponentsAreRight
<1>19. LaidOut' = {}
    BY <1>1, <1>2 DEF LaidOut
<1>20. DOMAIN waiting' = DOMAIN sccs' /\ Waiting'
    BY <1>1, <1>4, <1>8, <1>13, <1>19 DEF Waiting
<1>21. InStrata'
    BY <1>1, <1>2, <1>19 DEF InStrata
<1> QED
    BY <1>16, <1>17, <1>18, <1>20, <1>21 DEF StratificationInv
-----------------------------------------------------------------------------
(* The rounds *)

LessThan == {pair \in Nat \X Nat : pair[1] < pair[2]}

LEMMA LeastIs ==
    ASSUME NEW S \in SUBSET Nat, S # {}
    PROVE  \E m \in S : \A k \in S : m <= k
<1>1. LessThan = OpToRel(<, Nat)
    BY DEF LessThan, OpToRel
<1>2. IsWellFoundedOn(LessThan, Nat)
    BY <1>1, NatLessThanWellFounded
<1>3. PICK m \in S : \A k \in S : ~ (<<k, m>> \in LessThan)
    BY <1>2, WFMin
<1>4. \A k \in S : m \in Nat /\ k \in Nat /\ ~ (k < m)
    BY <1>3 DEF LessThan
<1> QED
    BY <1>4

IsAscending(seq, S) == /\ seq \in [1 .. Cardinality(S) -> S]
                       /\ ToSet(seq) = S
                       /\ \A j, k \in DOMAIN seq : j < k => seq[j] < seq[k]

\* A set without its least member, in ascending order, makes one with it.
LEMMA AscendingBefore ==
    ASSUME NEW S \in SUBSET Nat, IsFiniteSet(S), NEW m \in S, \A k \in S : m <= k,
           NEW rest, IsAscending(rest, S \ {m})
    PROVE  \E seq : IsAscending(seq, S)
<1> DEFINE n == Cardinality(S \ {m})
           seq == [i \in 1 .. n + 1 |-> IF i = 1 THEN m ELSE rest[i - 1]]
<1>1. n \in Nat /\ Cardinality(S) = n + 1
    <2>1. IsFiniteSet(S \ {m}) /\ Cardinality(S) \in Nat /\ Cardinality(S \ {m}) = Cardinality(S) - 1
        BY FS_RemoveElement, FS_CardinalityType
    <2>2. Cardinality(S \ {m}) \in Nat
        BY <2>1, FS_CardinalityType
    <2> QED
        BY <2>1, <2>2
<1>2. rest \in [1 .. n -> S \ {m}] /\ ToSet(rest) = S \ {m}
      /\ \A j, k \in 1 .. n : j < k => rest[j] < rest[k]
    BY DEF IsAscending
<1> HIDE DEF n
<1>3. \A i \in 2 .. n + 1 : i - 1 \in 1 .. n /\ rest[i - 1] \in S \ {m}
    BY <1>1, <1>2
<1>4. seq \in [1 .. n + 1 -> S]
    BY <1>1, <1>3
<1>5. seq[1] = m /\ \A i \in 1 .. n : seq[i + 1] = rest[i]
    BY <1>1
<1>6. ToSet(seq) = S
    <2>1. ToSet(seq) \subseteq S
        BY <1>4 DEF ToSet
    <2>2. m \in ToSet(seq)
        BY <1>1, <1>4, <1>5 DEF ToSet
    <2>3. S \ {m} \subseteq ToSet(seq)
        <3> SUFFICES ASSUME NEW i \in 1 .. n PROVE rest[i] \in ToSet(seq)
            BY <1>2 DEF ToSet
        <3>1. i + 1 \in DOMAIN seq /\ seq[i + 1] = rest[i]
            BY <1>1, <1>4, <1>5
        <3> QED
            BY <3>1 DEF ToSet
    <2> QED
        BY <2>1, <2>2, <2>3
<1>7. ASSUME NEW j \in 1 .. n + 1, NEW k \in 1 .. n + 1, j < k
      PROVE  seq[j] < seq[k]
    <2>1. k - 1 \in 1 .. n /\ seq[k] = rest[k - 1] /\ rest[k - 1] \in S \ {m}
        BY <1>1, <1>3, <1>7
    <2>2. CASE j = 1
        <3>1. m \in Nat /\ rest[k - 1] \in Nat /\ m <= rest[k - 1] /\ rest[k - 1] # m
            BY <2>1
        <3> QED
            BY <1>5, <2>1, <2>2, <3>1
    <2>3. CASE j # 1
        <3>1. j - 1 \in 1 .. n /\ seq[j] = rest[j - 1] /\ j - 1 < k - 1
            BY <1>1, <1>7, <2>3
        <3> QED
            BY <1>2, <2>1, <3>1
    <2> QED
        BY <2>2, <2>3
<1>8. IsAscending(seq, S)
    BY <1>1, <1>4, <1>6, <1>7 DEF IsAscending
<1> QED
    BY <1>8

\* Every finite set of indices has an ascending order: otherwise there is a
\* least size of one that has none.
LEMMA AscendingExists ==
    ASSUME NEW T \in SUBSET Nat, IsFiniteSet(T)
    PROVE  \E seq : IsAscending(seq, T)
<1> DEFINE Without == {S \in SUBSET Nat : IsFiniteSet(S) /\ ~ \E seq : IsAscending(seq, S)}
           Sizes == {k \in Nat : \E S \in Without : Cardinality(S) = k}
<1> SUFFICES ASSUME T \in Without PROVE FALSE
    OBVIOUS
<1>1. Sizes # {} /\ Sizes \in SUBSET Nat
    BY FS_CardinalityType
<1>2. PICK k \in Sizes : \A j \in Sizes : k <= j
    <2> HIDE DEF Sizes
    <2> QED
        BY <1>1, LeastIs
<1>3. PICK S \in Without : Cardinality(S) = k
    OBVIOUS
<1>4. S \in SUBSET Nat /\ IsFiniteSet(S) /\ k \in Nat /\ ~ \E seq : IsAscending(seq, S)
    OBVIOUS
<1> HIDE DEF Without, Sizes
<1>5. CASE S = {}
    <2>1. Cardinality(S) = 0
        BY <1>5, FS_EmptySet
    <2>2. IsAscending(<< >>, S)
        BY <1>5, <2>1 DEF IsAscending, ToSet
    <2> QED
        BY <1>4, <2>2
<1>6. CASE S # {}
    <2>1. PICK m \in S : \A i \in S : m <= i
        BY <1>4, <1>6, LeastIs
    <2>2. IsFiniteSet(S \ {m}) /\ Cardinality(S \ {m}) = k - 1 /\ Cardinality(S \ {m}) \in Nat
        BY <1>3, <1>4, FS_RemoveElement, FS_CardinalityType
    <2>3. k - 1 \notin Sizes
        BY <1>2, <1>4
    <2>4. S \ {m} \notin Without
        BY <2>2, <2>3 DEF Sizes
    <2>5. PICK rest : IsAscending(rest, S \ {m})
        BY <1>4, <2>2, <2>4 DEF Without
    <2>6. \E seq : IsAscending(seq, S)
        BY <1>4, <2>1, <2>5, AscendingBefore
    <2> QED
        BY <1>4, <2>6
<1> QED
    BY <1>5, <1>6

LEMMA AscendingIs ==
    ASSUME NEW S \in SUBSET Nat, IsFiniteSet(S)
    PROVE  IsAscending(Ascending(S), S)
<1>1. \E seq : IsAscending(seq, S)
    BY AscendingExists
<1>2. \E seq \in [1 .. Cardinality(S) -> S] :
         /\ ToSet(seq) = S
         /\ \A j, k \in DOMAIN seq : j < k => seq[j] < seq[k]
    BY <1>1 DEF IsAscending
<1>3. /\ Ascending(S) \in [1 .. Cardinality(S) -> S]
      /\ ToSet(Ascending(S)) = S
      /\ \A j, k \in DOMAIN Ascending(S) : j < k => Ascending(S)[j] < Ascending(S)[k]
    BY <1>2 DEF Ascending
<1> QED
    BY <1>3 DEF IsAscending

\* A component is recursive exactly when its rules lead to themselves.
LEMMA RecursiveIs ==
    ASSUME NEW S \in SUBSET Rules, NEW r \in S, \A x \in S, y \in Rules : y \in S <=> Mutual(x, y)
    PROVE  Recursive(S) <=> r \in Reached[r]
<1>1. IsFiniteSet(S) /\ Cardinality(S) \in Nat
    BY StratificationAssumption, FS_Subset, FS_CardinalityType
<1>2. ASSUME NEW d \in S, d # r
      PROVE  Cardinality(S) > 1
    <2>1. Cardinality(S) # 0
        BY <1>1, <1>2, FS_EmptySet
    <2>2. Cardinality(S) # 1
        BY <1>1, <1>2, FS_Singleton
    <2> QED
        BY <1>1, <2>1, <2>2
<1>3. ASSUME r \in Reached[r]
      PROVE  Recursive(S)
    <2>1. PICK d \in DependsOn(r) : <<d, r>> \in Paths
        BY <1>3, FirstStep
    <2>2. d \in Rules /\ <<r, d>> \in Paths
        BY EdgesArePaths
    <2>3. d \in S
        BY <2>1, <2>2 DEF Mutual
    <2> QED
        BY <1>2, <2>1, <2>3 DEF Recursive
<1>4. ASSUME NEW t \in S, t # r
      PROVE  r \in Reached[r]
    <2>1. t \in Rules /\ r \in Rules /\ <<r, t>> \in Paths /\ <<t, r>> \in Paths
        BY DEF Mutual
    <2>2. t \in Reached[r] /\ r \in Reached[t]
        BY <1>4, <2>1, PathsAre
    <2> QED
        BY <2>1, <2>2, ReachedIsTransitive
<1>5. ASSUME Recursive(S)
      PROVE  r \in Reached[r]
    <2>1. CASE Cardinality(S) > 1
        <3>1. S # {r}
            BY <2>1, FS_Singleton
        <3>2. \E t \in S : t # r
            BY <3>1
        <3> QED
            BY <1>4, <3>2
    <2>2. CASE \E t \in S : t \in DependsOn(t)
        <3>1. PICK t \in S : t \in DependsOn(t)
            BY <2>2
        <3>2. t = r => r \in Reached[r]
            BY <3>1, EdgesArePaths
        <3> QED
            BY <1>4, <3>2
    <2> QED
        BY <1>5, <2>1, <2>2 DEF Recursive
<1> QED
    BY <1>3, <1>5

LEMMA WaitsForTheRest ==
    ASSUME NEW S, NEW r \in S, NEW s \in DependsOn(r)
    PROVE  s \in S \/ s \in WaitsFor(S)
<1>1. s \in UNION {DependsOn(x) : x \in S}
    OBVIOUS
<1>2. WaitsFor(S) = (UNION {DependsOn(x) : x \in S}) \ S
    BY Zenon DEF WaitsFor
<1> QED
    BY <1>1, <1>2

\* What the rounds need of the components: they do not overlap, one that is
\* not laid out has none of its rules laid out, and ready ones wait for none.
LEMMA ComponentsAreDisjoint ==
    ASSUME StratificationInv, phase = "merging"
    PROVE  /\ \A a, b \in DOMAIN sccs : sccs[a] \cap sccs[b] # {} => a = b
           /\ \A a \in Unmerged : sccs[a] \cap LaidOut = {}
           /\ \A a \in Ready : WaitsFor(sccs[a]) \subseteq LaidOut
<1>1. Types /\ ComponentsAreRight /\ Waiting
    BY DEF StratificationInv
<1>2. /\ Len(sccs) \in Nat /\ DOMAIN sccs = 1 .. Len(sccs)
      /\ \A a \in DOMAIN sccs : sccs[a] \in SUBSET Rules
    BY <1>1, ComponentsAreSets DEF Types
<1>3. ASSUME NEW a \in DOMAIN sccs, NEW b \in DOMAIN sccs, a < b, NEW x \in sccs[a] \cap sccs[b]
      PROVE  FALSE
    <2>1. <<x, x>> \notin Paths
        BY <1>1, <1>3 DEF ComponentsAreRight
    <2> QED
        BY <1>2, <2>1, PathsAreReflexive
<1>4. \A a, b \in DOMAIN sccs : a = b \/ a < b \/ b < a
    BY <1>2
<1>5. \A a, b \in DOMAIN sccs : sccs[a] \cap sccs[b] # {} => a = b
    BY <1>3, <1>4
<1>6. \A a \in Unmerged : sccs[a] \cap LaidOut = {}
    BY <1>1, <1>5 DEF Unmerged, LaidOut, Types
<1>7. \A a \in Ready : WaitsFor(sccs[a]) \subseteq LaidOut
    BY <1>1 DEF Ready, Unmerged, Waiting
<1> QED
    BY <1>5, <1>6, <1>7

\* A round appends the batch and the recursive components that are ready, each
\* a stratum; what they wait for is in earlier ones.
LEMMA MergeRoundKeeps ==
    ASSUME StratificationInv, MergeRound
    PROVE  StratificationInv'
<1> DEFINE Again == {i \in Ready : Recursive(sccs[i])}
           recursive == Ascending(Again)
           batch == UNION {sccs[i] : i \in {j \in Ready : ~ Recursive(sccs[j])}}
           laidOut == UNION {sccs[i] : i \in Ready}
           first == IF batch = {} THEN << >> ELSE <<[rules |-> batch, recursive |-> FALSE]>>
           rest == [k \in DOMAIN recursive |-> [rules |-> sccs[recursive[k]], recursive |-> TRUE]]
           n == Len(sccs)
           q == Len(recursive)
           old == Len(strata)
           p == Len(strata) + Len(first)
           Strata == [rules : SUBSET Rules, recursive : BOOLEAN]
<1>1. /\ phase = "merging" /\ phase' = "merging"
      /\ merged' = merged \cup Ready
      /\ waiting' = [i \in DOMAIN sccs |-> waiting[i] \ laidOut]
      /\ strata' = strata \o first \o rest
      /\ UNCHANGED <<program, visited, stack, order, sccs>>
    BY DEF MergeRound
<1>2. Types /\ ComponentsAreRight /\ DOMAIN waiting = DOMAIN sccs /\ Waiting /\ InStrata
    BY <1>1 DEF StratificationInv
<1>3. /\ n \in Nat /\ DOMAIN sccs = 1 .. n
      /\ \A a \in DOMAIN sccs : sccs[a] \in SUBSET Rules
      /\ \A a, b \in DOMAIN sccs : sccs[a] \cap sccs[b] # {} => a = b
      /\ \A a \in Unmerged : sccs[a] \cap LaidOut = {}
      /\ \A a \in Ready : a \in Unmerged /\ a \in DOMAIN sccs /\ WaitsFor(sccs[a]) \subseteq LaidOut
    BY <1>1, <1>2, ComponentsAreSets, ComponentsAreDisjoint DEF Types, Ready, Unmerged
<1>4. /\ Paths' = Paths /\ Reached' = Reached
      /\ \A x : DependsOn(x)' = DependsOn(x) /\ Negates(x)' = Negates(x)
      /\ \A x, y : Mutual(x, y)' <=> Mutual(x, y)
    BY <1>1, SamePaths
<1>5. \A a \in DOMAIN sccs : \A r \in sccs[a] : Recursive(sccs[a]) <=> r \in Reached[r]
    <2> SUFFICES ASSUME NEW a \in DOMAIN sccs, NEW r \in sccs[a]
                 PROVE  Recursive(sccs[a]) <=> r \in Reached[r]
        OBVIOUS
    <2>1. \A x \in sccs[a], y \in Rules : y \in sccs[a] <=> Mutual(x, y)
        BY <1>2 DEF ComponentsAreRight
    <2> QED
        BY <1>3, <2>1, RecursiveIs
<1>6. IsAscending(recursive, Again)
    <2>1. Again \in SUBSET (1 .. n) /\ IsFiniteSet(1 .. n)
        BY <1>3, FS_Interval
    <2>2. Again \in SUBSET Nat /\ IsFiniteSet(Again)
        BY <2>1, FS_Subset
    <2> HIDE DEF Again
    <2> QED
        BY <2>2, AscendingIs
<1>7. Cardinality(Again) \in Nat
    <2>1. Again \in SUBSET (1 .. n) /\ IsFiniteSet(1 .. n)
        BY <1>3, FS_Interval
    <2> QED
        BY <2>1, FS_Subset, FS_CardinalityType
<1> HIDE DEF recursive
<1>8. /\ q \in Nat /\ DOMAIN recursive = 1 .. q
      /\ \A k \in 1 .. q : recursive[k] \in Again
      /\ \A i \in Again : \E k \in 1 .. q : recursive[k] = i
      /\ \A j, k \in 1 .. q : j < k => recursive[j] < recursive[k]
    <2> HIDE DEF Again
    <2>1. DOMAIN recursive = 1 .. Cardinality(Again) /\ q = Cardinality(Again)
        BY <1>6, <1>7 DEF IsAscending
    <2> HIDE DEF q
    <2> QED
        BY <1>6, <1>7, <2>1 DEF IsAscending, ToSet
<1>9. batch \in SUBSET Rules
    BY <1>3
<1> HIDE DEF q, n
<1>10. first \in Seq(Strata) /\ Len(first) \in {0, 1}
       /\ (Len(first) = 1 <=> batch # {})
       /\ (batch # {} => first[1].rules = batch /\ first[1].recursive = FALSE)
    <2> HIDE DEF batch
    <2>1. CASE batch = {}
        <3>1. first = << >> /\ Len(<< >>) = 0
            BY <2>1
        <3>2. first \in Seq(Strata)
            BY <3>1
        <3> HIDE DEF first
        <3> QED
            BY <2>1, <3>1, <3>2
    <2>2. CASE batch # {}
        <3>1. first = <<[rules |-> batch, recursive |-> FALSE]>>
            BY <2>2
        <3>2. [rules |-> batch, recursive |-> FALSE] \in Strata
            BY <1>9
        <3> HIDE DEF Strata
        <3>3. first \in Seq(Strata) /\ Len(first) = 1 /\ first[1] = [rules |-> batch, recursive |-> FALSE]
            BY <3>1, <3>2
        <3> HIDE DEF first
        <3> QED
            BY <2>2, <3>3
    <2> QED
        BY <2>1, <2>2
<1>11. rest \in Seq(Strata) /\ Len(rest) = q
       /\ \A k \in 1 .. q : rest[k].rules = sccs[recursive[k]] /\ rest[k].recursive = TRUE
    <2>1. \A k \in 1 .. q : sccs[recursive[k]] \in SUBSET Rules
        BY <1>3, <1>8
    <2>2. rest \in [1 .. q -> Strata]
        BY <1>8, <2>1
    <2>3. rest \in Seq(Strata) /\ Len(rest) = q
        BY <1>8, <2>2
    <2> QED
        BY <1>8, <2>3
<1> HIDE DEF first, rest, batch, Again
<1>12. strata \in Seq(Strata)
    BY <1>2 DEF Types
<1> HIDE DEF Strata
<1>13. /\ old \in Nat /\ p \in Nat /\ DOMAIN strata = 1 .. old
       /\ p \in {old, old + 1} /\ (p = old + 1 <=> batch # {})
    <2>1. Len(strata) \in Nat /\ DOMAIN strata = 1 .. Len(strata)
        BY <1>12
    <2>2. p = old + Len(first) /\ old \in Nat /\ DOMAIN strata = 1 .. old
        BY <2>1
    <2> HIDE DEF p, old
    <2>3. CASE batch = {}
        <3>1. Len(first) = 0
            BY <1>10, <2>3
        <3> QED
            BY <2>2, <2>3, <3>1
    <2>4. CASE batch # {}
        <3>1. Len(first) = 1
            BY <1>10, <2>4
        <3> QED
            BY <2>2, <2>4, <3>1
    <2> QED
        BY <2>3, <2>4
<1>14. /\ strata' \in Seq(Strata)
       /\ DOMAIN strata' = 1 .. p + q
       /\ \A k \in 1 .. old : strata'[k] = strata[k]
       /\ \A k \in old + 1 .. p : strata'[k] = first[1] /\ k = old + 1 /\ batch # {}
       /\ \A k \in p + 1 .. p + q : strata'[k] = rest[k - p] /\ k - p \in 1 .. q
    <2>1. /\ strata \o first \in Seq(Strata) /\ Len(strata \o first) = p
          /\ \A k \in 1 .. p : (strata \o first)[k] = IF k <= old THEN strata[k] ELSE first[k - old]
        BY <1>10, <1>12, <1>13, ConcatProperties
    <2> DEFINE both == strata \o first
    <2>2. /\ both \o rest \in Seq(Strata) /\ Len(both \o rest) = p + q
          /\ \A k \in 1 .. p + q : (both \o rest)[k] = IF k <= p THEN both[k] ELSE rest[k - p]
        BY <1>11, <2>1, ConcatProperties
    <2>3. /\ strata' \in Seq(Strata) /\ Len(strata') = p + q
          /\ \A k \in 1 .. p + q : strata'[k] = IF k <= p THEN both[k] ELSE rest[k - p]
        BY <1>1, <2>2
    <2> HIDE DEF both, p, old
    <2>4. DOMAIN strata' = 1 .. p + q
        BY <1>8, <1>13, <2>3
    <2>5. \A k \in 1 .. old : strata'[k] = strata[k]
        BY <1>8, <1>13, <2>1, <2>3 DEF both
    <2>6. \A k \in old + 1 .. p : strata'[k] = first[1] /\ k = old + 1 /\ batch # {}
        <3> SUFFICES ASSUME NEW k \in old + 1 .. p
                     PROVE  strata'[k] = first[1] /\ k = old + 1 /\ batch # {}
            OBVIOUS
        <3>1. k = old + 1 /\ p = old + 1 /\ k - old = 1
            BY <1>13
        <3>2. strata'[k] = first[1]
            BY <1>8, <1>13, <2>1, <2>3, <3>1 DEF both
        <3>3. batch # {}
            BY <1>13, <3>1
        <3> QED
            BY <3>1, <3>2, <3>3
    <2>7. \A k \in p + 1 .. p + q : strata'[k] = rest[k - p] /\ k - p \in 1 .. q
        BY <1>8, <1>13, <2>3
    <2> QED
        BY <2>3, <2>4, <2>5, <2>6, <2>7
<1> HIDE DEF p, old
<1>15. \A k \in DOMAIN strata' : \A r \in strata'[k].rules :
          \/ k \in DOMAIN strata /\ strata'[k] = strata[k] /\ r \in LaidOut
          \/ \E i \in Ready : /\ r \in sccs[i] /\ ~ Recursive(sccs[i])
                              /\ k = old + 1 /\ p = old + 1 /\ strata'[k].recursive = FALSE
          \/ \E i \in Ready : /\ r \in sccs[i] /\ Recursive(sccs[i])
                              /\ k \in p + 1 .. p + q /\ recursive[k - p] = i
                              /\ strata'[k].rules = sccs[i] /\ strata'[k].recursive = TRUE
    <2> SUFFICES ASSUME NEW k \in DOMAIN strata', NEW r \in strata'[k].rules
                 PROVE  \/ k \in DOMAIN strata /\ strata'[k] = strata[k] /\ r \in LaidOut
                        \/ \E i \in Ready : /\ r \in sccs[i] /\ ~ Recursive(sccs[i])
                                            /\ k = old + 1 /\ p = old + 1
                                            /\ strata'[k].recursive = FALSE
                        \/ \E i \in Ready : /\ r \in sccs[i] /\ Recursive(sccs[i])
                                            /\ k \in p + 1 .. p + q /\ recursive[k - p] = i
                                            /\ strata'[k].rules = sccs[i]
                                            /\ strata'[k].recursive = TRUE
        OBVIOUS
    <2>1. k \in 1 .. old \/ k \in old + 1 .. p \/ k \in p + 1 .. p + q
        BY <1>8, <1>13, <1>14
    <2>2. CASE k \in 1 .. old
        <3>1. strata'[k] = strata[k] /\ k \in DOMAIN strata
            BY <1>13, <1>14, <2>2
        <3>2. strata[k] \in Strata
            BY <1>12, <3>1
        <3>3. r \in Rules
            BY <3>1, <3>2 DEF Strata
        <3>4. r \in LaidOut
            BY <1>2, <3>1, <3>3 DEF InStrata
        <3> QED
            BY <3>1, <3>4
    <2>3. CASE k \in old + 1 .. p
        <3>1. strata'[k] = first[1] /\ k = old + 1 /\ batch # {}
            BY <1>14, <2>3
        <3>2. strata'[k].rules = batch /\ strata'[k].recursive = FALSE /\ p = old + 1
            BY <1>10, <1>13, <3>1
        <3>3. \E i \in Ready : r \in sccs[i] /\ ~ Recursive(sccs[i])
            BY <3>2 DEF batch
        <3> QED
            BY <3>1, <3>2, <3>3
    <2>4. CASE k \in p + 1 .. p + q
        <3>1. strata'[k] = rest[k - p] /\ k - p \in 1 .. q
            BY <1>14, <2>4
        <3>2. strata'[k].rules = sccs[recursive[k - p]] /\ strata'[k].recursive = TRUE
            BY <1>11, <3>1
        <3>3. recursive[k - p] \in Ready /\ Recursive(sccs[recursive[k - p]])
            BY <1>8, <3>1 DEF Again
        <3> QED
            BY <2>4, <3>2, <3>3
    <2> QED
        BY <2>1, <2>2, <2>3, <2>4
<1>16. \A r \in LaidOut : \E j \in 1 .. old : r \in strata'[j].rules
    <2>1. LaidOut \subseteq Rules
        BY <1>2, <1>3 DEF LaidOut, Types
    <2> QED
        BY <1>2, <1>13, <1>14, <2>1 DEF InStrata
<1>17. \A i \in Ready : \A r \in sccs[i] : \E k \in DOMAIN strata' : r \in strata'[k].rules
    <2> SUFFICES ASSUME NEW i \in Ready, NEW r \in sccs[i]
                 PROVE  \E k \in DOMAIN strata' : r \in strata'[k].rules
        OBVIOUS
    <2>1. CASE Recursive(sccs[i])
        <3>1. PICK k \in 1 .. q : recursive[k] = i
            BY <1>8, <2>1 DEF Again
        <3>2. p + k \in p + 1 .. p + q /\ p + k \in DOMAIN strata' /\ (p + k) - p = k
            BY <1>8, <1>13, <1>14
        <3>3. strata'[p + k] = rest[k]
            BY <1>14, <3>2
        <3>4. strata'[p + k].rules = sccs[i]
            BY <1>11, <3>1, <3>3
        <3> QED
            BY <3>2, <3>4
    <2>2. CASE ~ Recursive(sccs[i])
        <3>1. r \in batch
            BY <2>2 DEF batch
        <3>2. old + 1 \in old + 1 .. p /\ old + 1 \in DOMAIN strata'
            BY <1>8, <1>13, <1>14, <3>1
        <3>3. strata'[old + 1].rules = batch
            BY <1>10, <1>14, <3>1, <3>2
        <3> QED
            BY <3>1, <3>2, <3>3
    <2> QED
        BY <2>1, <2>2
<1>18. LaidOut' = LaidOut \cup laidOut
    BY <1>1 DEF LaidOut
<1>19. \A i \in Ready : sccs[i] \cap LaidOut = {}
    BY <1>3
<1>20. InStrata'
    <2>1. \A r \in Rules : r \in LaidOut' <=> \E k \in DOMAIN strata' : r \in strata'[k].rules
        <3>1. \A k \in DOMAIN strata' : \A r \in strata'[k].rules : r \in LaidOut \cup laidOut
            BY <1>15
        <3>2. \A j \in 1 .. old : j \in DOMAIN strata'
            BY <1>8, <1>13, <1>14
        <3>3. \A r \in LaidOut \cup laidOut : \E k \in DOMAIN strata' : r \in strata'[k].rules
            BY <1>16, <1>17, <3>2
        <3> QED
            BY <1>18, <3>1, <3>3
    <2>2. \A j, k \in DOMAIN strata' : \A r \in strata'[j].rules : r \in strata'[k].rules => j = k
        <3> SUFFICES ASSUME NEW j \in DOMAIN strata', NEW k \in DOMAIN strata', NEW r,
                            r \in strata'[j].rules, r \in strata'[k].rules
                     PROVE  j = k
            OBVIOUS
        <3>1. CASE r \in LaidOut
            <4>1. /\ j \in DOMAIN strata /\ strata'[j] = strata[j]
                  /\ k \in DOMAIN strata /\ strata'[k] = strata[k]
                BY <1>15, <1>19, <3>1
            <4>2. r \in strata[j].rules /\ r \in strata[k].rules
                BY <4>1
            <4> QED
                BY <1>2, <4>1, <4>2 DEF InStrata
        <3>2. CASE r \notin LaidOut
            <4>1. PICK i \in Ready :
                     /\ r \in sccs[i]
                     /\ \/ ~ Recursive(sccs[i]) /\ j = old + 1
                        \/ Recursive(sccs[i]) /\ j \in p + 1 .. p + q /\ recursive[j - p] = i
                BY <1>15, <3>2
            <4>2. PICK l \in Ready :
                     /\ r \in sccs[l]
                     /\ \/ ~ Recursive(sccs[l]) /\ k = old + 1
                        \/ Recursive(sccs[l]) /\ k \in p + 1 .. p + q /\ recursive[k - p] = l
                BY <1>15, <3>2
            <4>3. i = l
                BY <1>3, <4>1, <4>2
            <4>4. CASE ~ Recursive(sccs[i])
                BY <4>1, <4>2, <4>3, <4>4
            <4>5. CASE Recursive(sccs[i])
                <5>0. /\ j \in p + 1 .. p + q /\ recursive[j - p] = i
                      /\ k \in p + 1 .. p + q /\ recursive[k - p] = i
                    BY <4>1, <4>2, <4>3, <4>5
                <5>1. /\ j - p \in 1 .. q /\ k - p \in 1 .. q
                      /\ recursive[j - p] = i /\ recursive[k - p] = i
                    <6>1. p \in Nat /\ q \in Nat
                        BY <1>8, <1>13
                    <6> QED
                        BY <5>0, <6>1
                <5>2. i \in Nat
                    BY <1>3
                <5>3. ~ (j - p < k - p) /\ ~ (k - p < j - p)
                    BY <1>8, <5>1, <5>2
                <5>4. j \in Nat /\ k \in Nat
                    BY <1>8, <1>13, <1>14
                <5> QED
                    BY <1>13, <5>1, <5>3, <5>4
            <4> QED
                BY <4>4, <4>5
        <3> QED
            BY <3>1, <3>2
    <2>3. \A k \in DOMAIN strata' : \A r \in strata'[k].rules :
             strata'[k].recursive <=> r \in Reached[r]
        <3> SUFFICES ASSUME NEW k \in DOMAIN strata', NEW r \in strata'[k].rules
                     PROVE  strata'[k].recursive <=> r \in Reached[r]
            OBVIOUS
        <3>1. CASE k \in DOMAIN strata /\ strata'[k] = strata[k]
            <4>1. r \in strata[k].rules
                BY <3>1
            <4> QED
                BY <1>2, <3>1, <4>1 DEF InStrata
        <3>2. CASE \E i \in Ready : r \in sccs[i] /\ (strata'[k].recursive <=> Recursive(sccs[i]))
            BY <1>3, <1>5, <3>2
        <3> QED
            BY <1>15, <3>1, <3>2
    <2>4. \A k \in DOMAIN strata' : \A r \in strata'[k].rules : \A s \in DependsOn(r) :
             \/ \E j \in 1 .. k - 1 : s \in strata'[j].rules
             \/ s \in strata'[k].rules /\ strata'[k].recursive /\ Mutual(r, s)
        <3> SUFFICES ASSUME NEW k \in DOMAIN strata', NEW r \in strata'[k].rules,
                            NEW s \in DependsOn(r)
                     PROVE  \/ \E j \in 1 .. k - 1 : s \in strata'[j].rules
                            \/ s \in strata'[k].rules /\ strata'[k].recursive /\ Mutual(r, s)
            OBVIOUS
        <3>1. CASE k \in DOMAIN strata /\ strata'[k] = strata[k]
            <4>1. \/ \E j \in 1 .. k - 1 : s \in strata[j].rules
                  \/ s \in strata[k].rules /\ strata[k].recursive /\ Mutual(r, s)
                BY <1>2, <3>1 DEF InStrata
            <4>2. \A j \in 1 .. k - 1 : strata'[j] = strata[j]
                BY <1>13, <1>14, <3>1
            <4> QED
                BY <3>1, <4>1, <4>2
        <3>2. ASSUME NEW i \in Ready, r \in sccs[i], k > old,
                     Recursive(sccs[i]) => strata'[k].recursive /\ strata'[k].rules = sccs[i]
              PROVE  \/ \E j \in 1 .. k - 1 : s \in strata'[j].rules
                     \/ s \in strata'[k].rules /\ strata'[k].recursive /\ Mutual(r, s)
            <4>1. s \in sccs[i] \/ s \in LaidOut
                <5>1. s \in sccs[i] \/ s \in WaitsFor(sccs[i])
                    BY <3>2, WaitsForTheRest
                <5> QED
                    BY <1>3, <5>1
            <4>2. CASE s \in LaidOut
                <5>1. PICK j \in 1 .. old : s \in strata'[j].rules
                    BY <1>16, <4>2
                <5>2. j \in 1 .. k - 1
                    BY <1>8, <1>13, <1>14, <3>2
                <5> QED
                    BY <5>1, <5>2
            <4>3. CASE s \in sccs[i]
                <5>1. i \in DOMAIN sccs /\ r \in Rules /\ s \in Rules /\ s \in Reached[r]
                    BY <1>3, <3>2, EdgesArePaths
                <5>2. Mutual(r, s)
                    BY <1>2, <3>2, <4>3, <5>1 DEF ComponentsAreRight
                <5>3. r \in Reached[r]
                    <6>1. s = r \/ r \in Reached[s]
                        BY <5>1, <5>2, PathsAre DEF Mutual
                    <6> QED
                        BY <5>1, <6>1, ReachedIsTransitive
                <5>4. Recursive(sccs[i])
                    BY <1>5, <3>2, <5>1, <5>3
                <5> QED
                    BY <3>2, <4>3, <5>2, <5>4
            <4> QED
                BY <4>1, <4>2, <4>3
        <3>3. k \in p + 1 .. p + q => k > old
            BY <1>8, <1>13
        <3>4. k = old + 1 => k > old
            BY <1>13
        <3> QED
            BY <1>15, <3>1, <3>2, <3>3, <3>4
    <2> QED
        BY <1>4, <2>1, <2>2, <2>3, <2>4 DEF InStrata
<1>21. ComponentsAreRight'
    <2>1. Assigned' = Assigned
        BY <1>1 DEF Assigned
    <2>2. (\E a \in DOMAIN sccs : NegatesItself(sccs[a]))' <=>
             \E a \in DOMAIN sccs : NegatesItself(sccs[a])
        BY <1>1 DEF NegatesItself, Recursive, Negates, DependsOn
    <2> QED
        BY <1>1, <1>2, <1>4, <2>1, <2>2 DEF ComponentsAreRight
<1>22. DOMAIN waiting' = DOMAIN sccs' /\ Waiting'
    <2>1. \A S : WaitsFor(S)' = WaitsFor(S)
        BY <1>4 DEF WaitsFor
    <2> QED
        BY <1>1, <1>2, <1>18, <2>1 DEF Waiting
<1>23. Types'
    <2>1. \A a \in 1 .. n : waiting[a] \ laidOut \in SUBSET Rules
        BY <1>2, <1>3 DEF Types
    <2>2. waiting' \in [1 .. n -> SUBSET Rules]
        BY <1>1, <1>3, <2>1
    <2>3. waiting' \in Seq(SUBSET Rules)
        BY <1>3, <2>2
    <2>4. merged' \subseteq DOMAIN sccs'
        BY <1>1, <1>2, <1>3 DEF Types
    <2> QED
        BY <1>1, <1>2, <1>14, <2>3, <2>4 DEF Types, Strata
<1> QED
    BY <1>1, <1>20, <1>21, <1>22, <1>23 DEF StratificationInv

LEMMA MergedKeeps ==
    ASSUME StratificationInv, Merged
    PROVE  StratificationInv'
<1>1. /\ phase = "merging" /\ phase' = "done" /\ Unmerged = {}
      /\ UNCHANGED <<program, visited, stack, order, sccs, waiting, merged, strata>>
    BY DEF Merged
<1>2. Types /\ ComponentsAreRight /\ DOMAIN waiting = DOMAIN sccs /\ Waiting /\ InStrata
    BY <1>1 DEF StratificationInv
<1>3. /\ Paths' = Paths /\ Reached' = Reached
      /\ \A x : DependsOn(x)' = DependsOn(x)
      /\ \A x, y : Mutual(x, y)' <=> Mutual(x, y)
    BY <1>1, SamePaths
<1>4. Types'
    BY <1>1, <1>2 DEF Types, Phases
<1>5. ComponentsAreRight'
    <2>1. Assigned' = Assigned
        BY <1>1 DEF Assigned
    <2>2. (\E a \in DOMAIN sccs : NegatesItself(sccs[a]))' <=>
             \E a \in DOMAIN sccs : NegatesItself(sccs[a])
        BY <1>1 DEF NegatesItself, Recursive, Negates, DependsOn
    <2> QED
        BY <1>1, <1>2, <1>3, <2>1, <2>2 DEF ComponentsAreRight
<1>6. LaidOut' = LaidOut
    BY <1>1 DEF LaidOut
<1>7. LaidOut = Rules
    <2>1. \A a \in DOMAIN sccs : a \in merged /\ sccs[a] \in SUBSET Rules
        BY <1>1, <1>2, ComponentsAreSets DEF Unmerged, Types
    <2>2. \A x \in Rules : \E a \in DOMAIN sccs : x \in sccs[a]
        BY <1>2, ComponentsAreSets DEF ComponentsAreRight, Types
    <2>3. merged \subseteq DOMAIN sccs
        BY <1>2 DEF Types
    <2> QED
        BY <2>1, <2>2, <2>3 DEF LaidOut
<1>8. Waiting'
    <2>1. \A S : WaitsFor(S)' = WaitsFor(S)
        BY <1>3 DEF WaitsFor
    <2> QED
        BY <1>1, <1>2, <1>6, <2>1 DEF Waiting
<1>9. InStrata'
    BY <1>1, <1>2, <1>3, <1>6 DEF InStrata
<1> QED
    BY <1>1, <1>2, <1>4, <1>5, <1>6, <1>7, <1>8, <1>9 DEF StratificationInv

LEMMA StutterKeeps ==
    ASSUME StratificationInv, UNCHANGED vars
    PROVE  StratificationInv'
<1>1. UNCHANGED <<program, phase, visited, stack, order, sccs, waiting, merged, strata>>
    BY DEF vars
<1>2. /\ Paths' = Paths /\ Reached' = Reached
      /\ \A x : DependsOn(x)' = DependsOn(x)
      /\ \A x, y : Mutual(x, y)' <=> Mutual(x, y)
    BY <1>1, SamePaths
<1>3. Types' <=> Types
    BY <1>1 DEF Types
<1>4. (Ordering' <=> Ordering) /\ (LeadsBack' <=> LeadsBack) /\ (OrderIsRight' <=> OrderIsRight)
    BY <1>1, <1>2 DEF Ordering, LeadsBack, OrderIsRight
<1>5. Assigned' = Assigned /\ LaidOut' = LaidOut
    BY <1>1 DEF Assigned, LaidOut
<1>6. Assigning' <=> Assigning
    BY <1>1, <1>2, <1>5 DEF Assigning, LeadsBackToAll, Whole
<1>7. (\E a \in DOMAIN sccs : NegatesItself(sccs[a]))' <=>
         \E a \in DOMAIN sccs : NegatesItself(sccs[a])
    BY <1>1 DEF NegatesItself, Recursive, Negates, DependsOn
<1>8. ComponentsAreRight' <=> ComponentsAreRight
    BY <1>1, <1>2, <1>5, <1>7 DEF ComponentsAreRight
<1>9. \A S : WaitsFor(S)' = WaitsFor(S)
    BY <1>2 DEF WaitsFor
<1>10. (Waiting' <=> Waiting) /\ (InStrata' <=> InStrata)
    BY <1>1, <1>2, <1>5, <1>9 DEF Waiting, InStrata
<1> QED
    BY <1>1, <1>3, <1>4, <1>5, <1>6, <1>8, <1>10 DEF StratificationInv

LEMMA NextKeeps ==
    ASSUME StratificationInv, [Next]_vars
    PROVE  StratificationInv'
<1>1. CASE \E r \in Rules : Visit(r)
    BY <1>1, VisitKeeps
<1>2. CASE \E r \in Rules : Grow(r)
    BY <1>2, GrowKeeps
<1>3. CASE Finish
    BY <1>3, FinishKeeps
<1>4. CASE Ordered
    BY <1>4, OrderedKeeps
<1>5. CASE Start
    BY <1>5, StartKeeps
<1>6. CASE Components
    BY <1>6, ComponentsKeeps
<1>7. CASE MergeRound
    BY <1>7, MergeRoundKeeps
<1>8. CASE Merged
    BY <1>8, MergedKeeps
<1>9. CASE UNCHANGED vars
    BY <1>9, StutterKeeps
<1> QED
    BY <1>1, <1>2, <1>3, <1>4, <1>5, <1>6, <1>7, <1>8, <1>9 DEF Next

\* The inductive invariant.
THEOREM StratificationIsInductive == Spec => []StratificationInv
<1>1. StratificationInv /\ [Next]_vars => StratificationInv'
    BY NextKeeps
<1> QED
    BY <1>1, InitKeeps, PTL DEF Spec
-----------------------------------------------------------------------------
(* What the strata promise *)

\* A component negates itself exactly when a rule negates what is derived from
\* its own head.
LEMMA RefusedIsRight ==
    ASSUME StratificationInv
    PROVE  RefusedExactly
<1> SUFFICES ASSUME phase \in {"done", "refused"}
             PROVE  phase = "refused" <=>
                    \E r \in Rules : \E s \in Negates(r) : s = r \/ r \in Reached[s]
    BY DEF RefusedExactly
<1>1. Types /\ ComponentsAreRight
    BY DEF StratificationInv
<1>2. /\ \A a \in DOMAIN sccs : sccs[a] \in SUBSET Rules
      /\ \A x \in Rules : \E a \in DOMAIN sccs : x \in sccs[a]
    BY <1>1, ComponentsAreSets DEF ComponentsAreRight, Types
<1>3. \A r \in Rules : Negates(r) \subseteq DependsOn(r) /\ DependsOn(r) \subseteq Rules
    BY DEF Negates, DependsOn
<1>4. ASSUME NEW a \in DOMAIN sccs, NegatesItself(sccs[a])
      PROVE  \E r \in Rules : \E s \in Negates(r) : s = r \/ r \in Reached[s]
    <2>1. PICK r \in sccs[a], s \in sccs[a] : s \in Negates(r)
        BY <1>4 DEF NegatesItself
    <2>2. r \in Rules /\ s \in Rules /\ Mutual(r, s)
        BY <1>1, <1>2, <2>1 DEF ComponentsAreRight
    <2>3. s = r \/ r \in Reached[s]
        BY <2>2, PathsAre DEF Mutual
    <2> QED
        BY <2>1, <2>2, <2>3
<1>5. ASSUME NEW r \in Rules, NEW s \in Negates(r), s = r \/ r \in Reached[s]
      PROVE  \E a \in DOMAIN sccs : NegatesItself(sccs[a])
    <2>1. s \in DependsOn(r) /\ s \in Rules /\ <<r, s>> \in Paths
        BY <1>3, EdgesArePaths
    <2>2. Mutual(r, s)
        BY <1>5, <2>1, PathsAre DEF Mutual
    <2>3. PICK a \in DOMAIN sccs : r \in sccs[a]
        BY <1>2
    <2>4. \A x \in sccs[a], y \in Rules : y \in sccs[a] <=> Mutual(x, y)
        BY <1>1 DEF ComponentsAreRight
    <2>5. s \in sccs[a]
        BY <2>1, <2>2, <2>3, <2>4
    <2>6. r \in Reached[r]
        BY <1>5, <2>1, EdgesArePaths, ReachedIsTransitive
    <2>7. Recursive(sccs[a])
        BY <1>2, <2>3, <2>4, <2>6, RecursiveIs
    <2> QED
        BY <2>3, <2>5, <2>7 DEF NegatesItself
<1> QED
    BY <1>1, <1>4, <1>5 DEF ComponentsAreRight

\* A rule that negates on a cycle would have had its program refused.
LEMMA DependenciesAreFirst ==
    ASSUME StratificationInv
    PROVE  DependenciesComeFirst
<1> SUFFICES ASSUME phase = "done"
             PROVE  /\ \A r \in Rules :
                          Cardinality({i \in DOMAIN strata : r \in strata[i].rules}) = 1
                    /\ \A i \in DOMAIN strata : \A r \in strata[i].rules : \A s \in DependsOn(r) :
                          \/ \E j \in 1..(i-1) : s \in strata[j].rules
                          \/ /\ s \in strata[i].rules
                             /\ strata[i].recursive
                             /\ r \in Reached[s]
                             /\ s \notin Negates(r)
    BY DEF DependenciesComeFirst
<1>1. Types /\ InStrata /\ LaidOut = Rules
    BY DEF StratificationInv
<1>2. ASSUME NEW r \in Rules
      PROVE  Cardinality({i \in DOMAIN strata : r \in strata[i].rules}) = 1
    <2>1. PICK k \in DOMAIN strata : r \in strata[k].rules
        BY <1>1 DEF InStrata
    <2>2. {i \in DOMAIN strata : r \in strata[i].rules} = {k}
        BY <1>1, <2>1 DEF InStrata
    <2> QED
        BY <2>2, FS_Singleton
<1>3. ASSUME NEW i \in DOMAIN strata, NEW r \in strata[i].rules, NEW s \in DependsOn(r),
             ~ \E j \in 1 .. i - 1 : s \in strata[j].rules
      PROVE  /\ s \in strata[i].rules
             /\ strata[i].recursive
             /\ r \in Reached[s]
             /\ s \notin Negates(r)
    <2>1. s \in strata[i].rules /\ strata[i].recursive /\ Mutual(r, s)
        BY <1>1, <1>3 DEF InStrata
    <2>2. r \in Rules /\ s \in Rules
        <3> DEFINE Strata == [rules : SUBSET Rules, recursive : BOOLEAN]
        <3>1. strata \in Seq(Strata)
            BY <1>1 DEF Types
        <3> HIDE DEF Strata
        <3>2. strata[i] \in Strata
            BY <3>1
        <3>3. r \in Rules
            BY <3>2 DEF Strata
        <3> QED
            BY <3>3 DEF DependsOn
    <2>3. s \in Reached[s]
        BY <1>1, <2>1 DEF InStrata
    <2>4. r \in Reached[s]
        BY <2>1, <2>2, <2>3, PathsAre DEF Mutual
    <2>5. s \notin Negates(r)
        BY <2>2, <2>4, RefusedIsRight DEF RefusedExactly
    <2> QED
        BY <2>1, <2>4, <2>5
<1> QED
    BY <1>2, <1>3

LEMMA IterationIsNeeded ==
    ASSUME StratificationInv
    PROVE  IteratedWhenNeeded
BY DEF StratificationInv, InStrata, IteratedWhenNeeded

\* What an evaluation stratum by stratum rests on: every rule in one stratum,
\* behind what it reads or with it in a recursive one, whose rules are each
\* read by one of them.
Layered ==
    /\ strata \in Seq([rules : SUBSET Rules, recursive : BOOLEAN])
    /\ \A r \in Rules : \E k \in DOMAIN strata : r \in strata[k].rules
    /\ \A j, k \in DOMAIN strata : \A r \in strata[j].rules : r \in strata[k].rules => j = k
    /\ \A k \in DOMAIN strata : \A r \in strata[k].rules : \A s \in DependsOn(r) :
          \/ \E j \in 1 .. k - 1 : s \in strata[j].rules
          \/ s \in strata[k].rules /\ strata[k].recursive /\ s \notin Negates(r)
    /\ \A k \in DOMAIN strata : strata[k].recursive =>
          \A r \in strata[k].rules : \E s \in strata[k].rules : r \in DependsOn(s)

LEMMA StrataAreLayered ==
    ASSUME StratificationInv, phase = "done"
    PROVE  Layered
<1>1. Types /\ InStrata /\ LaidOut = Rules
    BY DEF StratificationInv
<1>2. \A k \in DOMAIN strata : \A r \in strata[k].rules : \A s \in DependsOn(r) :
          \/ \E j \in 1 .. k - 1 : s \in strata[j].rules
          \/ s \in strata[k].rules /\ strata[k].recursive /\ s \notin Negates(r)
    BY DependenciesAreFirst DEF DependenciesComeFirst
<1>3. ASSUME NEW k \in DOMAIN strata, strata[k].recursive, NEW r \in strata[k].rules,
             \A s \in strata[k].rules : r \notin DependsOn(s)
      PROVE  FALSE
    <2> DEFINE Stratum == [rules : SUBSET Rules, recursive : BOOLEAN]
    <2>1. strata \in Seq(Stratum)
        BY <1>1 DEF Types
    <2>2. /\ Len(strata) \in Nat /\ DOMAIN strata = 1 .. Len(strata)
          /\ \A j \in DOMAIN strata : strata[j] \in Stratum
        <3> HIDE DEF Stratum
        <3> QED
            BY <2>1
    <2>3. k \in Nat /\ r \in Rules
        <3>1. strata[k] \in Stratum
            BY <2>2
        <3> QED
            BY <2>2, <3>1
    <2> HIDE DEF Stratum
    <2> DEFINE C == {x \in Rules : x # r /\ \E j \in DOMAIN strata : j <= k /\ x \in strata[j].rules}
    <2>4. ASSUME NEW x \in Rules, NEW j \in DOMAIN strata, j <= k, x \in strata[j].rules,
                 NEW t \in DependsOn(x)
          PROVE  t \in C
        <3>1. t \in Rules
            BY EdgesArePaths, <2>4
        <3>2. j \in Nat
            BY <2>2
        <3>3. CASE \E i \in 1 .. j - 1 : t \in strata[i].rules
            <4>1. PICK i \in 1 .. j - 1 : t \in strata[i].rules
                BY <3>3
            <4>2. i \in DOMAIN strata /\ i <= k /\ i # k
                BY <2>2, <2>3, <2>4, <3>2
            <4>3. t # r
                BY <1>1, <1>3, <4>1, <4>2 DEF InStrata
            <4> QED
                BY <3>1, <4>1, <4>2, <4>3
        <3>4. CASE t \in strata[j].rules
            <4>1. CASE t # r
                BY <2>4, <3>1, <3>4, <4>1
            <4>2. CASE t = r
                <5>1. j = k
                    BY <1>1, <1>3, <3>4, <4>2 DEF InStrata
                <5> QED
                    BY <1>3, <2>4, <4>2, <5>1
            <4> QED
                BY <4>1, <4>2
        <3> QED
            BY <1>2, <2>4, <3>3, <3>4
    <2>5. /\ C \in SUBSET Rules
          /\ \A x \in C : DependsOn(x) \subseteq C
          /\ DependsOn(r) \subseteq C
        BY <1>3, <2>3, <2>4
    <2>6. r \in Reached[r]
        BY <1>1, <1>3 DEF InStrata
    <2> HIDE DEF C
    <2>7. Reached[r] \subseteq C
        BY <2>3, <2>5, ReachedIsLeast
    <2>8. r \notin C
        BY DEF C
    <2> QED
        BY <2>6, <2>7, <2>8
<1>4. strata \in Seq([rules : SUBSET Rules, recursive : BOOLEAN])
    BY <1>1 DEF Types
<1>5. /\ \A r \in Rules : \E k \in DOMAIN strata : r \in strata[k].rules
      /\ \A j, k \in DOMAIN strata : \A r \in strata[j].rules : r \in strata[k].rules => j = k
    BY <1>1 DEF InStrata
<1> QED
    BY <1>2, <1>3, <1>4, <1>5 DEF Layered

\* The component with the least index of those that are left waits for none.
LEMMA OneIsReady ==
    ASSUME StratificationInv
    PROVE  RoundsProgress
<1> SUFFICES ASSUME phase = "merging", Unmerged # {}
             PROVE  Ready # {}
    BY DEF RoundsProgress
<1>1. Types /\ ComponentsAreRight /\ Waiting
    BY DEF StratificationInv
<1>2. /\ Len(sccs) \in Nat /\ DOMAIN sccs = 1 .. Len(sccs)
      /\ \A a \in DOMAIN sccs : sccs[a] \in SUBSET Rules
      /\ \A x \in Rules : \E a \in DOMAIN sccs : x \in sccs[a]
    BY <1>1, ComponentsAreSets DEF ComponentsAreRight, Types
<1>3. Unmerged \in SUBSET Nat
    BY <1>2 DEF Unmerged
<1>4. PICK a \in Unmerged : \A b \in Unmerged : a <= b
    BY <1>3, LeastIs
<1>5. a \in DOMAIN sccs /\ a \in Nat
    BY <1>2 DEF Unmerged
<1>6. ASSUME NEW s \in WaitsFor(sccs[a])
      PROVE  s \in LaidOut
    <2>1. PICK r \in sccs[a] : s \in DependsOn(r)
        BY DEF WaitsFor
    <2>2. s \notin sccs[a]
        BY DEF WaitsFor
    <2>3. r \in Rules /\ s \in Rules /\ <<r, s>> \in Paths
        BY <1>2, <1>5, <2>1, EdgesArePaths
    <2>4. PICK b \in DOMAIN sccs : s \in sccs[b]
        BY <1>2, <2>3
    <2>5. ~ (a < b) /\ a # b
        BY <1>1, <1>5, <2>2, <2>3, <2>4 DEF ComponentsAreRight
    <2>6. b \notin Unmerged
        BY <1>2, <1>4, <1>5, <2>5
    <2> QED
        BY <2>4, <2>6 DEF Unmerged, LaidOut
<1>7. waiting[a] = {}
    BY <1>1, <1>5, <1>6 DEF Waiting
<1> QED
    BY <1>7 DEF Ready

\* A program is refused exactly when a rule negates what is derived from it
\* (Strata::try_from_parser), whatever the order of the searches.
THEOREM NegationThroughRecursionIsRefused == Spec => []RefusedExactly
BY StratificationIsInductive, RefusedIsRight, PTL

\* Every rule is in one stratum, behind those of what it reads, or with them
\* in a recursive one; what it negates is always complete.
THEOREM StrataComeInOrder == Spec => []DependenciesComeFirst
BY StratificationIsInductive, DependenciesAreFirst, PTL

\* A stratum is iterated exactly when its rules read themselves.
THEOREM OnlyRecursionIsIterated == Spec => []IteratedWhenNeeded
BY StratificationIsInductive, IterationIsNeeded, PTL

\* The loop of rounds never meets one in which no component can be laid out:
\* the code's loop has no other exit.
THEOREM EveryRoundLaysOut == Spec => []RoundsProgress
BY StratificationIsInductive, OneIsReady, PTL
=============================================================================
