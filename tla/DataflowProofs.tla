--------------------------- MODULE DataflowProofs ---------------------------
(***************************************************************************)
(* The dataflow, for every program, database and order of planning: no     *)
(* operator, collector or scope misses a collection.                       *)
(*                                                                         *)
(* The strata are those of Stratification, and what is proved of them      *)
(* there (Layered) is where this starts.  While a group is planned, the    *)
(* calls of the recursion are the outputs that are marked as planned and   *)
(* are not in the plan yet: that every one of them is smaller than the one *)
(* around it is why nothing that is shared is still pending when it is     *)
(* read (Calls), and so the plan is in order (InOrder).                    *)
(*                                                                         *)
(* From there on, what the collections hold: each means its lineage, over  *)
(* the relations outside or, in a scope, over its variables (MeaningInv).  *)
(* So the result is a model whose every row is derived, and what a         *)
(* recursive scope comes out with is the least that its rules allow.       *)
(***************************************************************************)
EXTENDS Dataflow, TLAPS, FiniteSetTheorems, WellFoundedInduction

Layers == INSTANCE StratificationProofs

Names == UNION {program.reads[r] \cup program.negates[r] : r \in Rules}

Bodies == Seq(Names) \ {<< >>}

Kinds == {"row", "keys", "set", "left", "right"}

Signatures == (Kinds \X Bodies) \cup ({"minus"} \X Bodies \X {<<n>> : n \in Names})

Relations(out) == ToSet(out[2]) \cup (IF out[1] = "minus" THEN {out[3][1]} ELSE {})

Weight(out) == IF out[1] = "minus" THEN Len(out[2]) + 1 ELSE Len(out[2])

Planned == ToSet(planned.plan)

Outs(calls) == {calls[k].out : k \in DOMAIN calls}

Pending == Outs(walking)

\* A call starts, on top of those around it, which are for larger outputs.
OnTop(frame, rest) == <<frame>> \o rest

Started(out, rest) == OnTop([out |-> out, inputs |-> Inputs(out)], rest)

Within(out, calls) == \A k \in DOMAIN calls : Weight(out) < Weight(calls[k].out)

Earlier == UNION {strata[j].rules : j \in 1 .. group - 1}

Present == DOMAIN facts \cup {program.head[r] : r \in Earlier}

Source == IF IsRecursive THEN planned.enters ELSE DOMAIN made

ReadBy(rs) == UNION {program.reads[r] \cup program.negates[r] : r \in rs}

UnderWay == stage \in {"plan", "operate"}

Frames == [out : Signatures, inputs : Seq(Signatures)]

Plans == [plan : Seq(Signatures), seen : SUBSET Signatures, nested : SUBSET Signatures,
          enters : SUBSET (Signatures \cup {Atom(a) : a \in Names})]

Types ==
    /\ stage \in {"stratify", "plan", "operate", "done"}
    /\ program \in Programs
    /\ planned \in Plans
    /\ walking \in Seq(Frames)

\* Where the groups are: the inputs and the relations of earlier groups are
\* in the maps.
Progress ==
    IF stage = "stratify"
    THEN /\ Layers!StratificationInv
         /\ planned.seen = {} /\ walking = << >>
         /\ group = 0
    ELSE /\ Layers!Layered
         /\ phase = "done"
         /\ facts \in Databases
         /\ group \in 1 .. Len(strata) + 1
         /\ stage = "done" <=> group = Len(strata) + 1
         /\ stage = "done" => walking = << >>
         /\ DOMAIN made \ Signatures = {Atom(a) : a \in Present}

Ready == Source \cup Planned

\* What is shared is made, or on its way in this group.
Sharing ==
    /\ planned.seen \subseteq DOMAIN made \cup (IF UnderWay /\ ~ IsRecursive
                                              THEN Planned \cup Pending ELSE {})
    /\ planned.nested \subseteq IF UnderWay /\ IsRecursive THEN Planned \cup Pending ELSE {}

\* An operator comes after those that make what it reads.
InOrder ==
    \A i \in DOMAIN planned.plan :
        ToSet(Inputs(planned.plan[i])) \subseteq Source \cup {planned.plan[j] : j \in 1 .. i - 1}

Entering == IsRecursive => planned.enters \subseteq DOMAIN made \cup HeadAtoms

Lasts ==
    /\ left \subseteq GroupRules
    /\ \A r \in GroupRules \ left : Root(r) \in Ready \cup Pending

\* A call has planned the inputs that it has been through.
Walked(frame, reads, ready) ==
    /\ ~ IsLeaf(frame.out)
    /\ Relations(frame.out) \subseteq reads
    /\ \/ frame.inputs = Inputs(frame.out)
       \/ frame.inputs = <<Inputs(frame.out)[2]>> /\ Inputs(frame.out)[1] \in ready
       \/ frame.inputs = << >> /\ {Inputs(frame.out)[1], Inputs(frame.out)[2]} \subseteq ready

\* The calls of the recursion, each for an input of the one around it.
Calls(calls, reads, ready, innermost) ==
    /\ \A k \in DOMAIN calls :
          Walked(calls[k], reads, ready \cup IF k = 1 THEN innermost ELSE {calls[k - 1].out})
    /\ \A j, k \in DOMAIN calls : j < k => Weight(calls[j].out) < Weight(calls[k].out)

Operating ==
    /\ left = {} /\ walking = << >>
    /\ at \in 1 .. Len(planned.plan) + 1
    /\ Source \cup {planned.plan[j] : j \in 1 .. at - 1} \subseteq DOMAIN There
    /\ IsRecursive => HeadAtoms \subseteq DOMAIN There

DataflowInv ==
    /\ Types
    /\ Progress
    /\ Sharing
    /\ UnderWay => InOrder /\ Entering /\ Lasts
    /\ stage = "plan" => at = 1 /\ Calls(walking, ReadBy(GroupRules), Ready, {})
    /\ stage = "operate" => Operating
-----------------------------------------------------------------------------
(* The strata of the instance *)

LEMMA LayersInit ==
    ASSUME Strata!Init
    PROVE Layers!StratificationInv
<1>1. IsFiniteSet(Rules)
    BY DataflowAssumption
<1>3. Layers!IsFiniteSet(Rules)
    BY <1>1 DEF IsFiniteSet, Layers!IsFiniteSet
<1>2. Layers!Init
    BY DEF Strata!Init, Layers!Init
<1> QED
    BY <1>3, <1>2, Layers!InitKeeps

LEMMA LayersNext ==
    ASSUME Layers!StratificationInv, Strata!Next
    PROVE Layers!StratificationInv'
<1>1. IsFiniteSet(Rules)
    BY DataflowAssumption
<1>3. Layers!IsFiniteSet(Rules)
    BY <1>1 DEF IsFiniteSet, Layers!IsFiniteSet
<1>4. Strata!Next => Layers!Next
   BY DEF Strata!Next, Layers!Next, Strata!Visit, Layers!Visit, Strata!Finish, Layers!Finish, Strata!Ordered, Layers!Ordered, Strata!Grow, Layers!Grow, Strata!Start, Layers!Start, Strata!Components, Layers!Components, Strata!MergeRound, Layers!MergeRound, Strata!Merged, Layers!Merged, Strata!vars, Layers!vars, Strata!DependsOn, Layers!DependsOn, Strata!Negates, Layers!Negates, Strata!Assigned, Layers!Assigned, Strata!ToSet, Layers!ToSet, Strata!Neighbours, Layers!Neighbours, Strata!Growing, Layers!Growing, Strata!Last, Layers!Last, Strata!Recursive, Layers!Recursive, Strata!NegatesItself, Layers!NegatesItself, Strata!WaitsFor, Layers!WaitsFor, Strata!Reverse, Layers!Reverse, Strata!Unmerged, Layers!Unmerged, Strata!Ready, Layers!Ready, Strata!Ascending, Layers!Ascending, Strata!Cardinality, Layers!Cardinality
<1>5. [Layers!Next]_Layers!vars
   BY <1>4
<1> QED
    BY <1>3, <1>5, Layers!NextKeeps
-----------------------------------------------------------------------------
(* Signatures *)

LEMMA OverIs ==
    ASSUME NEW f, NEW g
    PROVE  /\ DOMAIN Over(f, g) = DOMAIN f \cup DOMAIN g
           /\ \A x \in DOMAIN f : Over(f, g)[x] = f[x]
           /\ \A x \in DOMAIN g \ DOMAIN f : Over(f, g)[x] = g[x]
BY DEF Over

LEMMA ToSetIs ==
    ASSUME NEW S, NEW s \in Seq(S)
    PROVE  /\ ToSet(s) = {s[i] : i \in 1 .. Len(s)}
           /\ ToSet(s) \subseteq S
           /\ Len(s) \in Nat /\ DOMAIN s = 1 .. Len(s)
BY DEF ToSet

LEMMA ToSetAppend ==
    ASSUME NEW S, NEW s \in Seq(S), NEW e \in S
    PROVE  /\ ToSet(Append(s, e)) = ToSet(s) \cup {e}
           /\ Len(Append(s, e)) = Len(s) + 1
           /\ \A i \in 1 .. Len(s) : Append(s, e)[i] = s[i]
           /\ Append(s, e)[Len(s) + 1] = e
<1>1. Append(s, e) \in Seq(S) /\ Len(Append(s, e)) = Len(s) + 1 /\ Len(s) \in Nat
    OBVIOUS
<1>2. /\ \A i \in 1 .. Len(s) : Append(s, e)[i] = s[i]
      /\ Append(s, e)[Len(s) + 1] = e
    OBVIOUS
<1>3. ToSet(Append(s, e)) = {Append(s, e)[i] : i \in 1 .. Len(s) + 1}
    BY <1>1, ToSetIs
<1>4. ToSet(s) = {s[i] : i \in 1 .. Len(s)}
    BY ToSetIs
<1>5. \A i : i \in 1 .. Len(s) + 1 <=> i \in 1 .. Len(s) \/ i = Len(s) + 1
    BY <1>1
<1> HIDE DEF ToSet
<1> QED
    BY <1>1, <1>2, <1>3, <1>4, <1>5

LEMMA ToSetPair ==
    ASSUME NEW x, NEW y
    PROVE  ToSet(<<x, y>>) = {x, y} /\ ToSet(<<x>>) = {x}
<1>1. DOMAIN <<x, y>> = {1, 2} /\ DOMAIN <<x>> = {1}
    OBVIOUS
<1>2. <<x, y>>[1] = x /\ <<x, y>>[2] = y /\ <<x>>[1] = x
    OBVIOUS
<1> QED
    BY <1>1, <1>2 DEF ToSet

LEMMA SignatureIs ==
    ASSUME NEW out \in Signatures
    PROVE  /\ out[2] \in Bodies /\ out[2] \in Seq(Names) /\ Len(out[2]) \in Nat \ {0}
           /\ Weight(out) \in Nat
           /\ out[1] = "minus" => out[3] = <<out[3][1]>> /\ out[3][1] \in Names
           /\ out[1] # "atom"
           /\ Relations(out) \subseteq Names
<1>1. /\ out[2] \in Bodies
      /\ out[1] = "minus" => out[3] = <<out[3][1]>> /\ out[3][1] \in Names
      /\ out[1] # "atom"
    BY DEF Signatures, Kinds
<1>2. out[2] \in Seq(Names) /\ out[2] # << >>
    BY <1>1 DEF Bodies
<1>3. Len(out[2]) \in Nat \ {0}
    BY <1>2
<1>4. ToSet(out[2]) \subseteq Names
    BY <1>2, ToSetIs
<1> QED
    BY <1>1, <1>2, <1>3, <1>4 DEF Weight, Relations

\* A leaf reads an atom, and any other two collections it is made of.
LEMMA LeafInputs ==
    ASSUME NEW out \in Signatures, IsLeaf(out)
    PROVE  /\ Inputs(out) = <<Atom(out[2][1])>>
           /\ ToSet(Inputs(out)) = {Atom(out[2][1])}
           /\ out[2][1] \in Names
           /\ Relations(out) = {out[2][1]}
<1>1. out[1] # "minus" /\ Len(out[2]) = 1 /\ out[2] \in Seq(Names)
    BY SignatureIs DEF IsLeaf
<1>2. Inputs(out) = <<Atom(out[2][1])>>
    BY <1>1 DEF Inputs
<1>3. ToSet(out[2]) = {out[2][1]} /\ out[2][1] \in Names
    BY <1>1, ToSetIs
<1> QED
    BY <1>1, <1>2, <1>3, ToSetPair DEF Relations

LEMMA OtherInputs ==
    ASSUME NEW out \in Signatures, ~ IsLeaf(out)
    PROVE  /\ Inputs(out) = <<Inputs(out)[1], Inputs(out)[2]>>
           /\ Inputs(out) \in Seq(Signatures) /\ Len(Inputs(out)) = 2
           /\ ToSet(Inputs(out)) = {Inputs(out)[1], Inputs(out)[2]}
           /\ Relations(out) = Relations(Inputs(out)[1]) \cup Relations(Inputs(out)[2])
           /\ Weight(Inputs(out)[1]) < Weight(out)
           /\ Weight(Inputs(out)[2]) < Weight(out)
<1>1. /\ out[2] \in Seq(Names) /\ Len(out[2]) \in Nat \ {0} /\ out[2] \in Bodies
      /\ Names # {}
    BY SignatureIs
<1>2. ASSUME out[1] = "minus"
      PROVE  \E i, j \in Signatures :
               /\ Inputs(out) = <<i, j>>
               /\ Relations(out) = Relations(i) \cup Relations(j)
               /\ Weight(i) < Weight(out) /\ Weight(j) < Weight(out)
    <2> DEFINE i == <<IF Len(out[2]) = 1 THEN "keys" ELSE "set", out[2]>>
               j == <<"keys", out[3]>>
    <2>1. out[3] = <<out[3][1]>> /\ out[3][1] \in Names
        BY <1>2, SignatureIs
    <2>2. out[3] \in Seq(Names) /\ Len(out[3]) = 1 /\ out[3] # << >> /\ ToSet(out[3]) = {out[3][1]}
        <3>1. PICK n \in Names : out[3] = <<n>>
            BY <2>1
        <3>2. <<n>> \in Seq(Names) /\ Len(<<n>>) = 1 /\ <<n>> # << >> /\ <<n>>[1] = n
            OBVIOUS
        <3>3. ToSet(<<n>>) = {n}
            BY ToSetPair
        <3> QED
            BY <3>1, <3>2, <3>3
    <2>3. i \in Signatures /\ j \in Signatures
        BY <1>1, <2>2 DEF Signatures, Kinds, Bodies
    <2>4. Inputs(out) = <<i, j>>
        BY <1>2 DEF Inputs
    <2>5. Relations(i) = ToSet(out[2]) /\ Relations(j) = {out[3][1]}
        BY <2>2 DEF Relations
    <2>6. Weight(i) = Len(out[2]) /\ Weight(j) = 1 /\ Weight(out) = Len(out[2]) + 1
        BY <1>2, <2>2 DEF Weight
    <2>7. Relations(out) = ToSet(out[2]) \cup {out[3][1]}
        BY <1>2 DEF Relations
    <2> HIDE DEF i, j
    <2> QED
        BY <1>1, <2>3, <2>4, <2>5, <2>6, <2>7
<1>3. ASSUME out[1] # "minus"
      PROVE  \E i, j \in Signatures :
               /\ Inputs(out) = <<i, j>>
               /\ Relations(out) = Relations(i) \cup Relations(j)
               /\ Weight(i) < Weight(out) /\ Weight(j) < Weight(out)
    <2> DEFINE b == out[2]
               i == <<"left", <<Head(b)>> >>
               j == <<"right", Tail(b)>>
    <2>1. Len(b) # 1 /\ b \in Seq(Names) /\ Len(b) \in Nat \ {0}
        BY <1>1, <1>3 DEF IsLeaf
    <2>2. Inputs(out) = <<i, j>>
        BY <1>3, <2>1 DEF Inputs
    <2> HIDE DEF b
    <2>3. /\ Head(b) = b[1] /\ Head(b) \in Names
          /\ Tail(b) \in Seq(Names) /\ Len(Tail(b)) = Len(b) - 1
          /\ \A k \in 1 .. Len(b) - 1 : Tail(b)[k] = b[k + 1]
        BY <2>1
    <2>4. Tail(b) # << >> /\ <<Head(b)>> \in Seq(Names) /\ <<Head(b)>> # << >> /\ Len(<<Head(b)>>) = 1
        BY <2>1, <2>3
    <2>5. i \in Signatures /\ j \in Signatures
        BY <2>3, <2>4 DEF Signatures, Kinds, Bodies
    <2>6. /\ ToSet(<<Head(b)>>) = {b[1]}
          /\ ToSet(b) = {b[k] : k \in 1 .. Len(b)}
          /\ ToSet(Tail(b)) = {Tail(b)[k] : k \in 1 .. Len(b) - 1}
        <3>1. ToSet(<<Head(b)>>) = {b[1]}
            BY <2>3, ToSetPair
        <3>2. ToSet(b) = {b[k] : k \in 1 .. Len(b)}
            BY <2>1, ToSetIs
        <3>3. ToSet(Tail(b)) = {Tail(b)[k] : k \in 1 .. Len(Tail(b))}
            BY <2>3, ToSetIs
        <3> QED
            BY <2>3, <3>1, <3>2, <3>3
    <2>7. ToSet(b) = ToSet(<<Head(b)>>) \cup ToSet(Tail(b))
        <3>1. \A k \in 1 .. Len(b) : k = 1 \/ (k - 1 \in 1 .. Len(b) - 1 /\ Tail(b)[k - 1] = b[k])
            BY <2>1, <2>3
        <3>2. 1 \in 1 .. Len(b) /\ \A k \in 1 .. Len(b) - 1 : k + 1 \in 1 .. Len(b)
            BY <2>1
        <3>3. ToSet(b) \subseteq ToSet(<<Head(b)>>) \cup ToSet(Tail(b))
            BY <2>6, <3>1
        <3>4. ToSet(<<Head(b)>>) \cup ToSet(Tail(b)) \subseteq ToSet(b)
            BY <2>3, <2>6, <3>2
        <3> QED
            BY <3>3, <3>4
    <2>8. /\ Relations(i) = ToSet(<<Head(b)>>) /\ Relations(j) = ToSet(Tail(b))
          /\ Weight(i) = 1 /\ Weight(j) = Len(b) - 1
        BY <2>3, <2>4 DEF Relations, Weight
    <2>9. Relations(out) = ToSet(b) /\ Weight(out) = Len(b)
        BY <1>3 DEF Relations, Weight, b
    <2> HIDE DEF i, j
    <2>10. Weight(i) < Weight(out) /\ Weight(j) < Weight(out)
        BY <2>1, <2>8, <2>9
    <2>11. Relations(out) = Relations(i) \cup Relations(j)
        BY <2>7, <2>8, <2>9
    <2> QED
        BY <2>2, <2>5, <2>10, <2>11
<1>4. PICK i, j \in Signatures :
               /\ Inputs(out) = <<i, j>>
               /\ Relations(out) = Relations(i) \cup Relations(j)
               /\ Weight(i) < Weight(out) /\ Weight(j) < Weight(out)
    BY <1>2, <1>3
<1>5. Inputs(out)[1] = i /\ Inputs(out)[2] = j /\ Len(Inputs(out)) = 2
    BY <1>4
<1>6. <<i, j>> \in Seq(Signatures)
    BY <1>4
<1> QED
    BY <1>4, <1>5, <1>6, ToSetPair
-----------------------------------------------------------------------------
(* Rules and their groups *)

LEMMA RuleIs ==
    ASSUME program \in Programs, NEW r \in Rules
    PROVE  /\ program.body[r] \in Bodies
           /\ program.reads[r] = ToSet(program.body[r])
           /\ program.negates[r] = {} \/ \E n \in Names : program.negates[r] = {n}
           /\ Root(r) \in Signatures
           /\ Root(r)[2] = program.body[r]
           /\ program.negates[r] = {} => Root(r)[1] # "minus"
           /\ program.negates[r] # {} => Root(r)[1] = "minus" /\ program.negates[r] = {Root(r)[3][1]}
           /\ Relations(Root(r)) = program.reads[r] \cup program.negates[r]
<1> DEFINE reads == program.reads[r]
           body == program.body[r]
           negates == program.negates[r]
<1>1. /\ body \in Seq(reads) \ {<< >>} /\ reads = ToSet(body)
      /\ \A m, n \in negates : m = n
    BY DataflowAssumption
<1>2. reads \subseteq Names /\ negates \subseteq Names
    BY DEF Names
<1> HIDE DEF reads, body, negates
<1>3. body \in Bodies
    BY <1>1, <1>2 DEF Bodies
<1>4. negates = {} \/ \E n \in Names : negates = {n}
    BY <1>1, <1>2
<1>5. CASE negates = {}
    <2>1. Root(r) = <<"row", body>>
        BY <1>5 DEF Root, negates, body
    <2>2. <<"row", body>> \in Signatures
        BY <1>3 DEF Signatures, Kinds
    <2>3. <<"row", body>>[1] = "row" /\ <<"row", body>>[2] = body
        OBVIOUS
    <2>4. Relations(Root(r)) = ToSet(body)
        BY <2>1, <2>3 DEF Relations
    <2> QED
        BY <1>1, <1>3, <1>5, <2>1, <2>2, <2>3, <2>4 DEF reads, negates, body
<1>6. CASE negates # {}
    <2>1. PICK n \in Names : negates = {n}
        BY <1>4, <1>6
    <2>2. (CHOOSE m \in negates : TRUE) = n
        BY <2>1
    <2>3. Root(r) = <<"minus", body, <<n>> >>
        BY <1>6, <2>2 DEF Root, negates, body
    <2>4. <<"minus", body, <<n>> >> \in Signatures
        BY <1>3 DEF Signatures
    <2>5. Root(r)[1] = "minus" /\ Root(r)[2] = body /\ Root(r)[3] = <<n>> /\ <<n>>[1] = n
        BY <2>3
    <2>6. Relations(Root(r)) = ToSet(body) \cup {n}
        BY <2>5 DEF Relations
    <2> QED
        BY <1>1, <1>3, <1>6, <2>1, <2>3, <2>4, <2>5, <2>6 DEF reads, negates, body
<1> QED
    BY <1>5, <1>6

LEMMA GroupIs ==
    ASSUME Types, Progress, UnderWay
    PROVE  /\ group \in 1 .. Len(strata) /\ Len(strata) \in Nat
           /\ DOMAIN strata = 1 .. Len(strata)
           /\ GroupRules \subseteq Rules
           /\ IsRecursive \in BOOLEAN
           /\ \A k \in DOMAIN strata : strata[k].rules \subseteq Rules
           /\ Earlier \subseteq Rules
<1> DEFINE Stratum == [rules : SUBSET Rules, recursive : BOOLEAN]
<1>1. /\ strata \in Seq(Stratum)
      /\ group \in 1 .. Len(strata) + 1 /\ group # Len(strata) + 1
    BY DEF Progress, UnderWay, Layers!Layered
<1>2. /\ Len(strata) \in Nat /\ DOMAIN strata = 1 .. Len(strata)
      /\ \A k \in DOMAIN strata : strata[k] \in Stratum
    <2> HIDE DEF Stratum
    <2> QED
        BY <1>1
<1>3. group \in 1 .. Len(strata)
    BY <1>1, <1>2
<1>4. \A k \in DOMAIN strata : strata[k].rules \subseteq Rules /\ strata[k].recursive \in BOOLEAN
    BY <1>2
<1>5. \A k \in 1 .. group - 1 : k \in DOMAIN strata
    BY <1>2, <1>3
<1> HIDE DEF Stratum
<1> QED
    BY <1>2, <1>3, <1>4, <1>5 DEF GroupRules, IsRecursive, Earlier

\* What a rule reads is in the maps, or derived in the scope of its group.
LEMMA ReadIsPresent ==
    ASSUME Types, Progress, UnderWay, NEW a \in ReadBy(GroupRules)
    PROVE  \/ Atom(a) \in DOMAIN made
           \/ IsRecursive /\ Atom(a) \in HeadAtoms
<1>1. PICK r \in GroupRules : a \in program.reads[r] \cup program.negates[r]
    BY DEF ReadBy
<1>2. r \in Rules /\ group \in DOMAIN strata
    BY <1>1, GroupIs
<1>3. facts \in Databases /\ program \in Programs
    BY DEF Types, Progress, UnderWay
<1>4. a \in {program.head[s] : s \in Rules} \cup DOMAIN facts
    BY <1>1, <1>2, <1>3, DataflowAssumption
<1>5. \A b \in Present : Atom(b) \in DOMAIN made
    BY DEF Progress, UnderWay
<1>6. CASE a \in DOMAIN facts
    BY <1>5, <1>6 DEF Present
<1>7. CASE \E s \in Rules : program.head[s] = a
    <2>1. PICK s \in Rules : program.head[s] = a
        BY <1>7
    <2>2. s \in Layers!DependsOn(r)
        BY <1>1, <2>1 DEF Layers!DependsOn
    <2>3. \/ \E j \in 1 .. group - 1 : s \in strata[j].rules
          \/ s \in strata[group].rules /\ strata[group].recursive
        BY <1>1, <1>2, <2>2 DEF Progress, UnderWay, Layers!Layered, GroupRules
    <2>4. CASE \E j \in 1 .. group - 1 : s \in strata[j].rules
        BY <1>5, <2>1, <2>4 DEF Present, Earlier
    <2>5. CASE s \in strata[group].rules /\ strata[group].recursive
        BY <2>1, <2>5 DEF IsRecursive, HeadAtoms, Heads, GroupRules
    <2> QED
        BY <2>3, <2>4, <2>5
<1> QED
    BY <1>4, <1>6, <1>7

\* The names of one group.
LEMMA SameGroup ==
    ASSUME UNCHANGED <<strataVars, facts, group>>
    PROVE  /\ GroupRules' = GroupRules /\ IsRecursive' = IsRecursive
           /\ HeadAtoms' = HeadAtoms /\ Heads' = Heads
           /\ Earlier' = Earlier /\ Present' = Present
           /\ Names' = Names /\ Bodies' = Bodies /\ Signatures' = Signatures
           /\ Frames' = Frames /\ Plans' = Plans
           /\ \A r : Root(r)' = Root(r)
           /\ \A rs : ReadBy(rs)' = ReadBy(rs)
           /\ Layers!Layered' <=> Layers!Layered
<1>1. UNCHANGED <<program, phase, strata, facts, group>>
    BY DEF strataVars
<1> QED
    BY <1>1 DEF GroupRules, IsRecursive, HeadAtoms, Heads, Earlier, Present, Names, Bodies,
                Signatures, Frames, Plans, Root, ReadBy, Layers!Layered, Layers!DependsOn, Layers!Negates
-----------------------------------------------------------------------------
(* Planning *)

LEMMA WalkedGrows ==
    ASSUME NEW frame, NEW reads, NEW ready, NEW more, ready \subseteq more,
           Walked(frame, reads, ready)
    PROVE  Walked(frame, reads, more)
BY DEF Walked

\* A call returns: its output is ready.
LEMMA CallReturns ==
    ASSUME NEW reads, NEW ready, NEW more, ready \subseteq more,
           NEW out \in more, NEW rest, Calls(rest, reads, ready, {out})
    PROVE  Calls(rest, reads, more, {})
<1> DEFINE above(k) == IF k = 1 THEN {out} ELSE {rest[k - 1].out}
           over(k) == IF k = 1 THEN {} ELSE {rest[k - 1].out}
<1>1. ASSUME NEW k \in DOMAIN rest
      PROVE  Walked(rest[k], reads, more \cup over(k))
    <2>1. Walked(rest[k], reads, ready \cup above(k))
        BY DEF Calls
    <2>2. ready \cup above(k) \subseteq more \cup over(k)
        OBVIOUS
    <2> HIDE DEF above, over
    <2> QED
        BY <2>1, <2>2, WalkedGrows
<1>2. \A j, k \in DOMAIN rest : j < k => Weight(rest[j].out) < Weight(rest[k].out)
    BY DEF Calls
<1> QED
    BY <1>1, <1>2 DEF Calls

\* What is ready in a call stays ready.
LEMMA CallsGrow ==
    ASSUME NEW calls, NEW reads, NEW ready, NEW more, NEW innermost,
           ready \subseteq more, Calls(calls, reads, ready, innermost)
    PROVE  Calls(calls, reads, more, innermost)
<1> DEFINE above(k) == IF k = 1 THEN innermost ELSE {calls[k - 1].out}
<1>1. ASSUME NEW k \in DOMAIN calls
      PROVE  Walked(calls[k], reads, more \cup above(k))
    <2>1. Walked(calls[k], reads, ready \cup above(k))
        BY DEF Calls
    <2>2. ready \cup above(k) \subseteq more \cup above(k)
        OBVIOUS
    <2> HIDE DEF above
    <2> QED
        BY <2>1, <2>2, WalkedGrows
<1>2. \A j, k \in DOMAIN calls : j < k => Weight(calls[j].out) < Weight(calls[k].out)
    BY DEF Calls
<1> QED
    BY <1>1, <1>2 DEF Calls

LEMMA TopIs ==
    ASSUME NEW f \in Frames, NEW rest \in Seq(Frames)
    PROVE  /\ OnTop(f, rest) \in Seq(Frames)
           /\ Len(OnTop(f, rest)) = Len(rest) + 1 /\ Len(rest) \in Nat
           /\ DOMAIN OnTop(f, rest) = 1 .. Len(rest) + 1 /\ DOMAIN rest = 1 .. Len(rest)
           /\ OnTop(f, rest)[1] = f
           /\ \A k \in 1 .. Len(rest) : OnTop(f, rest)[k + 1] = rest[k]
           /\ \A k \in DOMAIN OnTop(f, rest) :
                 k # 1 => k - 1 \in DOMAIN rest /\ (k - 1) + 1 = k /\ OnTop(f, rest)[k] = rest[k - 1]
           /\ Outs(OnTop(f, rest)) = Outs(rest) \cup {f.out}
<1> DEFINE calls == OnTop(f, rest)
<1>1. calls = <<f>> \o rest
    BY DEF OnTop
<1> HIDE DEF calls
<1>2. /\ calls \in Seq(Frames) /\ Len(calls) = Len(rest) + 1 /\ Len(rest) \in Nat
      /\ calls[1] = f /\ \A k \in 1 .. Len(rest) : calls[k + 1] = rest[k]
    BY <1>1
<1>3. DOMAIN calls = 1 .. Len(rest) + 1 /\ DOMAIN rest = 1 .. Len(rest)
    BY <1>2
<1>4. ASSUME NEW k \in DOMAIN calls, k # 1
      PROVE  k - 1 \in DOMAIN rest /\ (k - 1) + 1 = k /\ calls[k] = rest[k - 1]
    <2>1. k - 1 \in 1 .. Len(rest) /\ (k - 1) + 1 = k
        BY <1>2, <1>3, <1>4
    <2>2. calls[(k - 1) + 1] = rest[k - 1]
        BY <1>2, <2>1
    <2> QED
        BY <1>3, <2>1, <2>2
<1>5. \A k \in DOMAIN calls : calls[k].out \in Outs(rest) \cup {f.out}
    BY <1>2, <1>4 DEF Outs
<1>6. \A k \in DOMAIN rest : rest[k].out \in Outs(calls)
    <2>1. ASSUME NEW k \in DOMAIN rest
          PROVE  k + 1 \in DOMAIN calls /\ calls[k + 1] = rest[k]
        BY <1>2, <1>3
    <2> QED
        BY <2>1 DEF Outs
<1>7. f.out \in Outs(calls)
    <2>1. 1 \in DOMAIN calls
        BY <1>2, <1>3
    <2> QED
        BY <1>2, <2>1 DEF Outs
<1>8. Outs(calls) = Outs(rest) \cup {f.out}
    BY ONLY <1>5, <1>6, <1>7 DEF Outs
<1> QED
    BY <1>2, <1>3, <1>4, <1>8 DEF calls

\* A call on top of others.
LEMMA CallOnTop ==
    ASSUME NEW reads, NEW ready, NEW innermost, NEW around,
           NEW f \in Frames, NEW out, out = f.out,
           NEW rest \in Seq(Frames), NEW own, own = {out},
           Calls(rest, reads, ready, own), Within(out, rest),
           Walked(f, reads, around), around \subseteq ready \cup innermost
    PROVE  Calls(OnTop(f, rest), reads, ready, innermost)
<1> DEFINE calls == OnTop(f, rest)
<1>1. /\ Len(rest) \in Nat /\ calls[1] = f
      /\ DOMAIN calls = 1 .. Len(rest) + 1 /\ DOMAIN rest = 1 .. Len(rest)
      /\ \A k \in DOMAIN calls :
           k # 1 => k - 1 \in DOMAIN rest /\ (k - 1) + 1 = k /\ calls[k] = rest[k - 1]
    BY TopIs
<1>2. \A k \in DOMAIN rest : Weight(out) < Weight(rest[k].out)
    BY DEF Within
<1>3. Walked(f, reads, ready \cup innermost)
    BY WalkedGrows
<1> HIDE DEF calls
<1>4. ASSUME NEW k \in DOMAIN calls
      PROVE  Walked(calls[k], reads, ready \cup IF k = 1 THEN innermost ELSE {calls[k - 1].out})
    <2>1. CASE k = 1
        BY <1>1, <1>3, <2>1
    <2>2. CASE k # 1
        <3> DEFINE m == k - 1
        <3>1. m \in DOMAIN rest /\ calls[k] = rest[m] /\ m \in 1 .. Len(rest)
            BY <1>1, <2>2
        <3>2. calls[k - 1].out = IF m = 1 THEN out ELSE rest[m - 1].out
            <4>1. CASE m = 1
                BY <1>1, <4>1
            <4>2. CASE m # 1
                <5>1. m \in DOMAIN calls
                    BY <1>1, <3>1
                <5> QED
                    BY <1>1, <4>2, <5>1
            <4> QED
                BY <4>1, <4>2
        <3>3. Walked(rest[m], reads, ready \cup IF m = 1 THEN own ELSE {rest[m - 1].out})
            BY <3>1 DEF Calls
        <3>4. ready \cup (IF m = 1 THEN own ELSE {rest[m - 1].out}) \subseteq ready \cup {calls[k - 1].out}
            BY <3>2
        <3> HIDE DEF m
        <3>5. Walked(rest[m], reads, ready \cup {calls[k - 1].out})
            BY <3>3, <3>4, WalkedGrows
        <3> QED
            BY <2>2, <3>1, <3>5
    <2> QED
        BY <2>1, <2>2
<1>5. ASSUME NEW j \in DOMAIN calls, NEW k \in DOMAIN calls, j < k
      PROVE  Weight(calls[j].out) < Weight(calls[k].out)
    <2>1. k # 1 /\ k \in Nat /\ j \in Nat
        BY <1>1, <1>5
    <2>2. k - 1 \in DOMAIN rest /\ calls[k] = rest[k - 1]
        BY <1>1, <2>1
    <2>3. CASE j = 1
        BY <1>1, <1>2, <2>2, <2>3
    <2>4. CASE j # 1
        <3>1. j - 1 \in DOMAIN rest /\ calls[j] = rest[j - 1]
            BY <1>1, <2>4
        <3>2. j - 1 < k - 1
            BY <1>5, <2>1
        <3> QED
            BY <2>2, <3>1, <3>2 DEF Calls
    <2> QED
        BY <2>3, <2>4
<1> QED
    BY <1>4, <1>5 DEF Calls, calls

\* A call starts.
LEMMA CallStarts ==
    ASSUME NEW reads, NEW ready,
           NEW out \in Signatures, ~ IsLeaf(out), Relations(out) \subseteq reads,
           NEW rest \in Seq(Frames), Calls(rest, reads, ready, {out}), Within(out, rest)
    PROVE  /\ Calls(Started(out, rest), reads, ready, {})
           /\ Started(out, rest) \in Seq(Frames)
           /\ Outs(Started(out, rest)) = Outs(rest) \cup {out}
<1> DEFINE f == [out |-> out, inputs |-> Inputs(out)]
           none == {}
           own == {out}
<1>1. f \in Frames /\ f.out = out /\ f.inputs = Inputs(out)
    BY OtherInputs DEF Frames
<1>2. Started(out, rest) = OnTop(f, rest)
    BY DEF Started
<1> HIDE DEF f
<1>3. Walked(f, reads, ready)
    BY <1>1 DEF Walked
<1>4. none = {} /\ ready \subseteq ready \cup none /\ own = {out} /\ Calls(rest, reads, ready, own)
    OBVIOUS
<1>5. OnTop(f, rest) \in Seq(Frames) /\ Outs(OnTop(f, rest)) = Outs(rest) \cup {f.out}
    BY <1>1, TopIs
<1> HIDE DEF none, own
<1>6. Calls(OnTop(f, rest), reads, ready, none)
    BY <1>1, <1>3, <1>4, CallOnTop
<1> QED
    BY <1>1, <1>2, <1>4, <1>5, <1>6

LEMMA FrameIs ==
    ASSUME NEW calls \in Seq(Frames)
    PROVE  /\ Len(calls) \in Nat /\ DOMAIN calls = 1 .. Len(calls)
           /\ \A k \in DOMAIN calls : /\ calls[k] \in Frames
                                     /\ calls[k].out \in Signatures
                                     /\ calls[k].inputs \in Seq(Signatures)
<1>1. /\ Len(calls) \in Nat /\ DOMAIN calls = 1 .. Len(calls)
      /\ \A k \in DOMAIN calls : calls[k] \in Frames
    OBVIOUS
<1> QED
    BY <1>1 DEF Frames

\* A call ends, or is left for one of its inputs.
LEMMA CallEnds ==
    ASSUME NEW reads, NEW ready,
           NEW calls \in Seq(Frames), calls # << >>, Calls(calls, reads, ready, {})
    PROVE  /\ Head(calls) \in Frames /\ Walked(Head(calls), reads, ready)
           /\ Tail(calls) \in Seq(Frames)
           /\ Calls(Tail(calls), reads, ready, {Head(calls).out})
           /\ Within(Head(calls).out, Tail(calls))
           /\ Outs(calls) = Outs(Tail(calls)) \cup {Head(calls).out}
<1> DEFINE f == Head(calls)
           rest == Tail(calls)
<1>1. /\ f \in Frames /\ rest \in Seq(Frames) /\ f = calls[1]
      /\ Len(calls) \in Nat \ {0} /\ Len(rest) = Len(calls) - 1
      /\ \A k \in 1 .. Len(calls) - 1 : rest[k] = calls[k + 1]
    OBVIOUS
<1>2. DOMAIN calls = 1 .. Len(calls) /\ DOMAIN rest = 1 .. Len(calls) - 1
    BY <1>1
<1> HIDE DEF f, rest
<1>3. 1 \in DOMAIN calls
    BY <1>1, <1>2
<1>4. Walked(f, reads, ready)
    <2>1. Walked(calls[1], reads, ready \cup {})
        BY <1>3 DEF Calls
    <2>2. ready \cup {} = ready
        OBVIOUS
    <2> QED
        BY <1>1, <2>1, <2>2
<1>5. \A k \in DOMAIN rest : k + 1 \in DOMAIN calls /\ rest[k] = calls[k + 1]
                              /\ k + 1 # 1 /\ (k + 1) - 1 = k /\ 1 < k + 1
    BY <1>1, <1>2
<1>6. ASSUME NEW k \in DOMAIN rest
      PROVE  Walked(rest[k], reads, ready \cup IF k = 1 THEN {f.out} ELSE {rest[k - 1].out})
    <2>1. Walked(calls[k + 1], reads, ready \cup {calls[k].out})
        BY <1>5 DEF Calls
    <2>2. calls[k].out = IF k = 1 THEN f.out ELSE rest[k - 1].out
        <3>1. CASE k = 1
            BY <1>1, <3>1
        <3>2. CASE k # 1
            <4>1. k - 1 \in DOMAIN rest /\ (k - 1) + 1 = k
                BY <1>1, <1>2, <3>2
            <4> QED
                BY <1>5, <3>2, <4>1
        <3> QED
            BY <3>1, <3>2
    <2> QED
        BY <1>5, <2>1, <2>2
<1>7. ASSUME NEW j \in DOMAIN rest, NEW k \in DOMAIN rest, j < k
      PROVE  Weight(rest[j].out) < Weight(rest[k].out)
    <2>1. j + 1 < k + 1
        BY <1>1, <1>2, <1>7
    <2> QED
        BY <1>5, <2>1 DEF Calls
<1>8. Within(f.out, rest)
    BY <1>1, <1>3, <1>5 DEF Calls, Within
<1>9. Outs(calls) = Outs(rest) \cup {f.out}
    <2>1. ASSUME NEW k \in DOMAIN calls
          PROVE  calls[k].out \in Outs(rest) \cup {f.out}
        <3>1. CASE k = 1
            BY <1>1, <3>1
        <3>2. CASE k # 1
            <4>1. k - 1 \in DOMAIN rest /\ (k - 1) + 1 = k
                BY <1>1, <1>2, <3>2
            <4> QED
                BY <1>5, <4>1 DEF Outs
        <3> QED
            BY <3>1, <3>2
    <2>2. ASSUME NEW k \in DOMAIN rest
          PROVE  rest[k].out \in Outs(calls)
        BY <1>5 DEF Outs
    <2>3. f.out \in Outs(calls)
        BY <1>1, <1>3 DEF Outs
    <2> QED
        BY ONLY <2>1, <2>2, <2>3 DEF Outs
<1> QED
    BY <1>1, <1>4, <1>6, <1>7, <1>8, <1>9 DEF Calls, f, rest

\* A call goes on to its next input.
LEMMA CallGoesOn ==
    ASSUME NEW reads, NEW ready,
           NEW calls \in Seq(Frames), calls # << >>, Calls(calls, reads, ready, {}),
           Head(calls).inputs # << >>,
           NEW out, out = Head(Head(calls).inputs),
           NEW rest, rest = OnTop([Head(calls) EXCEPT !.inputs = Tail(@)], Tail(calls))
    PROVE  /\ out \in Signatures /\ Relations(out) \subseteq reads
           /\ rest \in Seq(Frames) /\ Calls(rest, reads, ready, {out})
           /\ Within(out, rest)
           /\ Outs(rest) = Outs(calls)
<1> DEFINE f == Head(calls)
           g == [f EXCEPT !.inputs = Tail(@)]
           others == Tail(calls)
<1>1. /\ f \in Frames /\ Walked(f, reads, ready)
      /\ others \in Seq(Frames) /\ Calls(others, reads, ready, {f.out})
      /\ Within(f.out, others) /\ Outs(calls) = Outs(others) \cup {f.out}
    BY CallEnds
<1>2. rest = OnTop(g, others) /\ out = Head(f.inputs) /\ f.inputs # << >>
    OBVIOUS
<1> HIDE DEF f, others
<1>3. /\ f.out \in Signatures /\ f.inputs \in Seq(Signatures)
      /\ g \in Frames /\ g.out = f.out /\ g.inputs = Tail(f.inputs)
    <2>1. f.out \in Signatures /\ f.inputs \in Seq(Signatures)
        BY <1>1 DEF Frames
    <2>2. Tail(f.inputs) \in Seq(Signatures)
        BY <1>2, <2>1
    <2>3. g = [f EXCEPT !.inputs = Tail(f.inputs)]
        OBVIOUS
    <2> QED
        BY <1>1, <2>1, <2>2 DEF Frames
<1> HIDE DEF g
<1>4. ~ IsLeaf(f.out) /\ Relations(f.out) \subseteq reads
    BY <1>1 DEF Walked
<1> DEFINE i == Inputs(f.out)[1]
           j == Inputs(f.out)[2]
<1>5. /\ Inputs(f.out) = <<i, j>> /\ {i, j} \subseteq Signatures
      /\ Relations(f.out) = Relations(i) \cup Relations(j)
      /\ Weight(i) < Weight(f.out) /\ Weight(j) < Weight(f.out)
    <2>1. Inputs(f.out) = <<i, j>>
        BY <1>3, <1>4, OtherInputs
    <2>2. Inputs(f.out) \in Seq(Signatures) /\ Len(Inputs(f.out)) = 2
        BY <1>3, <1>4, OtherInputs
    <2>3. {i, j} \subseteq Signatures
        BY <2>2
    <2> QED
        BY <1>3, <1>4, <2>1, <2>3, OtherInputs
<1> HIDE DEF i, j
<1>6. \/ f.inputs = <<i, j>> /\ out = i /\ g.inputs = <<j>>
      \/ f.inputs = <<j>> /\ i \in ready /\ out = j /\ g.inputs = << >>
    <2>1. f.inputs = <<i, j>> \/ (f.inputs = <<j>> /\ i \in ready)
        BY <1>1, <1>2, <1>5 DEF Walked, i, j
    <2>2. Head(<<i, j>>) = i /\ Tail(<<i, j>>) = <<j>> /\ Head(<<j>>) = j /\ Tail(<<j>>) = << >>
        OBVIOUS
    <2> QED
        BY <1>2, <1>3, <2>1, <2>2
<1>7. /\ out \in Signatures /\ Relations(out) \subseteq reads /\ Weight(out) < Weight(f.out)
    BY <1>4, <1>5, <1>6
<1>8. Walked(g, reads, ready \cup {out})
    BY <1>3, <1>4, <1>6 DEF Walked, i, j
<1> DEFINE own == {f.out}
           one == {out}
           around == ready \cup one
<1>9. /\ Calls(others, reads, ready, own) /\ Within(f.out, others) /\ own = {f.out}
      /\ Walked(g, reads, around) /\ around \subseteq ready \cup one
    BY <1>1, <1>8
<1> HIDE DEF own, one, around
<1>12. Calls(OnTop(g, others), reads, ready, one)
    BY ONLY <1>1, <1>3, <1>9, CallOnTop
<1>13. /\ OnTop(g, others) \in Seq(Frames)
       /\ Outs(OnTop(g, others)) = Outs(others) \cup {g.out}
       /\ OnTop(g, others)[1] = g
       /\ \A k \in DOMAIN OnTop(g, others) :
             k # 1 => k - 1 \in DOMAIN others /\ OnTop(g, others)[k] = others[k - 1]
    <2>1. g \in Frames /\ others \in Seq(Frames)
        BY <1>1, <1>3
    <2>2. OnTop(g, others) \in Seq(Frames) /\ OnTop(g, others)[1] = g
        BY ONLY <2>1, TopIs
    <2>3. Outs(OnTop(g, others)) = Outs(others) \cup {g.out}
        BY ONLY <2>1, TopIs
    <2>4. ASSUME NEW k \in DOMAIN OnTop(g, others), k # 1
          PROVE  k - 1 \in DOMAIN others /\ OnTop(g, others)[k] = others[k - 1]
        BY ONLY <2>1, <2>4, TopIs
    <2> QED
        BY ONLY <2>2, <2>3, <2>4
<1>10. /\ Calls(rest, reads, ready, {out}) /\ rest \in Seq(Frames)
       /\ Outs(rest) = Outs(others) \cup {f.out}
       /\ \A k \in DOMAIN rest : rest[k] = g \/ \E m \in DOMAIN others : rest[k] = others[m]
    BY <1>2, <1>3, <1>12, <1>13 DEF one
<1>11. Within(out, rest)
    <2>1. ASSUME NEW k \in DOMAIN rest
          PROVE  Weight(out) < Weight(rest[k].out)
        <3>1. rest[k] = g \/ \E m \in DOMAIN others : rest[k] = others[m]
            BY <1>2, <1>10
        <3>2. CASE rest[k] = g
            BY <1>3, <1>7, <3>2
        <3>3. ASSUME NEW m \in DOMAIN others, rest[k] = others[m]
              PROVE  Weight(out) < Weight(rest[k].out)
            <4>1. Weight(f.out) < Weight(others[m].out)
                BY <1>1 DEF Within
            <4>2. others[m].out \in Signatures
                BY <1>1, FrameIs
            <4>3. Weight(out) \in Nat /\ Weight(f.out) \in Nat /\ Weight(others[m].out) \in Nat
                BY <1>3, <1>7, <4>2, SignatureIs
            <4> QED
                BY <1>7, <3>3, <4>1, <4>3
        <3> QED
            BY <3>1, <3>2, <3>3
    <2> QED
        BY <2>1 DEF Within
<1> QED
    BY <1>1, <1>7, <1>10, <1>11 DEF f, others

\* What the state of the plan comes to, whatever the call did.
LEMMA PlanGrows ==
    ASSUME DataflowInv, stage = "plan",
           UNCHANGED <<strataVars, stage, facts, group, at, made, prior, inner>>,
           planned' \in Plans, walking' \in Seq(Frames),
           Pending \subseteq Planned' \cup Pending',
           Planned \subseteq Planned', planned.enters \subseteq planned'.enters,
           \A o \in planned'.seen :
              o \in planned.seen \/ (~ IsRecursive /\ o \in Planned' \cup Pending'),
           \A o \in planned'.nested :
              o \in planned.nested \/ (IsRecursive /\ o \in Planned' \cup Pending'),
           IsRecursive => planned'.enters \subseteq DOMAIN made \cup HeadAtoms
    PROVE  /\ Types' /\ Progress' /\ Sharing' /\ Entering'
           /\ Source \subseteq Source' /\ Ready \subseteq Ready'
<1>1. /\ GroupRules' = GroupRules /\ IsRecursive' = IsRecursive
      /\ HeadAtoms' = HeadAtoms /\ Present' = Present
      /\ Signatures' = Signatures /\ Frames' = Frames /\ Plans' = Plans
      /\ Layers!Layered' <=> Layers!Layered
    BY SameGroup
<1>2. UNCHANGED <<program, phase, strata, stage, facts, group, at, made, prior, inner>>
    BY DEF strataVars
<1>3. Types /\ Progress /\ Sharing /\ Entering /\ UnderWay /\ UnderWay'
    BY <1>2 DEF DataflowInv, UnderWay
<1>4. IsRecursive \in BOOLEAN
    BY <1>3, GroupIs
<1>5. Types'
    BY <1>1, <1>2, <1>3 DEF Types
<1>6. Progress'
    BY <1>1, <1>2, <1>3 DEF Progress
<1>7. Sharing'
    <2>1. planned.seen \subseteq DOMAIN made \cup (IF ~ IsRecursive THEN Planned \cup Pending ELSE {})
        BY <1>3 DEF Sharing
    <2>2. planned.nested \subseteq IF IsRecursive THEN Planned \cup Pending ELSE {}
        BY <1>3 DEF Sharing
    <2>3. planned'.seen \subseteq DOMAIN made \cup (IF ~ IsRecursive THEN Planned' \cup Pending' ELSE {})
        BY <2>1
    <2>4. planned'.nested \subseteq IF IsRecursive THEN Planned' \cup Pending' ELSE {}
        BY <2>2
    <2> QED
        BY <1>1, <1>2, <1>3, <2>3, <2>4 DEF Sharing
<1>8. Entering'
    BY <1>1, <1>2 DEF Entering
<1>9. Source \subseteq Source'
    BY <1>1, <1>2 DEF Source
<1> QED
    BY <1>5, <1>6, <1>7, <1>8, <1>9 DEF Ready

\* What is read by an operator of the plan still is, and the plan may have
\* one more that reads what is ready.
LEMMA InOrderGrows ==
    ASSUME InOrder, Source \subseteq Source', planned \in Plans,
           NEW out \in Signatures,
           \/ planned'.plan = planned.plan
           \/ /\ planned'.plan = Append(planned.plan, out)
              /\ ToSet(Inputs(out)) \subseteq Source' \cup Planned
    PROVE  InOrder'
<1> DEFINE p == planned.plan
           q == planned'.plan
<1>1. p \in Seq(Signatures)
    BY DEF Plans
<1>2. \A i \in DOMAIN p : ToSet(Inputs(p[i])) \subseteq Source \cup {p[j] : j \in 1 .. i - 1}
    BY DEF InOrder
<1>3. CASE q = p
    BY <1>2, <1>3 DEF InOrder
<1>4. CASE q = Append(p, out) /\ ToSet(Inputs(out)) \subseteq Source' \cup Planned
    <2>1. Planned = {p[j] : j \in 1 .. Len(p)}
        BY <1>1, ToSetIs DEF Planned
    <2> HIDE DEF p
    <2>2. /\ Len(p) \in Nat /\ DOMAIN p = 1 .. Len(p) /\ DOMAIN q = 1 .. Len(p) + 1
          /\ \A j \in 1 .. Len(p) : q[j] = p[j]
          /\ q[Len(p) + 1] = out
        BY <1>1, <1>4
    <2> HIDE DEF q
    <2>3. ASSUME NEW i \in DOMAIN q
          PROVE  ToSet(Inputs(q[i])) \subseteq Source' \cup {q[j] : j \in 1 .. i - 1}
        <3>1. i \in 1 .. Len(p) + 1
            BY <2>2
        <3>2. \A j \in 1 .. i - 1 : j \in 1 .. Len(p) /\ q[j] = p[j]
            BY <2>2, <3>1
        <3>3. {q[j] : j \in 1 .. i - 1} = {p[j] : j \in 1 .. i - 1}
            BY <3>2
        <3>4. CASE i = Len(p) + 1
            <4>1. i - 1 = Len(p)
                BY <2>2, <3>4
            <4> QED
                BY <1>4, <2>1, <2>2, <3>3, <3>4, <4>1
        <3>5. CASE i # Len(p) + 1
            <4>1. i \in DOMAIN p /\ q[i] = p[i]
                BY <2>2, <3>1, <3>5
            <4> QED
                BY <1>2, <3>3, <4>1
        <3> QED
            BY <3>4, <3>5
    <2> QED
        BY <2>3 DEF InOrder, q
<1> QED
    BY <1>3, <1>4

\* A call, when what is around it is as it should be.
LEMMA ConstructKeeps ==
    ASSUME DataflowInv, stage = "plan",
           UNCHANGED <<strataVars, stage, facts, group, at, made, prior, inner>>,
           NEW out \in Signatures, Relations(out) \subseteq ReadBy(GroupRules),
           NEW rest \in Seq(Frames), Calls(rest, ReadBy(GroupRules), Ready, {out}),
           Within(out, rest),
           Pending = Outs(rest),
           Construct(out, rest)
    PROVE  /\ Types' /\ Progress' /\ Sharing' /\ InOrder' /\ Entering'
           /\ Calls(walking', ReadBy(GroupRules), Ready', {})
           /\ Ready \subseteq Ready' /\ Pending \subseteq Pending'
           /\ out \in Ready' \cup Pending'
<1> DEFINE reads == ReadBy(GroupRules)
<1>1. /\ GroupRules' = GroupRules /\ IsRecursive' = IsRecursive /\ HeadAtoms' = HeadAtoms
    BY SameGroup
<1>2. Types /\ Progress /\ Sharing /\ InOrder /\ Entering /\ UnderWay
    BY DEF DataflowInv, UnderWay
<1>3. IsRecursive \in BOOLEAN
    BY <1>2, GroupIs
<1>4. planned \in Plans /\ walking \in Seq(Frames)
    BY <1>2 DEF Types
<1>5. out \notin Pending
    <2>1. ASSUME NEW k \in DOMAIN rest, out = rest[k].out
          PROVE  FALSE
        <3>1. Weight(out) < Weight(rest[k].out) /\ Weight(out) \in Nat
            BY SignatureIs DEF Within
        <3> QED
            BY <2>1, <3>1
    <2> QED
        BY <2>1 DEF Outs
<1>6. CASE out \in planned.seen \cup planned.nested
    <2>1. /\ walking' = rest
          /\ planned' = IF out \in planned.seen THEN [planned EXCEPT !.enters = @ \cup {out}]
                        ELSE planned
        BY <1>6 DEF Construct
    <2>2. /\ planned' \in Plans /\ planned'.plan = planned.plan
          /\ planned'.seen = planned.seen /\ planned'.nested = planned.nested
          /\ planned'.enters = planned.enters \cup IF out \in planned.seen THEN {out} ELSE {}
        BY <1>4, <2>1 DEF Plans
    <2>3. Planned' = Planned /\ Pending' = Pending
        BY <2>1, <2>2 DEF Planned, Pending
    <2>4. IsRecursive => planned.seen \subseteq DOMAIN made
        BY <1>2 DEF Sharing
    <2>5. IsRecursive => planned'.enters \subseteq DOMAIN made \cup HeadAtoms
        BY <1>2, <2>2, <2>4 DEF Entering
    <2>6. /\ Types' /\ Progress' /\ Sharing' /\ Entering'
          /\ Source \subseteq Source' /\ Ready \subseteq Ready'
        BY <2>1, <2>2, <2>3, <2>5, PlanGrows
    <2>7. InOrder'
        BY <1>2, <1>4, <2>2, <2>6, InOrderGrows
    <2>8. out \in Ready'
        <3>1. CASE out \in planned.seen
            <4>1. CASE IsRecursive
                BY <1>1, <2>2, <3>1, <4>1 DEF Ready, Source
            <4>2. CASE ~ IsRecursive
                <5>1. out \in DOMAIN made \cup Planned
                    BY <1>2, <1>5, <3>1, <4>2 DEF Sharing
                <5> QED
                    BY <2>6, <4>2, <5>1 DEF Ready, Source
            <4> QED
                BY <1>3, <4>1, <4>2
        <3>2. CASE out \in planned.nested
            BY <1>2, <1>5, <2>6, <3>2 DEF Sharing, Ready
        <3> QED
            BY <1>6, <3>1, <3>2
    <2>9. Calls(walking', reads, Ready', {})
        <3> DEFINE now == Ready
                   then == Ready'
        <3>1. now \subseteq then /\ out \in then /\ Calls(rest, reads, now, {out})
            BY <2>6, <2>8
        <3> HIDE DEF now, then, reads
        <3>2. Calls(rest, reads, then, {})
            BY <3>1, CallReturns
        <3> QED
            BY <2>1, <3>2 DEF then
    <2> QED
        BY <2>3, <2>6, <2>7, <2>8, <2>9
<1>7. CASE out \notin planned.seen \cup planned.nested /\ IsLeaf(out)
    <2> DEFINE a == out[2][1]
    <2>1. /\ walking' = rest
          /\ planned' = [Marked(out) EXCEPT !.plan = Append(@, out),
                                            !.enters = @ \cup ToSet(Inputs(out))]
        BY <1>7 DEF Construct
    <2>2. ToSet(Inputs(out)) = {Atom(a)} /\ a \in Names /\ Relations(out) = {a}
        BY <1>7, LeafInputs
    <2> HIDE DEF a
    <2>3. /\ planned' \in Plans /\ planned'.plan = Append(planned.plan, out)
          /\ planned'.seen \subseteq planned.seen \cup IF IsRecursive THEN {} ELSE {out}
          /\ planned'.nested \subseteq planned.nested \cup IF IsRecursive THEN {out} ELSE {}
          /\ planned'.enters = planned.enters \cup {Atom(a)}
        <3> DEFINE m == Marked(out)
        <3>1. /\ m \in Plans /\ m.plan = planned.plan /\ m.enters = planned.enters
              /\ m.seen \subseteq planned.seen \cup IF IsRecursive THEN {} ELSE {out}
              /\ m.nested \subseteq planned.nested \cup IF IsRecursive THEN {out} ELSE {}
            BY <1>4 DEF Plans, Marked
        <3> HIDE DEF m
        <3>2. planned' = [m EXCEPT !.plan = Append(@, out), !.enters = @ \cup {Atom(a)}]
            BY <2>1, <2>2 DEF m
        <3>3. /\ planned'.plan = Append(m.plan, out)
              /\ planned'.seen = m.seen /\ planned'.nested = m.nested
              /\ planned'.enters = m.enters \cup {Atom(a)}
            BY <3>1, <3>2 DEF Plans
        <3>4. planned' \in Plans
            <4> DEFINE p == Append(m.plan, out)
                       e == m.enters \cup {Atom(a)}
            <4>1. p \in Seq(Signatures)
                <5>1. m.plan \in Seq(Signatures)
                    BY <3>1 DEF Plans
                <5> QED
                    BY <5>1
            <4>2. e \in SUBSET (Signatures \cup {Atom(n) : n \in Names})
                BY <2>2, <3>1 DEF Plans
            <4>3. planned' = [m EXCEPT !.plan = p, !.enters = e]
                BY <3>2
            <4> HIDE DEF p, e
            <4> QED
                BY <3>1, <4>1, <4>2, <4>3 DEF Plans
        <3> QED
            BY <3>1, <3>3, <3>4
    <2>4. Planned' = Planned \cup {out} /\ Pending' = Pending
        <3>1. planned.plan \in Seq(Signatures)
            BY <1>4 DEF Plans
        <3>2. ToSet(Append(planned.plan, out)) = ToSet(planned.plan) \cup {out}
            BY <3>1, ToSetAppend
        <3> QED
            BY <2>1, <2>3, <3>2 DEF Planned, Pending
    <2>5. Atom(a) \in DOMAIN made \/ (IsRecursive /\ Atom(a) \in HeadAtoms)
        BY <1>2, <2>2, ReadIsPresent
    <2>6. IsRecursive => planned'.enters \subseteq DOMAIN made \cup HeadAtoms
        BY <1>2, <2>3, <2>5 DEF Entering
    <2>7. /\ Types' /\ Progress' /\ Sharing' /\ Entering'
          /\ Source \subseteq Source' /\ Ready \subseteq Ready'
        <3>1. \A o \in planned'.seen : o \in planned.seen \/ (~ IsRecursive /\ o \in Planned' \cup Pending')
            BY <2>3, <2>4
        <3>2. \A o \in planned'.nested : o \in planned.nested \/ (IsRecursive /\ o \in Planned' \cup Pending')
            BY <2>3, <2>4
        <3> QED
            BY <2>1, <2>3, <2>4, <2>6, <3>1, <3>2, PlanGrows
    <2>8. Atom(a) \in Source'
        <3>1. CASE IsRecursive
            BY <1>1, <2>3, <3>1 DEF Source
        <3>2. CASE ~ IsRecursive
            BY <2>5, <2>7, <3>2 DEF Source
        <3> QED
            BY <1>3, <3>1, <3>2
    <2>9. InOrder'
        BY <1>2, <1>4, <2>2, <2>3, <2>7, <2>8, InOrderGrows
    <2>10. out \in Ready'
        BY <2>4 DEF Ready
    <2>11. Calls(walking', reads, Ready', {})
        <3> DEFINE now == Ready
                   then == Ready'
        <3>1. now \subseteq then /\ out \in then /\ Calls(rest, reads, now, {out})
            BY <2>7, <2>10
        <3> HIDE DEF now, then, reads
        <3>2. Calls(rest, reads, then, {})
            BY <3>1, CallReturns
        <3> QED
            BY <2>1, <3>2 DEF then
    <2> QED
        BY <2>4, <2>7, <2>9, <2>10, <2>11
<1>8. CASE out \notin planned.seen \cup planned.nested /\ ~ IsLeaf(out)
    <2>1. /\ walking' = <<[out |-> out, inputs |-> Inputs(out)]>> \o rest
          /\ planned' = Marked(out)
        BY <1>8 DEF Construct
    <2>2. /\ planned' \in Plans /\ planned'.plan = planned.plan
          /\ planned'.seen \subseteq planned.seen \cup IF IsRecursive THEN {} ELSE {out}
          /\ planned'.nested \subseteq planned.nested \cup IF IsRecursive THEN {out} ELSE {}
          /\ planned'.enters = planned.enters
        BY <1>4, <2>1 DEF Plans, Marked
    <2>3. Planned' = Planned
        BY <2>2 DEF Planned
    <2>4. IsRecursive => planned'.enters \subseteq DOMAIN made \cup HeadAtoms
        BY <1>2, <2>2 DEF Entering
    <2>5. Ready \subseteq Ready'
        <3>1. made' = made
            OBVIOUS
        <3> QED
            BY <1>1, <2>2, <2>3, <3>1 DEF Ready, Source
    <2>6. /\ Calls(walking', reads, Ready', {})
          /\ walking' \in Seq(Frames)
          /\ Pending' = Outs(rest) \cup {out}
        <3> DEFINE now == Ready
                   then == Ready'
        <3>1. now \subseteq then /\ Calls(rest, reads, now, {out}) /\ Relations(out) \subseteq reads
            BY <2>5
        <3>2. walking' = Started(out, rest)
            BY <2>1 DEF Started, OnTop
        <3> HIDE DEF now, then, reads
        <3>3. /\ Calls(walking', reads, now, {})
              /\ walking' \in Seq(Frames)
              /\ Outs(walking') = Outs(rest) \cup {out}
            BY <1>8, <3>1, <3>2, CallStarts
        <3>4. Calls(walking', reads, then, {})
            BY <3>1, <3>3, CallsGrow
        <3> QED
            BY <3>3, <3>4 DEF then, Pending
    <2>7. Pending' = Pending \cup {out}
        BY <2>6
    <2>8. /\ Types' /\ Progress' /\ Sharing' /\ Entering'
          /\ Source \subseteq Source' /\ Ready \subseteq Ready'
        <3>1. \A o \in planned'.seen : o \in planned.seen \/ (~ IsRecursive /\ o \in Planned' \cup Pending')
            BY <2>2, <2>7
        <3>2. \A o \in planned'.nested : o \in planned.nested \/ (IsRecursive /\ o \in Planned' \cup Pending')
            BY <2>2, <2>7
        <3> QED
            BY <2>2, <2>3, <2>4, <2>6, <2>7, <3>1, <3>2, PlanGrows
    <2>9. InOrder'
        BY <1>2, <1>4, <2>2, <2>8, InOrderGrows
    <2> QED
        BY <2>6, <2>7, <2>8, <2>9
<1> QED
    BY <1>6, <1>7, <1>8
\* What is left to show of a step of the planning.
LEMMA PlanningKeeps ==
    ASSUME DataflowInv, stage = "plan",
           UNCHANGED <<strataVars, stage, facts, group, at, made, prior, inner>>,
           Types', Progress', Sharing', InOrder', Entering',
           Calls(walking', ReadBy(GroupRules), Ready', {}),
           Ready \subseteq Ready', Pending \subseteq Pending' \cup Ready',
           left' \subseteq left,
           \A r \in left \ left' : Root(r) \in Ready' \cup Pending'
    PROVE  DataflowInv'
<1>1. /\ GroupRules' = GroupRules
      /\ \A r : Root(r)' = Root(r)
      /\ \A rs : ReadBy(rs)' = ReadBy(rs)
    BY SameGroup
<1>2. Lasts
    BY DEF DataflowInv, UnderWay
<1>3. ASSUME NEW r \in GroupRules \ left'
      PROVE  Root(r) \in Ready' \cup Pending'
    <2>1. CASE r \in left
        BY <2>1
    <2>2. CASE r \notin left
        BY <1>2, <2>2 DEF Lasts
    <2> QED
        BY <2>1, <2>2
<1>4. left' \subseteq GroupRules
    BY <1>2 DEF Lasts
<1>5. Lasts'
    BY <1>1, <1>3, <1>4 DEF Lasts
<1>6. stage' = "plan" /\ UnderWay'
    BY DEF UnderWay
<1>7. Calls(walking', ReadBy(GroupRules)', Ready', {})
    BY <1>1
<1> QED
    BY <1>5, <1>6, <1>7 DEF DataflowInv

LEMMA PlanRuleKeeps ==
    ASSUME DataflowInv, NEW r \in Rules, PlanRule(r)
    PROVE  DataflowInv'
<1> DEFINE reads == ReadBy(GroupRules)
           none == << >>
           out == Root(r)
<1>1. /\ stage = "plan" /\ walking = << >> /\ r \in left /\ left' = left \ {r}
      /\ Construct(Root(r), << >>)
      /\ UNCHANGED <<strataVars, stage, facts, group, at, made, prior, inner>>
    BY DEF PlanRule
<1>2. Types /\ Progress /\ UnderWay /\ Lasts /\ program \in Programs
    BY <1>1 DEF DataflowInv, UnderWay, Types
<1>3. r \in GroupRules
    BY <1>1, <1>2 DEF Lasts
<1>4. out \in Signatures /\ Relations(out) \subseteq reads
    BY <1>2, <1>3, RuleIs DEF ReadBy
<1>5. none \in Seq(Frames) /\ DOMAIN none = {}
    OBVIOUS
<1>6. Calls(none, reads, Ready, {out}) /\ Within(out, none) /\ Outs(none) = {}
    BY <1>5 DEF Calls, Within, Outs
<1>7. Pending = Outs(none)
    BY <1>1 DEF Pending
<1>8. Construct(out, none)
    BY <1>1
<1> HIDE DEF none, out, reads
<1>9. /\ Types' /\ Progress' /\ Sharing' /\ InOrder' /\ Entering'
      /\ Calls(walking', reads, Ready', {})
      /\ Ready \subseteq Ready' /\ Pending \subseteq Pending'
      /\ out \in Ready' \cup Pending'
    BY <1>1, <1>4, <1>5, <1>6, <1>7, <1>8, ConstructKeeps DEF reads
<1>10. left' \subseteq left /\ \A s \in left \ left' : Root(s) \in Ready' \cup Pending'
    BY <1>1, <1>9 DEF out
<1> QED
    BY <1>1, <1>9, <1>10, PlanningKeeps DEF reads

\* The recursion runs while a rule is planned, and only then.
LEMMA WalkingIsPlanning ==
    ASSUME DataflowInv, walking # << >>
    PROVE  stage = "plan"
BY DEF DataflowInv, Types, Progress, UnderWay, Operating

LEMMA PlanInputKeeps ==
    ASSUME DataflowInv, PlanInput
    PROVE  DataflowInv'
<1> DEFINE reads == ReadBy(GroupRules)
           rest == OnTop([Head(walking) EXCEPT !.inputs = Tail(@)], Tail(walking))
           out == Head(Head(walking).inputs)
           now == Ready
           calls == walking
<1>1. /\ walking # << >> /\ Head(walking).inputs # << >>
      /\ Construct(out, rest)
      /\ UNCHANGED <<strataVars, stage, facts, group, left, at, made, prior, inner>>
    BY DEF PlanInput, OnTop
<1>2. stage = "plan"
    BY <1>1, WalkingIsPlanning
<1>3. /\ calls \in Seq(Frames) /\ Calls(calls, reads, now, {})
      /\ calls # << >> /\ Head(calls).inputs # << >>
      /\ out = Head(Head(calls).inputs)
      /\ rest = OnTop([Head(calls) EXCEPT !.inputs = Tail(@)], Tail(calls))
    BY <1>1, <1>2 DEF DataflowInv, Types
<1>4. Pending = Outs(calls)
    BY DEF Pending
<1> HIDE DEF reads, rest, out, now, calls
<1>5. /\ out \in Signatures /\ Relations(out) \subseteq reads
      /\ rest \in Seq(Frames) /\ Calls(rest, reads, now, {out})
      /\ Within(out, rest) /\ Outs(rest) = Outs(calls)
    BY <1>3, CallGoesOn
<1>6. Pending = Outs(rest)
    BY <1>4, <1>5
<1>7. /\ Types' /\ Progress' /\ Sharing' /\ InOrder' /\ Entering'
      /\ Calls(walking', reads, Ready', {})
      /\ Ready \subseteq Ready' /\ Pending \subseteq Pending'
    BY <1>1, <1>2, <1>5, <1>6, ConstructKeeps DEF reads, now
<1>8. left' = left
    BY <1>1
<1> QED
    BY <1>1, <1>2, <1>7, <1>8, PlanningKeeps DEF reads

LEMMA PlanOutputKeeps ==
    ASSUME DataflowInv, PlanOutput
    PROVE  DataflowInv'
<1> DEFINE reads == ReadBy(GroupRules)
           f == Head(walking)
           out == f.out
           rest == Tail(walking)
           now == Ready
           then == Ready'
<1>1. /\ walking # << >> /\ f.inputs = << >>
      /\ planned' = [planned EXCEPT !.plan = Append(@, out)]
      /\ walking' = rest
      /\ UNCHANGED <<strataVars, stage, facts, group, left, at, made, prior, inner>>
    BY DEF PlanOutput
<1>2. stage = "plan"
    BY <1>1, WalkingIsPlanning
<1>3. Types /\ Progress /\ Sharing /\ InOrder /\ Entering /\ UnderWay
    BY <1>2 DEF DataflowInv, UnderWay
<1>4. /\ planned \in Plans /\ walking \in Seq(Frames) /\ walking # << >>
      /\ Calls(walking, reads, now, {})
    BY <1>1, <1>2, <1>3 DEF DataflowInv, Types
<1>5. Pending = Outs(walking) /\ Pending' = Outs(walking')
    BY DEF Pending
<1> HIDE DEF reads, f, rest, now, then
<1>6. /\ f \in Frames /\ Walked(f, reads, now) /\ rest \in Seq(Frames)
      /\ Calls(rest, reads, now, {f.out}) /\ Outs(walking) = Outs(rest) \cup {f.out}
    BY <1>4, CallEnds DEF f, rest
<1>7. out \in Signatures
    BY <1>6 DEF Frames
<1> HIDE DEF out
<1>8. ToSet(Inputs(out)) \subseteq now
    <2>1. ~ IsLeaf(out) /\ (f.inputs = << >> => {Inputs(out)[1], Inputs(out)[2]} \subseteq now)
        <3>1. /\ ~ IsLeaf(out)
              /\ \/ f.inputs = Inputs(out)
                 \/ f.inputs = <<Inputs(out)[2]>>
                 \/ {Inputs(out)[1], Inputs(out)[2]} \subseteq now
            BY <1>6 DEF Walked, out
        <3>2. Len(Inputs(out)) = 2
            BY <1>7, <3>1, OtherInputs
        <3>3. Inputs(out) # << >> /\ <<Inputs(out)[2]>> # << >>
            BY <3>2
        <3> QED
            BY <3>1, <3>3
    <2> QED
        BY <1>1, <1>7, <2>1, OtherInputs
<1>9. /\ planned' \in Plans /\ planned'.plan = Append(planned.plan, out)
      /\ planned'.seen = planned.seen /\ planned'.nested = planned.nested
      /\ planned'.enters = planned.enters
    <2>1. Append(planned.plan, out) \in Seq(Signatures)
        <3>1. planned.plan \in Seq(Signatures)
            BY <1>4 DEF Plans
        <3> QED
            BY <1>7, <3>1
    <2>2. planned' = [planned EXCEPT !.plan = Append(planned.plan, out)]
        BY <1>1
    <2> QED
        BY <1>4, <2>1, <2>2 DEF Plans
<1>10. Planned' = Planned \cup {out}
    <2>1. planned.plan \in Seq(Signatures)
        BY <1>4 DEF Plans
    <2>2. ToSet(Append(planned.plan, out)) = ToSet(planned.plan) \cup {out}
        BY <1>7, <2>1, ToSetAppend
    <2> QED
        BY <1>9, <2>2 DEF Planned
<1>11. Pending \subseteq Planned' \cup Pending'
    BY <1>1, <1>5, <1>6, <1>10 DEF out
<1>12. /\ Types' /\ Progress' /\ Sharing' /\ Entering'
       /\ Source \subseteq Source' /\ Ready \subseteq Ready'
    <2>1. IsRecursive => planned'.enters \subseteq DOMAIN made \cup HeadAtoms
        BY <1>3, <1>9 DEF Entering
    <2>2. walking' \in Seq(Frames)
        BY <1>1, <1>6
    <2>3. Planned \subseteq Planned' /\ planned.enters \subseteq planned'.enters
        BY <1>9, <1>10
    <2>4. /\ \A o \in planned'.seen : o \in planned.seen
          /\ \A o \in planned'.nested : o \in planned.nested
        BY <1>9
    <2> QED
        BY <1>1, <1>2, <1>9, <1>11, <2>1, <2>2, <2>3, <2>4, PlanGrows
<1>13. InOrder'
    <2>1. ToSet(Inputs(out)) \subseteq Source' \cup Planned
        BY <1>8, <1>12 DEF now, Ready
    <2> QED
        BY <1>3, <1>4, <1>7, <1>9, <1>12, <2>1, InOrderGrows
<1>14. Calls(walking', reads, then, {})
    <2>1. now \subseteq then /\ out \in then
        BY <1>10, <1>12 DEF now, then, Ready
    <2>2. Calls(rest, reads, now, {out})
        BY <1>6 DEF out
    <2>3. Calls(rest, reads, then, {})
        BY <2>1, <2>2, CallReturns
    <2> QED
        BY <1>1, <2>3
<1>15. Pending \subseteq Pending' \cup Ready' /\ left' = left
    BY <1>1, <1>11 DEF Ready
<1> QED
    BY <1>1, <1>2, <1>12, <1>13, <1>14, <1>15, PlanningKeeps DEF reads, then
-----------------------------------------------------------------------------
(* Groups *)

LEMMA AtomsAreApart ==
    ASSUME NEW a
    PROVE  Atom(a) \notin Signatures
<1>1. Atom(a)[1] = "atom"
    BY DEF Atom
<1> QED
    BY <1>1, SignatureIs

LEMMA InitKeeps ==
    ASSUME Init
    PROVE  DataflowInv
<1>1. Layers!StratificationInv
    BY LayersInit DEF Init
<1>2. program \in Programs
    BY DEF Init, Strata!Init
<1>3. planned \in Plans /\ planned.seen = {} /\ planned.nested = {}
    <2>1. << >> \in Seq(Signatures)
        OBVIOUS
    <2> QED
        BY <2>1 DEF Init, Plans
<1>4. walking \in Seq(Frames) /\ walking = << >> /\ stage = "stratify" /\ group = 0
    BY DEF Init
<1> QED
    BY <1>1, <1>2, <1>3, <1>4 DEF DataflowInv, Types, Progress, Sharing, UnderWay

LEMMA StratifyKeeps ==
    ASSUME DataflowInv, Stratify
    PROVE  DataflowInv'
<1>1. /\ stage = "stratify" /\ Strata!Next
      /\ UNCHANGED <<stage, facts, group, left, walking, planned, at, made, prior, inner>>
    BY DEF Stratify
<1>2. /\ Types /\ Layers!StratificationInv /\ planned.seen = {} /\ planned.nested = {}
      /\ walking = << >> /\ group = 0
    BY <1>1 DEF DataflowInv, Progress, Sharing, UnderWay
<1>3. Layers!StratificationInv'
    BY <1>1, <1>2, LayersNext
<1>4. program' = program
    BY <1>1 DEF Strata!Next, Strata!Visit, Strata!Finish, Strata!Grow, Strata!Start, Strata!Components,
                Strata!MergeRound, Strata!Merged, Strata!Ordered, Strata!vars
<1>5. Plans' = Plans /\ Frames' = Frames
    BY <1>4 DEF Plans, Frames, Signatures, Bodies, Names
<1> QED
    BY <1>1, <1>2, <1>3, <1>4, <1>5 DEF DataflowInv, Types, Progress, Sharing, UnderWay

\* The next group starts with what is in the maps.
LEMMA NextGroupKeeps ==
    ASSUME Layers!Layered, phase = "done", UNCHANGED strataVars, program \in Programs,
           planned \in Plans, facts' \in Databases, group \in 0 .. Len(strata), NextGroup,
           planned.seen \subseteq DOMAIN made',
           DOMAIN made' \ Signatures =
              {Atom(a) : a \in DOMAIN facts' \cup
                  {program.head[r] : r \in UNION {strata[j].rules : j \in 1 .. group}}}
    PROVE  DataflowInv'
<1> DEFINE Stratum == [rules : SUBSET Rules, recursive : BOOLEAN]
<1>1. UNCHANGED <<program, phase, strata>>
    BY DEF strataVars
<1>2. strata \in Seq(Stratum)
    BY DEF Layers!Layered
<1>3. Len(strata) \in Nat /\ group \in Nat /\ group + 1 \in 1 .. Len(strata) + 1 /\ (group + 1) - 1 = group
    <2> HIDE DEF Stratum
    <2>1. Len(strata) \in Nat
        BY <1>2
    <2> QED
        BY <2>1
<1>4. /\ group' = group + 1 /\ walking' = << >> /\ at' = 1
      /\ stage' = "done" <=> group = Len(strata)
      /\ stage' \in {"plan", "done"}
      /\ stage' = "plan" => left' = strata[group + 1].rules
      /\ planned' = [planned EXCEPT !.plan = << >>, !.nested = {}, !.enters = {}]
    BY DEF NextGroup
<1>5. Signatures' = Signatures /\ Frames' = Frames /\ Plans' = Plans
    BY <1>1 DEF Signatures, Bodies, Names, Frames, Plans
<1>6. /\ planned' \in Plans /\ planned'.plan = << >> /\ planned'.seen = planned.seen
      /\ planned'.nested = {} /\ planned'.enters = {}
    <2>1. << >> \in Seq(Signatures)
        OBVIOUS
    <2> QED
        BY <1>4, <2>1 DEF Plans
<1>7. Types'
    BY <1>1, <1>4, <1>5, <1>6 DEF Types
<1>8. Layers!Layered'
    BY <1>1 DEF Layers!Layered, Layers!DependsOn, Layers!Negates
<1>9. Present' = DOMAIN facts' \cup
                 {program.head[r] : r \in UNION {strata[j].rules : j \in 1 .. group}}
    BY <1>1, <1>3, <1>4 DEF Present, Earlier
<1>10. Progress'
    <2>1. stage' # "stratify" /\ (stage' = "done" <=> group' = Len(strata') + 1)
        BY <1>1, <1>3, <1>4
    <2>2. group' \in 1 .. Len(strata') + 1
        BY <1>1, <1>3, <1>4
    <2>3. DOMAIN made' \ Signatures' = {Atom(a) : a \in Present'}
        BY <1>5, <1>9
    <2> QED
        BY <1>1, <1>4, <1>8, <2>1, <2>2, <2>3 DEF Progress
<1>11. Sharing'
    BY <1>6 DEF Sharing
<1>12. InOrder' /\ Entering'
    <2>1. DOMAIN planned'.plan = {}
        BY <1>6
    <2> QED
        BY <1>6, <2>1 DEF InOrder, Entering
<1>13. stage' = "plan" => Lasts'
    BY <1>1, <1>4 DEF Lasts, GroupRules
<1>14. Calls(walking', ReadBy(GroupRules)', Ready', {})
    <2>1. DOMAIN walking' = {}
        BY <1>4
    <2> QED
        BY <2>1 DEF Calls
<1> QED
    BY <1>4, <1>7, <1>10, <1>11, <1>12, <1>13, <1>14 DEF DataflowInv, UnderWay

LEMMA LoadKeeps ==
    ASSUME DataflowInv, Load
    PROVE  DataflowInv'
<1>1. /\ stage = "stratify" /\ phase = "done" /\ facts' \in Databases
      /\ made' = [a \in {Atom(i) : i \in DOMAIN facts'} |-> facts'[a[2][1]]]
      /\ NextGroup /\ UNCHANGED strataVars
    BY DEF Load
<1>2. /\ Layers!StratificationInv /\ planned.seen = {} /\ group = 0
      /\ program \in Programs /\ planned \in Plans
    BY <1>1 DEF DataflowInv, Progress, Types
<1>3. Layers!Layered
    <2>1. IsFiniteSet(Rules)
        BY DataflowAssumption
    <2>2. Layers!IsFiniteSet(Rules)
        BY <2>1 DEF IsFiniteSet, Layers!IsFiniteSet
    <2> QED
        BY <1>1, <1>2, <2>2, Layers!StrataAreLayered
<1>4. group \in 0 .. Len(strata)
    <2> DEFINE Stratum == [rules : SUBSET Rules, recursive : BOOLEAN]
    <2>1. strata \in Seq(Stratum)
        BY <1>3 DEF Layers!Layered
    <2> HIDE DEF Stratum
    <2>2. Len(strata) \in Nat
        BY <2>1
    <2> QED
        BY <1>2, <2>2
<1>5. UNION {strata[j].rules : j \in 1 .. group} = {}
    BY <1>2
<1>6. DOMAIN made' \ Signatures =
              {Atom(a) : a \in DOMAIN facts' \cup
                  {program.head[r] : r \in UNION {strata[j].rules : j \in 1 .. group}}}
    BY <1>1, <1>5, AtomsAreApart
<1> QED
    BY <1>1, <1>2, <1>3, <1>4, <1>6, NextGroupKeeps

\* A round of a scope has everything the operators of its plan start from.
LEMMA RoundIs ==
    ASSUME IsRecursive, Entering, NEW variables, DOMAIN variables = HeadAtoms
    PROVE  Source \cup HeadAtoms \subseteq DOMAIN RoundOf(variables)
<1> DEFINE entered == [s \in (planned.enters \cap DOMAIN made) \ HeadAtoms |-> made[s]]
<1>1. DOMAIN entered = (planned.enters \cap DOMAIN made) \ HeadAtoms
    OBVIOUS
<1>2. DOMAIN RoundOf(variables) = DOMAIN entered \cup HeadAtoms
    <2> HIDE DEF entered
    <2> QED
        BY OverIs DEF RoundOf, entered
<1> QED
    BY <1>1, <1>2 DEF Source, Entering

LEMMA OpenGroupKeeps ==
    ASSUME DataflowInv, OpenGroup
    PROVE  DataflowInv'
<1>1. /\ stage = "plan" /\ left = {} /\ walking = << >>
      /\ UNCHANGED <<strataVars, facts, group, left, walking, planned, at, made>>
    BY DEF OpenGroup
<1>2. /\ Types /\ Progress /\ Sharing /\ InOrder /\ Entering /\ Lasts /\ UnderWay /\ at = 1
    BY <1>1 DEF DataflowInv, UnderWay
<1>3. /\ stage' = "operate"
      /\ IsRecursive => inner' = RoundOf([a \in HeadAtoms |-> {}])
    BY <1>2 DEF OpenGroup, Entering
<1>4. /\ GroupRules' = GroupRules /\ IsRecursive' = IsRecursive
      /\ HeadAtoms' = HeadAtoms /\ Present' = Present
      /\ Signatures' = Signatures /\ Frames' = Frames /\ Plans' = Plans
      /\ \A r : Root(r)' = Root(r)
      /\ (Layers!Layered' <=> Layers!Layered)
    BY <1>1, SameGroup
<1>5. UNCHANGED <<program, phase, strata>>
    BY <1>1 DEF strataVars
<1>6. Types'
    BY <1>1, <1>2, <1>3, <1>4, <1>5 DEF Types
<1>7. Progress'
    BY <1>1, <1>2, <1>3, <1>4, <1>5 DEF Progress
<1>8. Source' = Source /\ Planned' = Planned /\ Pending' = Pending /\ UnderWay'
    BY <1>1, <1>3, <1>4 DEF Source, Planned, Pending, UnderWay
<1>9. Sharing'
    BY <1>1, <1>2, <1>4, <1>8 DEF Sharing
<1>10. InOrder' /\ Entering' /\ Lasts'
    BY <1>1, <1>2, <1>4, <1>8 DEF InOrder, Entering, Lasts, Ready
<1>11. Operating'
    <2>1. {planned.plan[j] : j \in 1 .. at - 1} = {}
        BY <1>2
    <2>2. Source \cup (IF IsRecursive THEN HeadAtoms ELSE {}) \subseteq DOMAIN There'
        <3>1. CASE IsRecursive
            <4> DEFINE empty == [a \in HeadAtoms |-> {}]
            <4>1. DOMAIN empty = HeadAtoms /\ inner' = RoundOf(empty)
                BY <1>3, <3>1
            <4> HIDE DEF empty
            <4>2. Source \cup HeadAtoms \subseteq DOMAIN inner'
                BY <1>2, <3>1, <4>1, RoundIs
            <4> QED
                BY <1>4, <3>1, <4>2 DEF There
        <3>2. CASE ~ IsRecursive
            BY <1>1, <1>4, <3>2 DEF There, Source
        <3> QED
            BY <3>1, <3>2
    <2>3. at \in 1 .. Len(planned.plan) + 1
        <3>1. planned.plan \in Seq(Signatures)
            BY <1>2 DEF Types, Plans
        <3>2. Len(planned.plan) \in Nat
            BY <3>1
        <3> QED
            BY <1>2, <3>2
    <2> QED
        BY <1>1, <1>4, <1>8, <2>1, <2>2, <2>3 DEF Operating
<1> QED
    BY <1>3, <1>6, <1>7, <1>9, <1>10, <1>11 DEF DataflowInv

\* What a step of the group leaves as it is, while it operates.
LEMMA OperatingKeeps ==
    ASSUME DataflowInv, stage = "operate", stage' = "operate",
           UNCHANGED <<strataVars, facts, group, left, walking, planned>>,
           DOMAIN made \subseteq DOMAIN made',
           DOMAIN made' \ Signatures = DOMAIN made \ Signatures,
           IsRecursive => made' = made
    PROVE  Types' /\ Progress' /\ Sharing' /\ InOrder' /\ Entering' /\ Lasts'
<1>1. UNCHANGED <<program, phase, strata>>
    BY DEF strataVars
<1>2. /\ GroupRules' = GroupRules /\ IsRecursive' = IsRecursive
      /\ HeadAtoms' = HeadAtoms /\ Present' = Present
      /\ Signatures' = Signatures /\ Frames' = Frames /\ Plans' = Plans
      /\ \A r : Root(r)' = Root(r)
      /\ (Layers!Layered' <=> Layers!Layered)
    BY SameGroup
<1>3. Types /\ Progress /\ Sharing /\ InOrder /\ Entering /\ Lasts /\ UnderWay
    BY DEF DataflowInv, UnderWay
<1>4. Types'
    BY <1>1, <1>2, <1>3 DEF Types
<1>5. Progress'
    BY <1>1, <1>2, <1>3 DEF Progress
<1>6. Source \subseteq Source' /\ Planned' = Planned /\ Pending' = Pending /\ UnderWay'
    BY <1>2 DEF Source, Planned, Pending, UnderWay
<1>7. Sharing'
    BY <1>2, <1>3, <1>6 DEF Sharing
<1>8. InOrder'
    BY <1>3, <1>6 DEF InOrder
<1>9. Entering'
    BY <1>2, <1>3 DEF Entering
<1>10. Lasts'
    BY <1>2, <1>3, <1>6 DEF Lasts, Ready
<1> QED
    BY <1>4, <1>5, <1>7, <1>8, <1>9, <1>10

\* An operator finds what it reads.
LEMMA InputsAreThere ==
    ASSUME DataflowInv, OperatorsLeft
    PROVE  /\ ToSet(Inputs(planned.plan[at])) \subseteq DOMAIN There
           /\ planned.plan[at] \in Signatures
           /\ at \in 1 .. Len(planned.plan) /\ Len(planned.plan) \in Nat
           /\ at + 1 \in 1 .. Len(planned.plan) + 1
           /\ {planned.plan[j] : j \in 1 .. (at + 1) - 1} =
                 {planned.plan[j] : j \in 1 .. at - 1} \cup {planned.plan[at]}
<1> DEFINE p == planned.plan
<1>1. stage = "operate" /\ at <= Len(p)
    BY DEF OperatorsLeft
<1>2. Operating /\ InOrder /\ Types
    BY <1>1 DEF DataflowInv, UnderWay
<1>3. p \in Seq(Signatures)
    BY <1>2 DEF Types, Plans
<1>4. at \in 1 .. Len(p) + 1 /\ Source \cup {p[j] : j \in 1 .. at - 1} \subseteq DOMAIN There
    BY <1>2 DEF Operating
<1>5. \A i \in DOMAIN p : ToSet(Inputs(p[i])) \subseteq Source \cup {p[j] : j \in 1 .. i - 1}
    BY <1>2 DEF InOrder
<1> HIDE DEF p
<1>6. Len(p) \in Nat /\ DOMAIN p = 1 .. Len(p)
    BY <1>3
<1>7. at \in 1 .. Len(p) /\ at + 1 \in 1 .. Len(p) + 1
    BY <1>1, <1>4, <1>6
<1>8. p[at] \in Signatures
    BY <1>3, <1>6, <1>7
<1>9. ToSet(Inputs(p[at])) \subseteq DOMAIN There
    BY <1>4, <1>5, <1>6, <1>7
<1>10. \A j : j \in 1 .. (at + 1) - 1 <=> j \in 1 .. at - 1 \/ j = at
    BY <1>6, <1>7
<1>11. {p[j] : j \in 1 .. (at + 1) - 1} = {p[j] : j \in 1 .. at - 1} \cup {p[at]}
    BY <1>10
<1> QED
    BY <1>6, <1>7, <1>8, <1>9, <1>11 DEF p

LEMMA OperateKeeps ==
    ASSUME DataflowInv, Operate
    PROVE  DataflowInv'
<1> DEFINE out == planned.plan[at]
           value == [o \in {out} |-> Value(o, made)]
<1>1. OperatorsLeft /\ ~ IsRecursive /\ stage = "operate"
    BY DEF Operate, OperatorsLeft
<1>2. /\ ToSet(Inputs(out)) \subseteq DOMAIN There /\ out \in Signatures
      /\ at + 1 \in 1 .. Len(planned.plan) + 1
      /\ {planned.plan[j] : j \in 1 .. (at + 1) - 1} =
             {planned.plan[j] : j \in 1 .. at - 1} \cup {out}
    BY <1>1, InputsAreThere
<1>3. There = made
    BY <1>1 DEF There
<1>4. /\ at' = at + 1 /\ made' = Over(value, made)
      /\ UNCHANGED <<strataVars, stage, facts, group, left, walking, planned, prior, inner>>
    BY <1>2, <1>3 DEF Operate
<1>5. DOMAIN value = {out}
    OBVIOUS
<1> HIDE DEF value, out
<1>6. DOMAIN made' = DOMAIN made \cup {out}
    <2>1. DOMAIN Over(value, made) = DOMAIN value \cup DOMAIN made
        BY ONLY OverIs
    <2>2. DOMAIN made' = DOMAIN Over(value, made)
        BY <1>4
    <2> QED
        BY ONLY <1>5, <2>1, <2>2
<1>7. /\ DOMAIN made \subseteq DOMAIN made'
      /\ DOMAIN made' \ Signatures = DOMAIN made \ Signatures
    BY <1>2, <1>6
<1>8. Types' /\ Progress' /\ Sharing' /\ InOrder' /\ Entering' /\ Lasts'
    BY <1>1, <1>4, <1>7, OperatingKeeps
<1>9. Operating
    BY <1>1 DEF DataflowInv
<1>10. IsRecursive' = IsRecursive
    BY <1>4, SameGroup
<1>11. There' = made' /\ Source' = DOMAIN made'
    BY <1>1, <1>10 DEF There, Source
<1>12. Operating'
    <2>1. {planned.plan[j] : j \in 1 .. at - 1} \subseteq DOMAIN made
        BY <1>3, <1>9 DEF Operating
    <2>2. {planned'.plan[j] : j \in 1 .. at' - 1} \subseteq DOMAIN There'
        BY <1>2, <1>4, <1>6, <1>11, <2>1
    <2> QED
        BY <1>1, <1>2, <1>4, <1>9, <1>10, <1>11, <2>2 DEF Operating
<1> QED
    BY <1>1, <1>4, <1>8, <1>12 DEF DataflowInv, UnderWay

LEMMA OperateInScopeKeeps ==
    ASSUME DataflowInv, OperateInScope
    PROVE  DataflowInv'
<1> DEFINE out == planned.plan[at]
           value == [o \in {out} |-> Value(o, inner)]
<1>1. OperatorsLeft /\ IsRecursive /\ stage = "operate"
    BY DEF OperateInScope, OperatorsLeft
<1>2. /\ ToSet(Inputs(out)) \subseteq DOMAIN There /\ out \in Signatures
      /\ at + 1 \in 1 .. Len(planned.plan) + 1
      /\ {planned.plan[j] : j \in 1 .. (at + 1) - 1} =
             {planned.plan[j] : j \in 1 .. at - 1} \cup {out}
    BY <1>1, InputsAreThere
<1>3. There = inner
    BY <1>1 DEF There
<1>4. /\ at' = at + 1 /\ inner' = Over(value, inner)
      /\ UNCHANGED <<strataVars, stage, facts, group, left, walking, planned, made, prior>>
    BY <1>2, <1>3 DEF OperateInScope
<1>5. DOMAIN value = {out}
    OBVIOUS
<1> HIDE DEF value, out
<1>6. DOMAIN inner' = DOMAIN inner \cup {out}
    <2>1. DOMAIN Over(value, inner) = DOMAIN value \cup DOMAIN inner
        BY ONLY OverIs
    <2>2. DOMAIN inner' = DOMAIN Over(value, inner)
        BY <1>4
    <2> QED
        BY ONLY <1>5, <2>1, <2>2
<1>7. Types' /\ Progress' /\ Sharing' /\ InOrder' /\ Entering' /\ Lasts'
    BY <1>1, <1>4, OperatingKeeps
<1>8. Operating
    BY <1>1 DEF DataflowInv
<1>9. IsRecursive' = IsRecursive /\ HeadAtoms' = HeadAtoms
    BY <1>4, SameGroup
<1>10. There' = inner' /\ Source' = Source
    BY <1>1, <1>4, <1>9 DEF There, Source
<1>11. Operating'
    <2>1. /\ {planned.plan[j] : j \in 1 .. at - 1} \subseteq DOMAIN inner
          /\ Source \subseteq DOMAIN inner /\ HeadAtoms \subseteq DOMAIN inner
        BY <1>1, <1>3, <1>8 DEF Operating
    <2>2. {planned'.plan[j] : j \in 1 .. at' - 1} \subseteq DOMAIN There'
        BY <1>2, <1>4, <1>6, <1>10, <2>1
    <2>3. Source' \subseteq DOMAIN There' /\ HeadAtoms' \subseteq DOMAIN There'
        BY <1>6, <1>9, <1>10, <2>1
    <2> QED
        BY <1>2, <1>4, <1>8, <2>2, <2>3 DEF Operating
<1> QED
    BY <1>1, <1>4, <1>7, <1>11 DEF DataflowInv, UnderWay

\* When every operator is through, a collector finds the last signatures of
\* its heads, and everything that is shared from now on is made.
LEMMA LastsAreThere ==
    ASSUME DataflowInv, AllOperated
    PROVE  /\ LastsPresent
           /\ planned.seen \subseteq DOMAIN made
           /\ Planned \subseteq DOMAIN There
<1> DEFINE p == planned.plan
<1>1. stage = "operate" /\ at > Len(p)
    BY DEF AllOperated
<1>2. Operating /\ Types /\ Lasts /\ Sharing /\ UnderWay
    BY <1>1 DEF DataflowInv, UnderWay
<1>3. p \in Seq(Signatures)
    BY <1>2 DEF Types, Plans
<1>4. at \in 1 .. Len(p) + 1 /\ Source \cup {p[j] : j \in 1 .. at - 1} \subseteq DOMAIN There
    BY <1>2 DEF Operating
<1>5. Planned = {p[j] : j \in 1 .. Len(p)} /\ Len(p) \in Nat
    BY <1>3, ToSetIs DEF Planned
<1> HIDE DEF p
<1>6. at - 1 = Len(p)
    BY <1>1, <1>4, <1>5
<1>7. Ready \subseteq DOMAIN There
    BY <1>4, <1>5, <1>6 DEF Ready
<1>8. Pending = {}
    BY <1>2 DEF Operating, Pending, Outs
<1>9. \A r \in GroupRules : Root(r) \in DOMAIN There
    BY <1>2, <1>7, <1>8 DEF Lasts, Operating
<1>10. LastsPresent
    BY <1>9 DEF LastsPresent, LastSignatures
<1>11. planned.seen \subseteq DOMAIN made
    <2>1. CASE IsRecursive
        BY <1>2, <2>1 DEF Sharing
    <2>2. CASE ~ IsRecursive
        <3>1. Planned \subseteq DOMAIN made
            BY <1>7, <2>2 DEF Ready, There
        <3> QED
            BY <1>2, <1>8, <2>2, <3>1 DEF Sharing
    <2> QED
        BY <2>1, <2>2
<1>12. Planned \subseteq DOMAIN There
    BY <1>7 DEF Ready
<1> QED
    BY <1>10, <1>11, <1>12

\* The heads of the group are in the maps, once it ends.
LEMMA HeadsArePresent ==
    ASSUME DataflowInv, AllOperated, NEW rows, DOMAIN rows = HeadAtoms,
           made' = Over(rows, made), facts' = facts
    PROVE  /\ group \in 0 .. Len(strata)
           /\ planned.seen \subseteq DOMAIN made'
           /\ DOMAIN made' \ Signatures =
              {Atom(a) : a \in DOMAIN facts' \cup
                  {program.head[r] : r \in UNION {strata[j].rules : j \in 1 .. group}}}
<1>1. Types /\ Progress /\ UnderWay /\ stage = "operate"
    BY DEF DataflowInv, UnderWay, AllOperated
<1>2. group \in 1 .. Len(strata) /\ Len(strata) \in Nat
    BY <1>1, GroupIs
<1>3. group \in 0 .. Len(strata) /\ \A j : j \in 1 .. group <=> j \in 1 .. group - 1 \/ j = group
    BY <1>2
<1>4. DOMAIN made' = HeadAtoms \cup DOMAIN made
    BY OverIs
<1>5. planned.seen \subseteq DOMAIN made
    BY LastsAreThere
<1>6. DOMAIN made \ Signatures = {Atom(a) : a \in Present}
    BY <1>1 DEF Progress
<1>7. HeadAtoms \cap Signatures = {}
    BY AtomsAreApart DEF HeadAtoms
<1>8. DOMAIN made' \ Signatures = {Atom(a) : a \in Present} \cup HeadAtoms
    BY <1>4, <1>6, <1>7
<1>9. UNION {strata[j].rules : j \in 1 .. group} = Earlier \cup GroupRules
    BY <1>3 DEF Earlier, GroupRules
<1>10. HeadAtoms = {Atom(a) : a \in {program.head[r] : r \in GroupRules}}
    BY DEF HeadAtoms, Heads
<1>11. DOMAIN facts' \cup {program.head[r] : r \in Earlier \cup GroupRules}
          = Present \cup {program.head[r] : r \in GroupRules}
    BY DEF Present
<1> QED
    BY <1>3, <1>4, <1>5, <1>8, <1>9, <1>10, <1>11

LEMMA CollectKeeps ==
    ASSUME DataflowInv, Collect
    PROVE  DataflowInv'
<1> DEFINE rows == [a \in HeadAtoms |-> Gathered(a, made, made)]
<1>1. AllOperated /\ stage = "operate"
    BY DEF Collect, AllOperated
<1>2. /\ made' = Over(rows, made) /\ NextGroup
      /\ UNCHANGED <<strataVars, facts, prior, inner>>
    BY <1>1, LastsAreThere DEF Collect
<1>3. DOMAIN rows = HeadAtoms
    OBVIOUS
<1> HIDE DEF rows
<1>4. Types /\ Progress
    BY DEF DataflowInv
<1>5. /\ Layers!Layered /\ phase = "done" /\ facts \in Databases /\ program \in Programs /\ planned \in Plans
    BY <1>1, <1>4 DEF Types, Progress
<1> QED
    BY <1>1, <1>2, <1>3, <1>5, HeadsArePresent, NextGroupKeeps

LEMMA LeaveScopeKeeps ==
    ASSUME DataflowInv, LeaveScope
    PROVE  DataflowInv'
<1> DEFINE rows == Variables
<1>1. /\ AllOperated /\ stage = "operate"
      /\ made' = Over(rows, made) /\ NextGroup /\ UNCHANGED <<strataVars, facts>>
    BY DEF LeaveScope, AllOperated
<1>2. DOMAIN rows = HeadAtoms
    BY DEF Variables
<1> HIDE DEF rows
<1>3. Types /\ Progress
    BY DEF DataflowInv
<1>4. /\ Layers!Layered /\ phase = "done" /\ facts \in Databases /\ program \in Programs /\ planned \in Plans
    BY <1>1, <1>3 DEF Types, Progress
<1> QED
    BY <1>1, <1>2, <1>4, HeadsArePresent, NextGroupKeeps

LEMMA CollectRoundKeeps ==
    ASSUME DataflowInv, CollectRound
    PROVE  DataflowInv'
<1> DEFINE next == VariablesNext
<1>1. AllOperated /\ IsRecursive /\ stage = "operate"
    BY DEF CollectRound, AllOperated
<1>2. /\ inner' = RoundOf(next) /\ at' = 1
      /\ UNCHANGED <<strataVars, stage, facts, group, left, walking, planned, made, prior>>
    BY <1>1, LastsAreThere DEF CollectRound
<1>3. DOMAIN next = HeadAtoms
    BY DEF VariablesNext
<1> HIDE DEF next
<1>4. Types' /\ Progress' /\ Sharing' /\ InOrder' /\ Entering' /\ Lasts'
    BY <1>1, <1>2, OperatingKeeps
<1>5. Operating /\ Entering /\ Types
    BY <1>1 DEF DataflowInv, UnderWay
<1>6. IsRecursive' = IsRecursive /\ HeadAtoms' = HeadAtoms
    BY <1>2, SameGroup
<1>7. There' = inner' /\ Source' = Source
    BY <1>1, <1>2, <1>6 DEF There, Source
<1>8. Source \cup HeadAtoms \subseteq DOMAIN inner'
    BY <1>1, <1>2, <1>3, <1>5, RoundIs
<1>9. Operating'
    <2>1. {planned'.plan[j] : j \in 1 .. at' - 1} = {}
        BY <1>2
    <2>2. at' \in 1 .. Len(planned'.plan) + 1
        <3>1. planned.plan \in Seq(Signatures)
            BY <1>5 DEF Types, Plans
        <3>2. Len(planned.plan) \in Nat
            BY <3>1
        <3> QED
            BY <1>2, <3>2
    <2> QED
        BY <1>2, <1>5, <1>6, <1>7, <1>8, <2>1, <2>2 DEF Operating
<1> QED
    BY <1>1, <1>2, <1>4, <1>9 DEF DataflowInv, UnderWay

LEMMA StutterKeeps ==
    ASSUME DataflowInv, UNCHANGED vars
    PROVE  DataflowInv'
<1>1. /\ UNCHANGED <<strataVars, stage, facts, group, left, walking, planned, at, made, prior, inner>>
      /\ UNCHANGED <<program, phase, visited, stack, order, sccs, waiting, merged, strata>>
    BY DEF vars, strataVars
<1>2. /\ GroupRules' = GroupRules /\ IsRecursive' = IsRecursive
      /\ HeadAtoms' = HeadAtoms /\ Present' = Present
      /\ Signatures' = Signatures /\ Frames' = Frames /\ Plans' = Plans
      /\ \A r : Root(r)' = Root(r)
      /\ \A rs : ReadBy(rs)' = ReadBy(rs)
      /\ (Layers!Layered' <=> Layers!Layered)
    BY <1>1, SameGroup
<1>3. Layers!StratificationInv => Layers!StratificationInv'
    <2>1. IsFiniteSet(Rules)
        BY DataflowAssumption
    <2>2. Layers!IsFiniteSet(Rules)
        BY <2>1 DEF IsFiniteSet, Layers!IsFiniteSet
    <2>3. Layers!vars' = Layers!vars
        BY <1>1 DEF Layers!vars
    <2> QED
        BY <2>2, <2>3, Layers!NextKeeps
<1>4. /\ Source' = Source /\ Planned' = Planned /\ Pending' = Pending /\ (UnderWay' <=> UnderWay)
      /\ There' = There
    BY <1>1, <1>2 DEF Source, Planned, Pending, UnderWay, There
<1>5. Types => Types'
    BY <1>1, <1>2 DEF Types
<1>6. Progress => Progress'
    BY <1>1, <1>2, <1>3 DEF Progress
<1>7. Sharing => Sharing'
    BY <1>1, <1>2, <1>4 DEF Sharing
<1>8. InOrder /\ Entering /\ Lasts => InOrder' /\ Entering' /\ Lasts'
    BY <1>1, <1>2, <1>4 DEF InOrder, Entering, Lasts, Ready
<1>9. Ready' = Ready /\ walking' = walking /\ ReadBy(GroupRules)' = ReadBy(GroupRules)
    BY <1>1, <1>2, <1>4 DEF Ready
<1>10. Operating => Operating'
    BY <1>1, <1>2, <1>4 DEF Operating
<1> QED
    BY <1>1, <1>4, <1>5, <1>6, <1>7, <1>8, <1>9, <1>10 DEF DataflowInv

LEMMA NextKeeps ==
    ASSUME DataflowInv, [Next]_vars
    PROVE  DataflowInv'
BY StratifyKeeps, LoadKeeps, PlanRuleKeeps, PlanInputKeeps, PlanOutputKeeps, OpenGroupKeeps,
   OperateKeeps, OperateInScopeKeeps, CollectKeeps, CollectRoundKeeps, LeaveScopeKeeps,
   StutterKeeps DEF Next

\* DataflowInv is an invariant of the dataflow.
THEOREM DataflowIsInductive == Spec => []DataflowInv
<1>1. Init => DataflowInv
    BY InitKeeps
<1>2. DataflowInv /\ [Next]_vars => DataflowInv'
    BY NextKeeps
<1> QED
    BY <1>1, <1>2, PTL DEF Spec

\* Whatever the program and the order in which its rules are planned, every
\* operator, collector and scope finds the collections it looks up.
THEOREM NothingIsAbsent == Spec => []NothingAbsent
<1>1. DataflowInv => NothingAbsent
    BY DEF DataflowInv, Types, NothingAbsent
<1> QED
    BY <1>1, DataflowIsInductive, PTL


\* The rows of a path through some relations.
Nodes(model) == UNION {{row[1], row[2]} : row \in UNION {model[a] : a \in DOMAIN model}}

Joined(body, model) ==
    LET nodes == Nodes(model)
        paths == {w \in [1..(Len(body) + 1) -> nodes] :
                    \A k \in DOMAIN body : <<w[k], w[k + 1]>> \in model[body[k]]}
    IN {<<w[1], w[Len(body) + 1]>> : w \in paths}

Follows(w, body, model) == \A k \in DOMAIN body : <<w[k], w[k + 1]>> \in model[body[k]]

Meaning(out, model) == Joined(out[2], model) \ (IF out[1] = "minus" THEN model[out[3][1]] ELSE {})

\* Rows of a binary relation.
Binary(rows) == rows \subseteq Nat \X Nat /\ IsFiniteSet(rows)

LEMMA BinaryRows ==
    ASSUME NEW rows, Binary(rows), NEW row \in rows
    PROVE  row = <<row[1], row[2]>> /\ row[1] \in Nat /\ row[2] \in Nat
BY DEF Binary

LEMMA PartIsBinary ==
    ASSUME NEW rows, Binary(rows), NEW part \in SUBSET rows
    PROVE  Binary(part)
BY FS_Subset DEF Binary

LEMMA FunctionImageIsFinite ==
    ASSUME NEW f, IsFiniteSet(DOMAIN f), f = [x \in DOMAIN f |-> f[x]], NEW T, T = {f[x] : x \in DOMAIN f}
    PROVE  IsFiniteSet(T)
<1>1. f \in Surjection(DOMAIN f, T)
    BY DEF Surjection
<1> QED
    BY <1>1, FS_Surjection

LEMMA EndsAreFinite ==
    ASSUME NEW rows, IsFiniteSet(rows)
    PROVE  /\ IsFiniteSet({row[1] : row \in rows})
           /\ IsFiniteSet({row[2] : row \in rows})
<1> DEFINE f == [row \in rows |-> row[1]]
           g == [row \in rows |-> row[2]]
           S == {row[1] : row \in rows}
           T == {row[2] : row \in rows}
<1>1. /\ f = [x \in DOMAIN f |-> f[x]] /\ DOMAIN f = rows
      /\ S = {f[x] : x \in DOMAIN f}
    OBVIOUS
<1>2. /\ g = [x \in DOMAIN g |-> g[x]] /\ DOMAIN g = rows
      /\ T = {g[x] : x \in DOMAIN g}
    OBVIOUS
<1> HIDE DEF f, g, S, T
<1>3. IsFiniteSet(S)
    BY <1>1, FunctionImageIsFinite
<1>4. IsFiniteSet(T)
    BY <1>2, FunctionImageIsFinite
<1> QED
    BY <1>3, <1>4 DEF S, T

\* A relation between numbers of which each end is one of finitely many.
LEMMA FromEndsIsBinary ==
    ASSUME NEW S, NEW T, S \subseteq Nat, T \subseteq Nat, IsFiniteSet(S), IsFiniteSet(T),
           NEW rows, rows \subseteq S \X T
    PROVE  Binary(rows)
<1>1. IsFiniteSet(S \X T)
    BY FS_Product
<1>2. IsFiniteSet(rows)
    BY <1>1, FS_Subset
<1> QED
    BY <1>2 DEF Binary

LEMMA EmptyIsBinary == Binary({})
BY FS_EmptySet DEF Binary

LEMMA SolutionsAre ==
    ASSUME NEW r, NEW model
    PROVE  Solutions(r, model) = Joined(program.body[r], model)
                                   \ UNION {model[n] : n \in program.negates[r]}
BY DEF Solutions, Joined, Nodes

LEMMA JoinedGives ==
    ASSUME NEW body, NEW model, NEW row \in Joined(body, model)
    PROVE  \E w \in [1 .. (Len(body) + 1) -> Nodes(model)] :
              Follows(w, body, model) /\ row = <<w[1], w[Len(body) + 1]>>
BY DEF Joined, Follows

LEMMA JoinedHas ==
    ASSUME NEW S, NEW body \in Seq(S), body # << >>, NEW model, ToSet(body) \subseteq DOMAIN model,
           NEW w, w = [k \in 1 .. (Len(body) + 1) |-> w[k]], Follows(w, body, model)
    PROVE  <<w[1], w[Len(body) + 1]>> \in Joined(body, model)
<1>1. Len(body) \in Nat \ {0} /\ DOMAIN body = 1 .. Len(body)
    OBVIOUS
<1>2. \A k \in DOMAIN body : body[k] \in DOMAIN model
    BY DEF ToSet
<1>3. \A k \in DOMAIN body : {w[k], w[k + 1]} \subseteq Nodes(model)
    <2> SUFFICES ASSUME NEW k \in DOMAIN body
                 PROVE  {w[k], w[k + 1]} \subseteq Nodes(model)
        OBVIOUS
    <2>1. <<w[k], w[k + 1]>> \in model[body[k]] /\ body[k] \in DOMAIN model
        BY <1>2 DEF Follows
    <2> DEFINE row == <<w[k], w[k + 1]>>
    <2>2. row \in UNION {model[a] : a \in DOMAIN model}
        BY <2>1
    <2>3. row[1] = w[k] /\ row[2] = w[k + 1]
        OBVIOUS
    <2> HIDE DEF row
    <2> QED
        BY <2>2, <2>3 DEF Nodes
<1>4. \A k \in 1 .. (Len(body) + 1) : w[k] \in Nodes(model)
    <2> SUFFICES ASSUME NEW k \in 1 .. (Len(body) + 1)
                 PROVE  w[k] \in Nodes(model)
        OBVIOUS
    <2>1. CASE k \in 1 .. Len(body)
        BY <1>1, <1>3, <2>1
    <2>2. CASE k = Len(body) + 1
        <3>1. Len(body) \in DOMAIN body
            BY <1>1
        <3>2. w[Len(body) + 1] \in Nodes(model)
            BY <1>3, <3>1
        <3> QED
            BY <2>2, <3>2
    <2> QED
        BY <1>1, <2>1, <2>2
<1>5. w \in [1 .. (Len(body) + 1) -> Nodes(model)]
    BY <1>4
<1> QED
    BY <1>5 DEF Joined, Follows

LEMMA JoinedOne ==
    ASSUME NEW S, NEW a \in S, NEW model, a \in DOMAIN model, Binary(model[a])
    PROVE  Joined(<<a>>, model) = model[a]
<1> DEFINE body == <<a>>
<1>1. body \in Seq(S) /\ body # << >> /\ Len(body) = 1 /\ DOMAIN body = {1} /\ body[1] = a
    OBVIOUS
<1>2. ToSet(body) \subseteq DOMAIN model
    <2>1. ToSet(<<a>>) = {a}
        BY ToSetPair
    <2> QED
        BY <2>1
<1> HIDE DEF body
<1>3. ASSUME NEW row \in Joined(body, model)
      PROVE  row \in model[a]
    <2>1. PICK w \in [1 .. (Len(body) + 1) -> Nodes(model)] :
              Follows(w, body, model) /\ row = <<w[1], w[Len(body) + 1]>>
        BY <1>3, JoinedGives
    <2>2. <<w[1], w[1 + 1]>> \in model[body[1]]
        BY <1>1, <2>1 DEF Follows
    <2> QED
        BY <1>1, <2>1, <2>2
<1>4. ASSUME NEW row \in model[a]
      PROVE  row \in Joined(body, model)
    <2> DEFINE w == [k \in 1 .. (Len(body) + 1) |-> row[k]]
    <2>1. row = <<row[1], row[2]>>
        BY <1>4, BinaryRows
    <2>2. w[1] = row[1] /\ w[1 + 1] = row[2] /\ w[Len(body) + 1] = row[2]
        BY <1>1
    <2>3. w = [k \in 1 .. (Len(body) + 1) |-> w[k]]
        OBVIOUS
    <2> HIDE DEF w
    <2>4. Follows(w, body, model)
        BY <1>1, <2>1, <2>2 DEF Follows
    <2>5. <<w[1], w[Len(body) + 1]>> \in Joined(body, model)
        BY <1>1, <1>2, <2>3, <2>4, JoinedHas
    <2> QED
        BY <2>1, <2>2, <2>5
<1> QED
    BY <1>3, <1>4 DEF body

LEMMA JoinedGrows ==
    ASSUME NEW S, NEW body \in Seq(S), body # << >>, NEW model, NEW more,
           \A a \in ToSet(body) : a \in DOMAIN more /\ model[a] \subseteq more[a]
    PROVE  Joined(body, model) \subseteq Joined(body, more)
<1> SUFFICES ASSUME NEW row \in Joined(body, model)
             PROVE  row \in Joined(body, more)
    OBVIOUS
<1>1. PICK w \in [1 .. (Len(body) + 1) -> Nodes(model)] :
          Follows(w, body, model) /\ row = <<w[1], w[Len(body) + 1]>>
    BY JoinedGives
<1>2. \A k \in DOMAIN body : body[k] \in ToSet(body)
    BY DEF ToSet
<1>3. Follows(w, body, more)
    BY <1>1, <1>2 DEF Follows
<1>4. w = [k \in 1 .. (Len(body) + 1) |-> w[k]]
    OBVIOUS
<1>5. ToSet(body) \subseteq DOMAIN more
    OBVIOUS
<1> QED
    BY <1>1, <1>3, <1>4, <1>5, JoinedHas

\* A path goes along the first relation and then along the others.
LEMMA JoinedMore ==
    ASSUME NEW S, NEW body \in Seq(S), Len(body) > 1, NEW model, ToSet(body) \subseteq DOMAIN model
    PROVE  Joined(body, model) =
             {<<t[1][1], t[2][2]>> : t \in {u \in Joined(<<Head(body)>>, model) \X Joined(Tail(body), model) :
                                             u[1][2] = u[2][1]}}
<1> DEFINE n == Len(body)
           one == <<Head(body)>>
           others == Tail(body)
<1>1. n \in Nat /\ n > 1 /\ body # << >> /\ DOMAIN body = 1 .. n
    OBVIOUS
<1>2. /\ one \in Seq(S) /\ one # << >> /\ Len(one) = 1 /\ DOMAIN one = {1} /\ one[1] = body[1]
      /\ others \in Seq(S) /\ others # << >> /\ Len(others) = n - 1 /\ DOMAIN others = 1 .. n - 1
      /\ \A k \in 1 .. n - 1 : others[k] = body[k + 1]
    <2>1. Head(body) \in S /\ Head(body) = body[1]
        BY <1>1
    <2>2. /\ one \in Seq(S) /\ one # << >> /\ Len(one) = 1 /\ DOMAIN one = {1} /\ one[1] = body[1]
        BY <2>1
    <2>3. others \in Seq(S) /\ Len(others) = n - 1 /\ \A k \in 1 .. n - 1 : others[k] = body[k + 1]
        BY <1>1
    <2> HIDE DEF others
    <2>4. others # << >> /\ DOMAIN others = 1 .. n - 1
        BY <1>1, <2>3
    <2> QED
        BY <2>2, <2>3, <2>4
<1> HIDE DEF n, one, others
<1>3. /\ 1 \in DOMAIN body
      /\ \A k \in 1 .. n - 1 : k + 1 \in DOMAIN body
      /\ \A k \in DOMAIN body : k = 1 \/ (k - 1 \in 1 .. n - 1 /\ (k - 1) + 1 = k)
      /\ (n - 1) + 1 = n
    BY <1>1
<1>4. ToSet(one) \subseteq DOMAIN model /\ ToSet(others) \subseteq DOMAIN model
    <2>1. \A k \in DOMAIN body : body[k] \in DOMAIN model
        BY DEF ToSet
    <2>2. \A k \in DOMAIN others : others[k] \in DOMAIN model
        BY <1>2, <1>3, <2>1
    <2>3. \A k \in DOMAIN one : one[k] \in DOMAIN model
        BY <1>2, <1>3, <2>1
    <2> QED
        BY <2>2, <2>3 DEF ToSet
<1>5. ASSUME NEW row \in Joined(body, model)
      PROVE  \E t \in Joined(one, model) \X Joined(others, model) :
                t[1][2] = t[2][1] /\ row = <<t[1][1], t[2][2]>>
    <2>1. PICK w \in [1 .. (Len(body) + 1) -> Nodes(model)] :
              Follows(w, body, model) /\ row = <<w[1], w[Len(body) + 1]>>
        BY JoinedGives
    <2>2. \A k \in DOMAIN body : <<w[k], w[k + 1]>> \in model[body[k]]
        BY <2>1 DEF Follows
    <2> DEFINE first == [k \in 1 .. (Len(one) + 1) |-> w[k]]
               next == [k \in 1 .. (Len(others) + 1) |-> w[k + 1]]
    <2>3. <<first[1], first[Len(one) + 1]>> \in Joined(one, model)
        <3>1. first[1] = w[1] /\ first[1 + 1] = w[1 + 1]
            BY <1>2
        <3>2. first = [k \in 1 .. (Len(one) + 1) |-> first[k]]
            OBVIOUS
        <3> HIDE DEF first
        <3>3. Follows(first, one, model)
            BY <1>2, <1>3, <2>2, <3>1 DEF Follows
        <3> QED
            BY <1>2, <1>4, <3>2, <3>3, JoinedHas
    <2>4. <<next[1], next[Len(others) + 1]>> \in Joined(others, model)
        <3>1. \A k \in 1 .. n - 1 : next[k] = w[k + 1] /\ next[k + 1] = w[(k + 1) + 1]
            BY <1>1, <1>2
        <3>2. next = [k \in 1 .. (Len(others) + 1) |-> next[k]]
            OBVIOUS
        <3> HIDE DEF next
        <3>3. Follows(next, others, model)
            BY <1>2, <1>3, <2>2, <3>1 DEF Follows
        <3> QED
            BY <1>2, <1>4, <3>2, <3>3, JoinedHas
    <2>5. /\ first[1] = w[1] /\ first[Len(one) + 1] = w[2]
          /\ next[1] = w[2] /\ next[Len(others) + 1] = w[Len(body) + 1]
        BY <1>1, <1>2, <1>3 DEF n
    <2> HIDE DEF first, next
    <2> DEFINE t == <<<<first[1], first[Len(one) + 1]>>, <<next[1], next[Len(others) + 1]>>>>
    <2>6. t \in Joined(one, model) \X Joined(others, model)
        BY <2>3, <2>4
    <2>7. t[1][1] = w[1] /\ t[1][2] = w[2] /\ t[2][1] = w[2] /\ t[2][2] = w[Len(body) + 1]
        BY <2>5
    <2> HIDE DEF t
    <2> QED
        BY <2>1, <2>6, <2>7
<1>6. ASSUME NEW t \in Joined(one, model) \X Joined(others, model), t[1][2] = t[2][1]
      PROVE  <<t[1][1], t[2][2]>> \in Joined(body, model)
    <2>1. t[1] \in Joined(one, model) /\ t[2] \in Joined(others, model)
        OBVIOUS
    <2>2. PICK first \in [1 .. (Len(one) + 1) -> Nodes(model)] :
              Follows(first, one, model) /\ t[1] = <<first[1], first[Len(one) + 1]>>
        BY <2>1, JoinedGives
    <2>3. PICK next \in [1 .. (Len(others) + 1) -> Nodes(model)] :
              Follows(next, others, model) /\ t[2] = <<next[1], next[Len(others) + 1]>>
        BY <2>1, JoinedGives
    <2>4. /\ t[1][1] = first[1] /\ t[1][2] = first[1 + 1]
          /\ t[2][1] = next[1] /\ t[2][2] = next[n]
        BY <1>2, <1>3, <2>2, <2>3
    <2> DEFINE w == [k \in 1 .. (Len(body) + 1) |-> IF k = 1 THEN first[1] ELSE next[k - 1]]
    <2>5. /\ w[1] = first[1] /\ w[Len(body) + 1] = next[n]
          /\ w[1 + 1] = next[1]
          /\ \A k \in 1 .. n - 1 : w[k + 1] = next[k] /\ w[(k + 1) + 1] = next[k + 1]
        BY <1>1 DEF n
    <2>6. w = [k \in 1 .. (Len(body) + 1) |-> w[k]]
        OBVIOUS
    <2> HIDE DEF w
    <2>7. <<w[1], w[1 + 1]>> \in model[body[1]]
        <3>1. <<first[1], first[1 + 1]>> \in model[one[1]]
            BY <1>2, <2>2 DEF Follows
        <3> QED
            BY <1>2, <1>6, <2>4, <2>5, <3>1
    <2>8. \A k \in 1 .. n - 1 : <<w[k + 1], w[(k + 1) + 1]>> \in model[body[k + 1]]
        BY <1>2, <2>3, <2>5 DEF Follows
    <2>9. Follows(w, body, model)
        BY <1>3, <2>7, <2>8 DEF Follows
    <2>10. <<w[1], w[Len(body) + 1]>> \in Joined(body, model)
        BY <1>1, <2>6, <2>9, JoinedHas
    <2> QED
        BY <2>4, <2>5, <2>10
<1> DEFINE pairs == {u \in Joined(one, model) \X Joined(others, model) : u[1][2] = u[2][1]}
<1>7. Joined(body, model) = {<<t[1][1], t[2][2]>> : t \in pairs}
    BY <1>5, <1>6
<1> QED
    BY <1>7 DEF one, others

LEMMA SameRelationsSameRows ==
    ASSUME NEW S, NEW body \in Seq(S), body # << >>, NEW model, NEW other,
           \A a \in ToSet(body) : a \in DOMAIN model /\ a \in DOMAIN other /\ model[a] = other[a]
    PROVE  Joined(body, model) = Joined(body, other)
<1>1. Joined(body, model) \subseteq Joined(body, other)
    BY JoinedGrows
<1>2. Joined(body, other) \subseteq Joined(body, model)
    BY JoinedGrows
<1> QED
    BY <1>1, <1>2

\* What a collection means depends on the relations below it.
LEMMA MeaningAgrees ==
    ASSUME NEW out \in Signatures, NEW model, NEW other,
           \A a \in Relations(out) : a \in DOMAIN model /\ a \in DOMAIN other /\ model[a] = other[a]
    PROVE  Meaning(out, model) = Meaning(out, other)
<1>1. out[2] \in Seq(Names) /\ out[2] # << >>
    BY SignatureIs DEF Bodies
<1>2. ToSet(out[2]) \subseteq Relations(out)
    BY DEF Relations
<1>3. Joined(out[2], model) = Joined(out[2], other)
    BY <1>1, <1>2, SameRelationsSameRows
<1>4. out[1] = "minus" => out[3][1] \in Relations(out)
    BY DEF Relations
<1> QED
    BY <1>3, <1>4 DEF Meaning

LEMMA RootMeans ==
    ASSUME program \in Programs, NEW r \in Rules, NEW model
    PROVE  Meaning(Root(r), model) = Solutions(r, model)
<1>1. Root(r)[2] = program.body[r]
    BY RuleIs
<1>2. UNION {model[n] : n \in program.negates[r]} =
        IF Root(r)[1] = "minus" THEN model[Root(r)[3][1]] ELSE {}
    <2>1. CASE program.negates[r] = {}
        BY <2>1, RuleIs
    <2>2. CASE program.negates[r] # {}
        BY <2>2, RuleIs
    <2> QED
        BY <2>1, <2>2
<1> QED
    BY <1>1, <1>2, SolutionsAre DEF Meaning

LEMMA SolutionsAgree ==
    ASSUME program \in Programs, NEW r \in Rules, NEW model, NEW other,
           \A a \in program.reads[r] \cup program.negates[r] :
              a \in DOMAIN model /\ a \in DOMAIN other /\ model[a] = other[a]
    PROVE  Solutions(r, model) = Solutions(r, other)
<1>1. Root(r) \in Signatures /\ Relations(Root(r)) = program.reads[r] \cup program.negates[r]
    BY RuleIs
<1>2. Meaning(Root(r), model) = Meaning(Root(r), other)
    BY <1>1, MeaningAgrees
<1> QED
    BY <1>2, RootMeans

\* More rows of what is read, and the same of what is negated: more rows.
LEMMA SolutionsGrow ==
    ASSUME program \in Programs, NEW r \in Rules, NEW model, NEW more,
           \A a \in program.reads[r] : a \in DOMAIN more /\ model[a] \subseteq more[a],
           \A a \in program.negates[r] : model[a] = more[a]
    PROVE  Solutions(r, model) \subseteq Solutions(r, more)
<1> DEFINE body == program.body[r]
<1>1. body \in Seq(Names) /\ body # << >> /\ ToSet(body) = program.reads[r]
    BY RuleIs DEF Bodies
<1> HIDE DEF body
<1>2. Joined(body, model) \subseteq Joined(body, more)
    BY <1>1, JoinedGrows
<1>3. UNION {model[n] : n \in program.negates[r]} = UNION {more[n] : n \in program.negates[r]}
    OBVIOUS
<1> QED
    BY <1>2, <1>3, SolutionsAre DEF body

LEMMA ValueIs ==
    ASSUME NEW out \in Signatures, NEW collections
    PROVE  /\ IsLeaf(out) => Value(out, collections) = collections[Inputs(out)[1]]
           /\ ~ IsLeaf(out) /\ out[1] = "minus" =>
                Value(out, collections) = collections[Inputs(out)[1]] \ collections[Inputs(out)[2]]
           /\ ~ IsLeaf(out) /\ out[1] # "minus" =>
                Value(out, collections) =
                   {<<t[1][1], t[2][2]>> : t \in {u \in collections[Inputs(out)[1]] \X collections[Inputs(out)[2]] :
                                                   u[1][2] = u[2][1]}}
<1> DEFINE ins == Inputs(out)
           rows == [k \in DOMAIN ins |-> collections[ins[k]]]
<1>1. Value(out, collections) =
        IF out[1] = "minus" THEN rows[1] \ rows[2]
        ELSE IF IsLeaf(out) THEN rows[1]
        ELSE {<<t[1][1], t[2][2]>> : t \in {u \in rows[1] \X rows[2] : u[1][2] = u[2][1]}}
    BY DEF Value
<1>2. IsLeaf(out) => 1 \in DOMAIN ins /\ out[1] # "minus"
    <2>1. IsLeaf(out) => ins = <<Atom(out[2][1])>>
        BY LeafInputs
    <2>2. DOMAIN <<Atom(out[2][1])>> = {1}
        OBVIOUS
    <2> HIDE DEF ins
    <2> QED
        BY <2>1, <2>2 DEF IsLeaf
<1>3. ~ IsLeaf(out) => 1 \in DOMAIN ins /\ 2 \in DOMAIN ins
    <2>1. ~ IsLeaf(out) => ins \in Seq(Signatures) /\ Len(ins) = 2
        BY OtherInputs
    <2> HIDE DEF ins
    <2> QED
        BY <2>1
<1>4. /\ 1 \in DOMAIN ins => rows[1] = collections[ins[1]]
      /\ 2 \in DOMAIN ins => rows[2] = collections[ins[2]]
    OBVIOUS
<1> HIDE DEF rows
<1> QED
    BY <1>1, <1>2, <1>3, <1>4

\* An operator over collections that hold what they mean makes what its
\* output means.
LEMMA ValueMeans ==
    ASSUME NEW out \in Signatures, NEW model, NEW collections,
           \A a \in Relations(out) : a \in DOMAIN model /\ Binary(model[a]),
           IsLeaf(out) => collections[Inputs(out)[1]] = model[out[2][1]],
           ~ IsLeaf(out) => /\ collections[Inputs(out)[1]] = Meaning(Inputs(out)[1], model)
                            /\ collections[Inputs(out)[2]] = Meaning(Inputs(out)[2], model)
    PROVE  Value(out, collections) = Meaning(out, model)
<1> DEFINE b == out[2]
<1>1. b \in Seq(Names) /\ b # << >> /\ Len(b) \in Nat \ {0} /\ ToSet(b) \subseteq Relations(out)
    BY SignatureIs DEF Bodies, Relations
<1>2. CASE IsLeaf(out)
    <2>1. out[1] # "minus" /\ Len(b) = 1
        BY <1>2 DEF IsLeaf
    <2>2. out[2][1] \in Names /\ Relations(out) = {out[2][1]}
        BY <1>2, LeafInputs
    <2>3. Joined(<<out[2][1]>>, model) = model[out[2][1]]
        BY <2>2, JoinedOne
    <2>4. b = <<b[1]>>
        BY <1>1, <2>1
    <2>5. Meaning(out, model) = model[out[2][1]]
        BY <2>1, <2>3, <2>4 DEF Meaning
    <2> QED
        BY <1>2, <2>5, ValueIs
<1>3. CASE out[1] = "minus"
    <2>0. ~ IsLeaf(out)
        BY <1>3 DEF IsLeaf
    <2> DEFINE i == Inputs(out)[1]
               j == Inputs(out)[2]
               n == out[3][1]
    <2>1. Inputs(out) = << <<IF Len(out[2]) = 1 THEN "keys" ELSE "set", out[2]>>, <<"keys", out[3]>> >>
        BY <1>3 DEF Inputs
    <2>2. i[1] # "minus" /\ i[2] = b /\ j[1] # "minus" /\ j[2] = out[3]
        BY <2>1
    <2>3. out[3] = <<n>> /\ n \in Names /\ n \in Relations(out)
        BY <1>3, SignatureIs DEF Relations
    <2> HIDE DEF i, j, n
    <2>4. Meaning(i, model) = Joined(b, model)
        BY <2>2 DEF Meaning
    <2>5. Meaning(j, model) = model[n]
        <3>1. Joined(<<n>>, model) = model[n]
            BY <2>3, JoinedOne
        <3> QED
            BY <2>2, <2>3, <3>1 DEF Meaning
    <2>6. Value(out, collections) = collections[i] \ collections[j]
        BY <1>3, <2>0, ValueIs DEF i, j
    <2>7. Meaning(out, model) = Joined(b, model) \ model[n]
        BY <1>3 DEF Meaning, n
    <2> QED
        BY <2>0, <2>4, <2>5, <2>6, <2>7 DEF i, j
<1>4. CASE ~ IsLeaf(out) /\ out[1] # "minus"
    <2> DEFINE i == Inputs(out)[1]
               j == Inputs(out)[2]
    <2>0. Len(out[2]) # 1 /\ out[1] # "minus"
        BY ONLY <1>4 DEF IsLeaf
    <2>2. Inputs(out) = << <<"left", <<Head(b)>>>>, <<"right", Tail(b)>> >>
        BY ONLY <2>0 DEF Inputs
    <2>10. Len(b) # 1
        BY ONLY <2>0
    <2> HIDE DEF b
    <2>11. Len(b) \in Nat \ {0}
        BY <1>1
    <2>1. Len(b) > 1
        <3>1. \A k \in Nat \ {0} : k # 1 => k > 1
            OBVIOUS
        <3> QED
            BY ONLY <2>10, <2>11, <3>1
    <2>3. i[1] # "minus" /\ i[2] = <<Head(b)>> /\ j[1] # "minus" /\ j[2] = Tail(b)
        BY <2>2
    <2> HIDE DEF i, j, b
    <2>4. Meaning(i, model) = Joined(<<Head(b)>>, model) /\ Meaning(j, model) = Joined(Tail(b), model)
        BY <2>3 DEF Meaning
    <2>5. ToSet(b) \subseteq DOMAIN model
        BY <1>1
    <2>6. Joined(b, model) =
             {<<t[1][1], t[2][2]>> : t \in {u \in Joined(<<Head(b)>>, model) \X Joined(Tail(b), model) :
                                             u[1][2] = u[2][1]}}
        BY <1>1, <2>1, <2>5, JoinedMore
    <2>7. Meaning(out, model) = Joined(b, model)
        BY <1>4 DEF Meaning, b
    <2>8. Value(out, collections) =
             {<<t[1][1], t[2][2]>> : t \in {u \in collections[i] \X collections[j] : u[1][2] = u[2][1]}}
        BY <1>4, ValueIs DEF i, j
    <2>9. collections[i] = Joined(<<Head(b)>>, model) /\ collections[j] = Joined(Tail(b), model)
        BY <1>4, <2>4 DEF i, j
    <2> QED
        BY <2>6, <2>7, <2>8, <2>9
<1> QED
    BY <1>2, <1>3, <1>4

LEMMA ValueIsBinary ==
    ASSUME NEW out \in Signatures, NEW collections,
           \A i \in ToSet(Inputs(out)) : Binary(collections[i])
    PROVE  Binary(Value(out, collections))
<1>1. CASE IsLeaf(out)
    <2>1. Inputs(out) = <<Atom(out[2][1])>> /\ ToSet(Inputs(out)) = {Atom(out[2][1])}
        BY <1>1, LeafInputs
    <2>2. Inputs(out)[1] \in ToSet(Inputs(out))
        BY <2>1
    <2> QED
        BY <1>1, <2>2, ValueIs
<1>2. CASE ~ IsLeaf(out) /\ out[1] = "minus"
    <2>1. Inputs(out)[1] \in ToSet(Inputs(out))
        BY <1>2, OtherInputs
    <2>2. Value(out, collections) \subseteq collections[Inputs(out)[1]]
        BY <1>2, ValueIs
    <2> QED
        BY <2>1, <2>2, PartIsBinary
<1>3. CASE ~ IsLeaf(out) /\ out[1] # "minus"
    <2> DEFINE lefts == collections[Inputs(out)[1]]
               rights == collections[Inputs(out)[2]]
               S == {row[1] : row \in lefts}
               T == {row[2] : row \in rights}
    <2>1. Value(out, collections) =
             {<<t[1][1], t[2][2]>> : t \in {u \in lefts \X rights : u[1][2] = u[2][1]}}
        BY <1>3, ValueIs
    <2>2. Inputs(out)[1] \in ToSet(Inputs(out)) /\ Inputs(out)[2] \in ToSet(Inputs(out))
        BY <1>3, OtherInputs
    <2>3. Binary(lefts) /\ Binary(rights)
        BY <2>2
    <2>4. Value(out, collections) \subseteq S \X T
        BY <2>1
    <2> HIDE DEF lefts, rights
    <2>5. S \subseteq Nat /\ T \subseteq Nat
        BY <2>3, BinaryRows
    <2>6. IsFiniteSet(S) /\ IsFiniteSet(T)
        BY <2>3, EndsAreFinite DEF Binary
    <2> HIDE DEF S, T
    <2> QED
        BY <2>4, <2>5, <2>6, FromEndsIsBinary
<1> QED
    BY <1>1, <1>2, <1>3

LEMMA AggregatedIs ==
    ASSUME program \in Programs, NEW h \in {program.head[r] : r \in Rules}, NEW rows
    PROVE  /\ program.aggregate[h] = "none" => Aggregated(h, rows) = rows
           /\ Binary(rows) => Binary(Aggregated(h, rows))
<1>1. program.aggregate[h] \in {"none", "count", "min"}
    BY DataflowAssumption
<1>2. CASE program.aggregate[h] = "none"
    BY <1>2 DEF Aggregated
<1>3. CASE program.aggregate[h] = "count"
    <2>1. Aggregated(h, rows) = {<<x, Cardinality({r \in rows : r[1] = x})>> : x \in {r[1] : r \in rows}}
        BY <1>3 DEF Aggregated
    <2> SUFFICES ASSUME Binary(rows)
                 PROVE  Binary(Aggregated(h, rows))
        BY <1>3
    <2> DEFINE Of(x) == {r \in rows : r[1] = x}
               keys == {r[1] : r \in rows}
               f == [x \in keys |-> Cardinality(Of(x))]
               counts == {f[x] : x \in DOMAIN f}
    <2>2. \A x : Cardinality(Of(x)) \in Nat
        <3> SUFFICES ASSUME NEW x
                     PROVE  Cardinality(Of(x)) \in Nat
            OBVIOUS
        <3>1. IsFiniteSet(rows) /\ Of(x) \in SUBSET rows
            BY DEF Binary
        <3> HIDE DEF Of
        <3> QED
            BY <3>1, FS_Subset, FS_CardinalityType
    <2>3. Aggregated(h, rows) = {<<x, Cardinality(Of(x))>> : x \in keys}
        BY <2>1
    <2>4. keys \subseteq Nat
        BY BinaryRows
    <2>5. IsFiniteSet(keys)
        BY EndsAreFinite DEF Binary
    <2> HIDE DEF Of, keys
    <2>6. DOMAIN f = keys /\ f = [x \in DOMAIN f |-> f[x]] /\ \A x \in keys : f[x] = Cardinality(Of(x))
        OBVIOUS
    <2>7. counts \subseteq Nat
        BY <2>2, <2>6
    <2>8. Aggregated(h, rows) \subseteq keys \X counts
        BY <2>3, <2>6
    <2> HIDE DEF f
    <2>9. IsFiniteSet(counts)
        BY <2>5, <2>6, FunctionImageIsFinite
    <2> HIDE DEF counts
    <2> QED
        BY <2>4, <2>5, <2>7, <2>8, <2>9, FromEndsIsBinary
<1>4. CASE program.aggregate[h] = "min"
    <2>1. Aggregated(h, rows) \subseteq rows
        BY <1>4 DEF Aggregated
    <2> QED
        BY <1>4, <2>1, PartIsBinary
<1> QED
    BY <1>1, <1>2, <1>3, <1>4

LEMMA SmallestOf ==
    ASSUME NEW T \in SUBSET Nat, T # {}
    PROVE  \E n \in T : \A m \in T : n <= m
<1> DEFINE less == {pair \in Nat \X Nat : pair[1] < pair[2]}
<1>1. less = OpToRel(<, Nat)
    BY DEF OpToRel
<1>2. IsWellFoundedOn(less, Nat)
    BY <1>1, NatLessThanWellFounded
<1> HIDE DEF less
<1>3. PICK n \in T : \A m \in T : ~ (<<m, n>> \in less)
    BY <1>2, WFMin
<1>4. \A m \in T : ~ (m < n)
    BY <1>3 DEF less
<1>5. \A m \in T : n <= m
    BY <1>4
<1> QED
    BY <1>5

\* Of the rows that are aggregated already, a minimum misses none.
LEMMA MinOfMin ==
    ASSUME NEW h, program.aggregate[h] = "min", NEW new, NEW old,
           \A row \in new \cup old : row[2] \in Nat
    PROVE  Aggregated(h, new \cup Aggregated(h, old)) = Aggregated(h, new \cup old)
<1> DEFINE Minima(rows) == {r \in rows : \A s \in rows : s[1] = r[1] => r[2] <= s[2]}
<1>1. \A rows : Aggregated(h, rows) = Minima(rows)
    BY DEF Aggregated
<1>2. ASSUME NEW s \in old
      PROVE  \E m \in Minima(old) : m[1] = s[1] /\ m[2] <= s[2]
    <2> DEFINE T == {r[2] : r \in {x \in old : x[1] = s[1]}}
    <2>1. T \in SUBSET Nat /\ s[2] \in T
        OBVIOUS
    <2>2. PICK n \in T : \A k \in T : n <= k
        BY <2>1, SmallestOf
    <2>3. PICK m \in old : m[1] = s[1] /\ m[2] = n
        BY <2>2
    <2>4. \A x \in old : x[1] = m[1] => m[2] <= x[2]
        BY <2>2, <2>3
    <2>5. m \in Minima(old) /\ m[2] <= s[2]
        BY <2>3, <2>4
    <2> QED
        BY <2>3, <2>5
<1>3. Minima(old) \subseteq old
    OBVIOUS
<1>4. ASSUME NEW r \in Minima(new \cup Minima(old)), NEW s \in new \cup old, s[1] = r[1]
      PROVE  r[2] <= s[2]
    <2>1. \A t \in new \cup Minima(old) : t[1] = r[1] => r[2] <= t[2]
        BY <1>4
    <2>2. CASE s \in new
        BY <1>4, <2>1, <2>2
    <2>3. CASE s \in old
        <3>1. PICK m \in Minima(old) : m[1] = s[1] /\ m[2] <= s[2]
            BY <1>2, <2>3
        <3>2. r[2] <= m[2]
            BY <1>4, <2>1, <3>1
        <3>3. r[2] \in Nat /\ m[2] \in Nat /\ s[2] \in Nat
            BY <1>3
        <3> QED
            BY <3>1, <3>2, <3>3
    <2> QED
        BY <2>2, <2>3
<1>5. Minima(new \cup Minima(old)) \subseteq Minima(new \cup old)
    <2> SUFFICES ASSUME NEW r \in Minima(new \cup Minima(old))
                 PROVE  r \in Minima(new \cup old)
        OBVIOUS
    <2>1. r \in new \cup old
        BY <1>3
    <2> QED
        BY <1>4, <2>1
<1>6. Minima(new \cup old) \subseteq Minima(new \cup Minima(old))
    <2> SUFFICES ASSUME NEW r \in Minima(new \cup old)
                 PROVE  r \in Minima(new \cup Minima(old))
        OBVIOUS
    <2>1. r \in new \cup Minima(old)
        OBVIOUS
    <2> QED
        BY <1>3, <2>1
<1> HIDE DEF Minima
<1>7. Aggregated(h, old) = Minima(old)
    BY <1>1
<1>8. Aggregated(h, new \cup Minima(old)) = Minima(new \cup Minima(old))
    BY <1>1
<1>9. Aggregated(h, new \cup old) = Minima(new \cup old)
    BY <1>1
<1>10. Minima(new \cup Minima(old)) = Minima(new \cup old)
    BY <1>5, <1>6
<1> QED
    BY <1>7, <1>8, <1>9, <1>10, Zenon

-----------------------------------------------------------------------------
(* What the collections of the dataflow hold *)

HeadsOf(k) == {program.head[r] : r \in strata[k].rules}

\* Relations that every rule of theirs has been evaluated for.
Complete == {a \in DOMAIN facts \cup Derivable : \A r \in Rules : program.head[r] = a => r \in Earlier}

\* The relations outside of a scope, and with some rows of its heads.
Outside == [a \in Present |-> made[Atom(a)]]

With(rows) == [a \in Present \cup Heads |-> IF a \in Heads THEN rows[a] ELSE made[Atom(a)]]

Inside == With([h \in Heads |-> inner[Atom(h)]])

\* What some rules derive of a relation.
SumOf(h, rs, model) ==
    Aggregated(h, (UNION {Solutions(r, model) : r \in {s \in rs : program.head[s] = h}}) \cup Given(h))

\* Counted at most once: to aggregate again what is aggregated already does
\* not change a minimum.
Once(h) == \/ program.aggregate[h] \in {"none", "min"}
           \/ \E k \in DOMAIN strata : \A r \in Rules : program.head[r] = h => r \in strata[k].rules

InScope == stage = "operate" /\ IsRecursive

AllBinary == \A x \in DOMAIN made : Binary(made[x])

SharedMean ==
    \A s \in DOMAIN made \cap Signatures : Relations(s) \subseteq Complete /\ made[s] = Meaning(s, Outside)

Sums ==
    \A h \in Present :
        IF \E r \in Earlier : program.head[r] = h
        THEN Once(h) => made[Atom(h)] = SumOf(h, Earlier, Outside)
        ELSE made[Atom(h)] = facts[h]

\* The plan reads what the rules of the group read, and its scope enters it.
PlanMeans ==
    \A s \in Planned :
        /\ Relations(s) \subseteq ReadBy(GroupRules)
        /\ IsRecursive => \A a \in Relations(s) : a \in Complete \/ Atom(a) \in planned.enters

ScopeMeans ==
    /\ \A x \in DOMAIN inner : Binary(inner[x])
    /\ \A s \in DOMAIN inner \cap Signatures : inner[s] = Meaning(s, Inside)
    /\ \A x \in DOMAIN inner \ (Signatures \cup HeadAtoms) : x \in DOMAIN made /\ inner[x] = made[x]
    /\ prior = [x \in HeadAtoms \cap DOMAIN made |-> made[x]]

\* Rows of some relations that their rules derive nothing more from.
ClosedUnder(hs, rows, model) ==
    \A h \in hs : Derived(h, [a \in DOMAIN model |-> IF a \in hs THEN rows[a] ELSE model[a]]) \subseteq rows[h]

Plain(k) == strata[k].recursive /\ \A h \in HeadsOf(k) : program.aggregate[h] = "none"

LeastInside ==
    Plain(group) =>
        \A rows : (\A h \in Heads : SumOf(h, Earlier \cup GroupRules, With(rows)) \subseteq rows[h])
                    => \A h \in Heads : inner[Atom(h)] \subseteq rows[h]

LeastOutside ==
    \A k \in 1 .. group - 1 : Plain(k) =>
        \A rows : ClosedUnder(HeadsOf(k), rows, Outside)
                    => \A h \in HeadsOf(k) : made[Atom(h)] \subseteq rows[h]

MeaningInv ==
    stage # "stratify" =>
        /\ AllBinary /\ SharedMean /\ Sums /\ LeastOutside
        /\ UnderWay => PlanMeans
        /\ InScope => ScopeMeans /\ LeastInside

\* A relation that a rule reads is derived in strata before that of the rule,
\* or in the same, if that is recursive.
LEMMA DerivedBefore ==
    ASSUME Types, Progress, stage # "stratify", NEW k \in DOMAIN strata, NEW r \in strata[k].rules,
           NEW a \in program.reads[r] \cup program.negates[r], NEW s \in Rules, program.head[s] = a
    PROVE  \/ \E j \in 1 .. k - 1 : s \in strata[j].rules
           \/ s \in strata[k].rules /\ strata[k].recursive /\ a \notin program.negates[r]
<1>1. s \in Layers!DependsOn(r)
    BY DEF Layers!DependsOn
<1>2. a \in program.negates[r] => s \in Layers!Negates(r)
    BY DEF Layers!Negates
<1> QED
    BY <1>1, <1>2 DEF Progress, Layers!Layered

LEMMA StrataAre ==
    ASSUME Types, Progress, stage # "stratify"
    PROVE  /\ Len(strata) \in Nat /\ DOMAIN strata = 1 .. Len(strata)
           /\ group \in 1 .. Len(strata) + 1 /\ group - 1 \in 0 .. Len(strata)
           /\ \A k \in 1 .. group - 1 : k \in DOMAIN strata /\ k # group
           /\ \A k \in DOMAIN strata : strata[k].rules \subseteq Rules /\ strata[k].recursive \in BOOLEAN
           /\ Earlier \subseteq Rules
           /\ program \in Programs /\ facts \in Databases
<1> DEFINE Stratum == [rules : SUBSET Rules, recursive : BOOLEAN]
<1>1. strata \in Seq(Stratum) /\ group \in 1 .. Len(strata) + 1
    BY DEF Progress, Layers!Layered
<1>2. /\ Len(strata) \in Nat /\ DOMAIN strata = 1 .. Len(strata)
      /\ \A k \in DOMAIN strata : strata[k] \in Stratum
    <2> HIDE DEF Stratum
    <2> QED
        BY <1>1
<1>3. \A k \in DOMAIN strata : strata[k].rules \subseteq Rules /\ strata[k].recursive \in BOOLEAN
    BY <1>2
<1> HIDE DEF Stratum
<1>4. group - 1 \in 0 .. Len(strata) /\ \A k \in 1 .. group - 1 : k \in DOMAIN strata /\ k # group
    BY <1>1, <1>2
<1>5. Earlier \subseteq Rules
    BY <1>3, <1>4 DEF Earlier
<1> QED
    BY <1>1, <1>2, <1>3, <1>4, <1>5 DEF Progress, Types

\* What rules of an earlier stratum read is complete.
LEMMA EarlierReads ==
    ASSUME Types, Progress, stage # "stratify", NEW r \in Earlier,
           NEW a \in program.reads[r] \cup program.negates[r]
    PROVE  a \in Complete
<1>1. PICK k \in 1 .. group - 1 : r \in strata[k].rules
    BY DEF Earlier
<1>2. k \in DOMAIN strata /\ r \in Rules /\ program \in Programs /\ facts \in Databases
    BY <1>1, StrataAre
<1>3. a \in DOMAIN facts \cup Derivable
    BY <1>2, DataflowAssumption DEF Derivable
<1>4. ASSUME NEW s \in Rules, program.head[s] = a
      PROVE  s \in Earlier
    <2>1. \/ \E j \in 1 .. k - 1 : s \in strata[j].rules
          \/ s \in strata[k].rules
        BY <1>1, <1>2, <1>4, DerivedBefore
    <2>2. \A j \in 1 .. k - 1 : j \in 1 .. group - 1
        BY <1>1, StrataAre
    <2> QED
        BY <1>1, <2>1, <2>2 DEF Earlier
<1> QED
    BY <1>3, <1>4 DEF Complete

\* What rules of the group read is complete, or a variable of its scope.
LEMMA GroupReads ==
    ASSUME Types, Progress, UnderWay, NEW r \in GroupRules,
           NEW a \in program.reads[r] \cup program.negates[r]
    PROVE  \/ a \in Complete
           \/ IsRecursive /\ a \in Heads /\ a \notin program.negates[r]
<1>0. stage # "stratify"
    BY DEF UnderWay
<1>1. group \in DOMAIN strata /\ r \in Rules /\ program \in Programs /\ facts \in Databases
    BY <1>0, GroupIs, StrataAre
<1>2. a \in DOMAIN facts \cup Derivable
    BY <1>1, DataflowAssumption DEF Derivable
<1>3. SUFFICES ASSUME a \notin Complete
      PROVE  IsRecursive /\ a \in Heads /\ a \notin program.negates[r]
    OBVIOUS
<1>4. PICK s \in Rules : program.head[s] = a /\ s \notin Earlier
    BY <1>2, <1>3 DEF Complete
<1>5. s \in GroupRules /\ strata[group].recursive /\ a \notin program.negates[r]
    BY <1>0, <1>1, <1>4, DerivedBefore DEF Earlier, GroupRules
<1> QED
    BY <1>4, <1>5 DEF IsRecursive, Heads

LEMMA HeadsAreIncomplete ==
    ASSUME Types, Progress, UnderWay
    PROVE  /\ \A h \in Heads : h \notin Complete
           /\ GroupRules \cap Earlier = {}
           /\ Heads \subseteq Derivable
<1>0. stage # "stratify"
    BY DEF UnderWay
<1>1. group \in DOMAIN strata /\ GroupRules \subseteq Rules
    BY GroupIs
<1>2. GroupRules \cap Earlier = {}
    <2> SUFFICES ASSUME NEW r \in GroupRules, r \in Earlier
                 PROVE  FALSE
        OBVIOUS
    <2>1. PICK k \in 1 .. group - 1 : r \in strata[k].rules
        BY DEF Earlier
    <2>2. k \in DOMAIN strata /\ k # group
        BY <1>0, <2>1, StrataAre
    <2> QED
        BY <1>0, <1>1, <2>1, <2>2 DEF Progress, Layers!Layered, GroupRules
<1> QED
    BY <1>1, <1>2 DEF Heads, Complete, Derivable

LEMMA CompleteIsPresent ==
    ASSUME Types, Progress, stage # "stratify"
    PROVE  Complete \subseteq Present
BY DEF Complete, Present, Derivable

LEMMA PresentIsMade ==
    ASSUME Types, Progress, stage # "stratify"
    PROVE  /\ \A a \in Present : Atom(a) \in DOMAIN made
           /\ \A a : Atom(a) \in DOMAIN made => a \in Present
<1>1. DOMAIN made \ Signatures = {Atom(a) : a \in Present}
    BY DEF Progress
<1>2. \A a, b : Atom(a) = Atom(b) => a = b
    <2>1. \A a : Atom(a)[2][1] = a
        BY DEF Atom
    <2> QED
        BY <2>1
<1> QED
    BY <1>1, <1>2, AtomsAreApart

\* A relation of a recursive stratum is read in it, so that no later rule
\* derives it.
LEMMA RecursiveHeads ==
    ASSUME Types, Progress, stage # "stratify",
           NEW k \in DOMAIN strata, strata[k].recursive, NEW h \in HeadsOf(k)
    PROVE  /\ \E t \in strata[k].rules : h \in program.reads[t] \cup program.negates[t]
           /\ \A s \in Rules : program.head[s] = h => \E j \in 1 .. k : s \in strata[j].rules
<1>1. PICK r \in strata[k].rules : program.head[r] = h
    BY DEF HeadsOf
<1>2. PICK t \in strata[k].rules : r \in Layers!DependsOn(t)
    BY <1>1 DEF Progress, Layers!Layered
<1>3. h \in program.reads[t] \cup program.negates[t]
    BY <1>1, <1>2 DEF Layers!DependsOn
<1>4. ASSUME NEW s \in Rules, program.head[s] = h
      PROVE  \E j \in 1 .. k : s \in strata[j].rules
    <2>1. \/ \E j \in 1 .. k - 1 : s \in strata[j].rules
          \/ s \in strata[k].rules
        BY <1>3, <1>4, DerivedBefore
    <2>2. k \in 1 .. k /\ \A j \in 1 .. k - 1 : j \in 1 .. k
        BY StrataAre
    <2> QED
        BY <2>1, <2>2
<1> QED
    BY <1>3, <1>4

LEMMA SameMeaning ==
    ASSUME UNCHANGED <<strataVars, facts, group>>
    PROVE  /\ Complete' = Complete /\ Present' = Present /\ Heads' = Heads /\ HeadAtoms' = HeadAtoms
           /\ Signatures' = Signatures /\ Earlier' = Earlier /\ GroupRules' = GroupRules
           /\ (IsRecursive' = IsRecursive)
           /\ \A k : HeadsOf(k)' = HeadsOf(k) /\ (Plain(k)' <=> Plain(k))
           /\ \A h, m : Derived(h, m)' = Derived(h, m)
           /\ \A h, rs, m : SumOf(h, rs, m)' = SumOf(h, rs, m)
           /\ \A h : Once(h)' <=> Once(h)
<1>1. UNCHANGED <<program, phase, strata, facts, group>>
    BY DEF strataVars
<1>2. /\ Present' = Present /\ Heads' = Heads /\ HeadAtoms' = HeadAtoms
      /\ Signatures' = Signatures /\ Earlier' = Earlier /\ GroupRules' = GroupRules
      /\ IsRecursive' = IsRecursive
    BY SameGroup
<1>3. Complete' = Complete
    BY <1>1, <1>2 DEF Complete, Derivable
<1>4. \A k : HeadsOf(k)' = HeadsOf(k)
    BY <1>1 DEF HeadsOf
<1>5. \A k : Plain(k)' <=> Plain(k)
    BY <1>1, <1>4 DEF Plain
<1>6. \A r, m : Solutions(r, m)' = Solutions(r, m)
    BY <1>1 DEF Solutions
<1>7. \A h : Given(h)' = Given(h)
    BY <1>1 DEF Given
<1>8. \A h, rows : Aggregated(h, rows)' = Aggregated(h, rows)
    BY <1>1 DEF Aggregated
<1>9. \A h, m : Derived(h, m)' = Derived(h, m)
    BY <1>1, <1>6, <1>7, <1>8 DEF Derived
<1>10. \A h, rs, m : SumOf(h, rs, m)' = SumOf(h, rs, m)
    BY <1>1, <1>6, <1>7, <1>8 DEF SumOf
<1>11. \A h : Once(h)' <=> Once(h)
    BY <1>1 DEF Once
<1> QED
    BY <1>2, <1>3, <1>4, <1>5, <1>9, <1>10, <1>11

\* Collections that no step of a group touches mean what they did.
LEMMA MadeKeeps ==
    ASSUME UNCHANGED <<strataVars, facts, group, made>>,
           AllBinary, SharedMean, Sums, LeastOutside
    PROVE  AllBinary' /\ SharedMean' /\ Sums' /\ LeastOutside'
<1>1. UNCHANGED <<program, strata, facts, group, made>>
    BY DEF strataVars
<1>2. Outside' = Outside
    BY <1>1, SameMeaning DEF Outside
<1>3. AllBinary'
    BY <1>1 DEF AllBinary
<1>4. SharedMean'
    BY <1>1, <1>2, SameMeaning DEF SharedMean
<1>5. Sums'
    BY <1>1, <1>2, SameMeaning DEF Sums
<1>6. LeastOutside'
    BY <1>1, <1>2, SameMeaning DEF LeastOutside, ClosedUnder
<1> QED
    BY <1>3, <1>4, <1>5, <1>6

-----------------------------------------------------------------------------
(* Planning *)

\* What a scope enters from outside is complete.
LEMMA SharedIsComplete ==
    ASSUME DataflowInv, UnderWay, SharedMean, NEW s \in Signatures, s \in Source
    PROVE  Relations(s) \subseteq Complete
<1>1. HeadAtoms \cap Signatures = {}
    BY AtomsAreApart DEF HeadAtoms
<1>2. s \in DOMAIN made
    BY <1>1 DEF Source, DataflowInv, Entering
<1> QED
    BY <1>2 DEF SharedMean

LEMMA PlanMeansGrows ==
    ASSUME DataflowInv, UnderWay, PlanMeans,
           UNCHANGED <<strataVars, facts, group>>,
           planned.enters \subseteq planned'.enters,
           NEW new, Planned' \subseteq Planned \cup new,
           \A s \in new : /\ Relations(s) \subseteq ReadBy(GroupRules)
                          /\ IsRecursive => \A a \in Relations(s) :
                                a \in Complete \/ Atom(a) \in planned'.enters
    PROVE  PlanMeans'
<1>1. /\ Complete' = Complete /\ IsRecursive' = IsRecursive
      /\ ReadBy(GroupRules)' = ReadBy(GroupRules)
    BY SameMeaning, SameGroup
<1> QED
    BY <1>1 DEF PlanMeans

LEMMA ConstructMeans ==
    ASSUME DataflowInv, stage = "plan", PlanMeans,
           UNCHANGED <<strataVars, stage, facts, group, at, made, prior, inner>>,
           NEW out \in Signatures, Relations(out) \subseteq ReadBy(GroupRules), NEW rest,
           Construct(out, rest)
    PROVE  PlanMeans'
<1>1. planned \in Plans /\ UnderWay
    BY DEF DataflowInv, Types, UnderWay
<1>2. Marked(out) \in Plans /\ Marked(out).plan = planned.plan /\ Marked(out).enters = planned.enters
    BY <1>1 DEF Marked, Plans
<1>3. planned.plan \in Seq(Signatures)
    BY <1>1 DEF Plans
<1>4. CASE planned'.plan = planned.plan /\ planned.enters \subseteq planned'.enters
    <2> DEFINE new == {}
    <2>1. Planned' \subseteq Planned \cup new /\ \A s \in new : FALSE
        BY <1>4 DEF Planned
    <2> HIDE DEF new
    <2> QED
        BY <1>1, <1>4, <2>1, PlanMeansGrows
<1>5. CASE /\ IsLeaf(out)
           /\ planned'.plan = Append(planned.plan, out)
           /\ planned'.enters = planned.enters \cup ToSet(Inputs(out))
    <2>1. ToSet(Append(planned.plan, out)) = ToSet(planned.plan) \cup {out}
        BY <1>3, ToSetAppend
    <2>2. Planned' \subseteq Planned \cup {out}
        BY <1>5, <2>1 DEF Planned
    <2>3. ToSet(Inputs(out)) = {Atom(out[2][1])} /\ Relations(out) = {out[2][1]}
        BY <1>5, LeafInputs
    <2>4. \A a \in Relations(out) : Atom(a) \in planned'.enters
        BY <1>5, <2>3
    <2>5. planned.enters \subseteq planned'.enters
        BY <1>5
    <2> QED
        BY <1>1, <2>2, <2>4, <2>5, PlanMeansGrows
<1>6. \/ planned'.plan = planned.plan /\ planned.enters \subseteq planned'.enters
      \/ /\ IsLeaf(out)
         /\ planned'.plan = Append(planned.plan, out)
         /\ planned'.enters = planned.enters \cup ToSet(Inputs(out))
    <2>1. CASE out \in planned.seen \cup planned.nested
        BY <1>1, <2>1 DEF Construct, Plans
    <2>2. CASE out \notin planned.seen \cup planned.nested /\ IsLeaf(out)
        BY <1>2, <2>2 DEF Construct, Plans
    <2>3. CASE out \notin planned.seen \cup planned.nested /\ ~ IsLeaf(out)
        BY <1>2, <2>3 DEF Construct
    <2> QED
        BY <2>1, <2>2, <2>3
<1> QED
    BY <1>4, <1>5, <1>6

\* While a group is planned, nothing else changes.
LEMMA PlanningMeans ==
    ASSUME DataflowInv, MeaningInv, stage = "plan",
           UNCHANGED <<strataVars, stage, facts, group, at, made, prior, inner>>,
           PlanMeans'
    PROVE  MeaningInv'
<1>1. AllBinary /\ SharedMean /\ Sums /\ LeastOutside
    BY DEF MeaningInv
<1>2. AllBinary' /\ SharedMean' /\ Sums' /\ LeastOutside'
    BY <1>1, MadeKeeps
<1>3. ~ InScope'
    BY DEF InScope
<1> QED
    BY <1>2, <1>3 DEF MeaningInv

LEMMA PlanRuleMeans ==
    ASSUME DataflowInv, MeaningInv, NEW r \in Rules, PlanRule(r)
    PROVE  MeaningInv'
<1>1. /\ stage = "plan" /\ r \in left
      /\ Construct(Root(r), << >>)
      /\ UNCHANGED <<strataVars, stage, facts, group, at, made, prior, inner>>
    BY DEF PlanRule
<1>2. program \in Programs /\ r \in GroupRules /\ PlanMeans
    BY <1>1 DEF DataflowInv, Types, Lasts, UnderWay, MeaningInv
<1>3. Root(r) \in Signatures /\ Relations(Root(r)) = program.reads[r] \cup program.negates[r]
    BY <1>2, RuleIs
<1>4. Relations(Root(r)) \subseteq ReadBy(GroupRules)
    BY <1>2, <1>3 DEF ReadBy
<1>5. PlanMeans'
    BY <1>1, <1>2, <1>3, <1>4, ConstructMeans
<1> QED
    BY <1>1, <1>5, PlanningMeans

LEMMA PlanInputMeans ==
    ASSUME DataflowInv, MeaningInv, PlanInput
    PROVE  MeaningInv'
<1> DEFINE out == Head(Head(walking).inputs)
           rest == OnTop([Head(walking) EXCEPT !.inputs = Tail(@)], Tail(walking))
<1>1. /\ walking # << >> /\ Head(walking).inputs # << >>
      /\ UNCHANGED <<strataVars, stage, facts, group, left, at, made, prior, inner>>
    BY DEF PlanInput
<1>2. stage = "plan"
    BY <1>1, WalkingIsPlanning
<1>3. walking \in Seq(Frames) /\ Calls(walking, ReadBy(GroupRules), Ready, {}) /\ PlanMeans
    BY <1>2 DEF DataflowInv, Types, MeaningInv, UnderWay
<1>4. Construct(out, rest)
    BY DEF PlanInput, OnTop
<1> HIDE DEF out, rest
<1>5. out \in Signatures /\ Relations(out) \subseteq ReadBy(GroupRules)
    BY <1>1, <1>3, CallGoesOn DEF out, rest
<1>6. PlanMeans'
    BY <1>1, <1>2, <1>3, <1>4, <1>5, ConstructMeans
<1> QED
    BY <1>1, <1>2, <1>6, PlanningMeans

LEMMA PlanOutputMeans ==
    ASSUME DataflowInv, MeaningInv, PlanOutput
    PROVE  MeaningInv'
<1> DEFINE frame == Head(walking)
           out == frame.out
<1>1. /\ walking # << >> /\ frame.inputs = << >>
      /\ planned' = [planned EXCEPT !.plan = Append(@, out)]
      /\ UNCHANGED <<strataVars, stage, facts, group, left, at, made, prior, inner>>
    BY DEF PlanOutput
<1>2. stage = "plan" /\ UnderWay
    BY <1>1, WalkingIsPlanning DEF UnderWay
<1>3. /\ walking \in Seq(Frames) /\ Calls(walking, ReadBy(GroupRules), Ready, {})
      /\ planned \in Plans /\ PlanMeans /\ SharedMean
    BY <1>2 DEF DataflowInv, Types, MeaningInv
<1>4. frame \in Frames /\ Walked(frame, ReadBy(GroupRules), Ready)
    BY <1>1, <1>3, CallEnds
<1> HIDE DEF frame
<1>5. out \in Signatures
    BY <1>4 DEF Frames
<1> HIDE DEF out
<1>6. ~ IsLeaf(out) /\ Relations(out) \subseteq ReadBy(GroupRules)
    BY <1>4 DEF Walked, out
<1>7. /\ Inputs(out) \in Seq(Signatures) /\ Len(Inputs(out)) = 2
      /\ Relations(out) = Relations(Inputs(out)[1]) \cup Relations(Inputs(out)[2])
    BY <1>5, <1>6, OtherInputs
<1>8. Inputs(out) # << >> /\ Inputs(out)[1] \in Signatures /\ Inputs(out)[2] \in Signatures
    BY <1>7
<1>9. {Inputs(out)[1], Inputs(out)[2]} \subseteq Ready
    BY <1>1, <1>4, <1>8 DEF Walked, out
<1>10. ASSUME IsRecursive, NEW s \in Signatures, s \in Ready, NEW a \in Relations(s)
       PROVE  a \in Complete \/ Atom(a) \in planned.enters
    <2>1. CASE s \in Planned
        BY <1>3, <1>10, <2>1 DEF PlanMeans
    <2>2. CASE s \in Source
        BY <1>2, <1>3, <1>10, <2>2, SharedIsComplete
    <2> QED
        BY <1>10, <2>1, <2>2 DEF Ready
<1>11. IsRecursive => \A a \in Relations(out) : a \in Complete \/ Atom(a) \in planned.enters
    BY <1>7, <1>8, <1>9, <1>10
<1>12. planned.plan \in Seq(Signatures) /\ planned'.plan = Append(planned.plan, out) /\ planned'.enters = planned.enters
    BY <1>1, <1>3 DEF Plans
<1>13. Planned' \subseteq Planned \cup {out}
    <2>1. ToSet(Append(planned.plan, out)) = ToSet(planned.plan) \cup {out}
        BY <1>5, <1>12, ToSetAppend
    <2> QED
        BY <1>12, <2>1 DEF Planned
<1>14. planned.enters \subseteq planned'.enters
    BY <1>12
<1>15. PlanMeans'
    BY <1>1, <1>2, <1>3, <1>6, <1>11, <1>12, <1>13, <1>14, PlanMeansGrows
<1> QED
    BY <1>1, <1>2, <1>15, PlanningMeans

-----------------------------------------------------------------------------
(* Groups *)

LEMMA AtomIs ==
    ASSUME NEW a
    PROVE  Atom(a)[2][1] = a /\ Atom(a) \notin Signatures
BY AtomsAreApart DEF Atom

\* Whatever rows the heads of a scope have, what is complete means the same.
LEMMA CompleteMeansTheSame ==
    ASSUME DataflowInv, UnderWay, NEW rows
    PROVE  /\ \A a \in Complete : /\ a \in DOMAIN Outside /\ a \in DOMAIN With(rows)
                                  /\ With(rows)[a] = Outside[a]
           /\ DOMAIN With(rows) = Present \cup Heads
           /\ \A h \in Heads : With(rows)[h] = rows[h]
           /\ \A s \in Signatures : Relations(s) \subseteq Complete =>
                 Meaning(s, With(rows)) = Meaning(s, Outside)
<1>1. Types /\ Progress /\ stage # "stratify"
    BY DEF DataflowInv, UnderWay
<1>2. Complete \subseteq Present /\ \A h \in Heads : h \notin Complete
    BY <1>1, CompleteIsPresent, HeadsAreIncomplete
<1>3. \A a \in Complete : /\ a \in DOMAIN Outside /\ a \in DOMAIN With(rows)
                          /\ With(rows)[a] = Outside[a]
    BY <1>2 DEF Outside, With
<1>4. DOMAIN With(rows) = Present \cup Heads /\ \A h \in Heads : With(rows)[h] = rows[h]
    BY DEF With
<1>5. ASSUME NEW s \in Signatures, Relations(s) \subseteq Complete
      PROVE  Meaning(s, With(rows)) = Meaning(s, Outside)
    <2>1. \A a \in Relations(s) : /\ a \in DOMAIN Outside /\ a \in DOMAIN With(rows)
                                  /\ With(rows)[a] = Outside[a]
        BY <1>3, <1>5
    <2> QED
        BY <1>5, <2>1, MeaningAgrees
<1> QED
    BY <1>3, <1>4, <1>5

LEMMA WithSame ==
    ASSUME UNCHANGED <<strataVars, facts, group, made>>
    PROVE  \A rows : With(rows)' = With(rows)
<1>1. Present' = Present /\ Heads' = Heads
    BY SameGroup
<1> QED
    BY <1>1 DEF With

\* A round starts with what its scope enters and its variables.
LEMMA RoundMeans ==
    ASSUME DataflowInv, UnderWay, IsRecursive, AllBinary, SharedMean,
           UNCHANGED <<strataVars, facts, group, made>>,
           NEW variables, DOMAIN variables = HeadAtoms,
           \A a \in HeadAtoms : Binary(variables[a]),
           inner' = RoundOf(variables),
           prior' = [x \in HeadAtoms \cap DOMAIN made |-> made[x]]
    PROVE  ScopeMeans' /\ \A h \in Heads : inner'[Atom(h)] = variables[Atom(h)]
<1> DEFINE entered == [s \in (planned.enters \cap DOMAIN made) \ HeadAtoms |-> made[s]]
<1>1. /\ Heads' = Heads /\ HeadAtoms' = HeadAtoms /\ Signatures' = Signatures
    BY SameMeaning
<1>2. /\ DOMAIN entered = (planned.enters \cap DOMAIN made) \ HeadAtoms
      /\ \A x \in DOMAIN entered : entered[x] = made[x]
    OBVIOUS
<1>3. inner' = Over(entered, variables)
    BY DEF RoundOf
<1> HIDE DEF entered
<1>4. /\ DOMAIN inner' = DOMAIN entered \cup HeadAtoms
      /\ \A x \in DOMAIN entered : inner'[x] = made[x]
      /\ \A x \in HeadAtoms : inner'[x] = variables[x]
    <2>1. /\ DOMAIN Over(entered, variables) = DOMAIN entered \cup DOMAIN variables
          /\ \A x \in DOMAIN entered : Over(entered, variables)[x] = entered[x]
          /\ \A x \in DOMAIN variables \ DOMAIN entered : Over(entered, variables)[x] = variables[x]
        BY ONLY OverIs
    <2>2. \A x \in HeadAtoms : x \in DOMAIN variables \ DOMAIN entered
        BY <1>2
    <2> QED
        BY <1>2, <1>3, <2>1, <2>2
<1>5. \A x \in DOMAIN inner' : Binary(inner'[x])
    BY <1>2, <1>4 DEF AllBinary
<1>6. \A x \in DOMAIN inner' \ (Signatures \cup HeadAtoms) : x \in DOMAIN made /\ inner'[x] = made[x]
    BY <1>2, <1>4
<1>7. HeadAtoms \cap Signatures = {}
    BY AtomIs DEF HeadAtoms
<1>8. ASSUME NEW s \in DOMAIN inner' \cap Signatures, NEW rows
      PROVE  inner'[s] = Meaning(s, With(rows))
    <2>1. s \in DOMAIN made /\ inner'[s] = made[s]
        BY <1>2, <1>4, <1>7
    <2>2. Relations(s) \subseteq Complete /\ made[s] = Meaning(s, Outside)
        BY <2>1 DEF SharedMean
    <2>3. Meaning(s, With(rows)) = Meaning(s, Outside)
        BY <2>2, CompleteMeansTheSame
    <2> QED
        BY <2>1, <2>2, <2>3
<1>9. Inside' = With([h \in Heads |-> inner'[Atom(h)]])
    BY <1>1, WithSame DEF Inside
<1>10. \A s \in DOMAIN inner' \cap Signatures' : inner'[s] = Meaning(s, Inside')
    BY <1>1, <1>8, <1>9
<1>11. ScopeMeans'
    BY <1>1, <1>5, <1>6, <1>10 DEF ScopeMeans
<1> QED
    BY <1>4, <1>11 DEF HeadAtoms

\* A head of a scope that has rows from outside is among what it enters.
LEMMA HeadsAreEntered ==
    ASSUME DataflowInv, UnderWay, IsRecursive, left = {}, walking = << >>, SharedMean, PlanMeans
    PROVE  HeadAtoms \subseteq planned.enters
<1> SUFFICES ASSUME NEW h \in Heads
             PROVE  Atom(h) \in planned.enters
    BY DEF HeadAtoms
<1>1. Types /\ Progress /\ stage # "stratify" /\ Lasts
    BY DEF DataflowInv, UnderWay
<1>2. group \in DOMAIN strata /\ strata[group].recursive /\ h \in HeadsOf(group) /\ GroupRules \subseteq Rules
    BY <1>1, GroupIs DEF IsRecursive, Heads, HeadsOf, GroupRules
<1>3. PICK t \in GroupRules : h \in program.reads[t] \cup program.negates[t]
    BY <1>1, <1>2, RecursiveHeads DEF GroupRules
<1>4. Root(t) \in Signatures /\ h \in Relations(Root(t))
    BY <1>1, <1>2, <1>3, RuleIs DEF Types
<1>5. Root(t) \in Ready
    <2>1. Pending = {}
        BY DEF Pending, Outs
    <2> QED
        BY <1>1, <1>3, <2>1 DEF Lasts
<1>6. h \notin Complete
    BY <1>1, HeadsAreIncomplete
<1>7. Root(t) \in Planned
    BY <1>4, <1>5, <1>6, SharedIsComplete DEF Ready
<1> QED
    BY <1>4, <1>6, <1>7 DEF PlanMeans

LEMMA PlanKeeps ==
    ASSUME UNCHANGED <<strataVars, facts, group, planned>>, PlanMeans
    PROVE  PlanMeans'
<1>1. ReadBy(GroupRules)' = ReadBy(GroupRules)
    BY SameGroup
<1> QED
    BY <1>1, SameMeaning DEF PlanMeans, Planned

LEMMA OpenGroupMeans ==
    ASSUME DataflowInv, MeaningInv, OpenGroup
    PROVE  MeaningInv'
<1>1. /\ stage = "plan" /\ left = {} /\ walking = << >>
      /\ UNCHANGED <<strataVars, facts, group, left, walking, planned, at, made>>
    BY DEF OpenGroup
<1>2. /\ AllBinary /\ SharedMean /\ Sums /\ LeastOutside /\ PlanMeans /\ UnderWay /\ Entering
    BY <1>1 DEF MeaningInv, UnderWay, DataflowInv
<1>3. /\ stage' = "operate"
      /\ IsRecursive => /\ inner' = RoundOf([a \in HeadAtoms |-> {}])
                        /\ prior' = [a \in planned.enters \cap DOMAIN made \cap HeadAtoms |-> made[a]]
    BY <1>2 DEF OpenGroup, Entering
<1>4. AllBinary' /\ SharedMean' /\ Sums' /\ LeastOutside'
    BY <1>1, <1>2, MadeKeeps
<1>5. PlanMeans'
    BY <1>1, <1>2, PlanKeeps
<1>6. ASSUME IsRecursive
      PROVE  ScopeMeans' /\ LeastInside'
    <2> DEFINE variables == [a \in HeadAtoms |-> {}]
    <2>1. DOMAIN variables = HeadAtoms /\ \A a \in HeadAtoms : variables[a] = {} /\ Binary(variables[a])
        BY EmptyIsBinary
    <2>2. inner' = RoundOf(variables)
        BY <1>3, <1>6
    <2> HIDE DEF variables
    <2>3. planned.enters \cap DOMAIN made \cap HeadAtoms = HeadAtoms \cap DOMAIN made
        BY <1>1, <1>2, <1>6, HeadsAreEntered
    <2>4. prior' = [x \in HeadAtoms \cap DOMAIN made |-> made[x]]
        BY <1>3, <1>6, <2>3
    <2>5. ScopeMeans' /\ \A h \in Heads : inner'[Atom(h)] = variables[Atom(h)]
        BY <1>1, <1>2, <1>6, <2>1, <2>2, <2>4, RoundMeans
    <2>6. Heads' = Heads
        BY <1>1, SameGroup
    <2>7. \A h \in Heads' : inner'[Atom(h)] = {}
        BY <2>1, <2>5, <2>6 DEF HeadAtoms
    <2> QED
        BY <2>5, <2>7 DEF LeastInside
<1>7. IsRecursive' = IsRecursive
    BY <1>1, SameGroup
<1> QED
    BY <1>4, <1>5, <1>6, <1>7 DEF MeaningInv, InScope

LEMMA OutsideKeeps ==
    ASSUME DataflowInv, stage # "stratify", UNCHANGED <<strataVars, facts, group>>,
           \A a \in Present : made'[Atom(a)] = made[Atom(a)],
           Sums, LeastOutside
    PROVE  Outside' = Outside /\ Sums' /\ LeastOutside'
<1>1. Present' = Present /\ strata' = strata /\ group' = group
    BY SameMeaning DEF strataVars
<1>2. Outside' = Outside
    BY <1>1 DEF Outside
<1>3. Sums'
    BY <1>1, <1>2, SameMeaning DEF Sums, strataVars
<1>4. \A k \in 1 .. group - 1 : HeadsOf(k) \subseteq Present
    BY DEF HeadsOf, Present, Earlier
<1>5. LeastOutside'
    <2> SUFFICES ASSUME NEW k \in 1 .. group - 1, Plain(k),
                        NEW rows, ClosedUnder(HeadsOf(k), rows, Outside),
                        NEW h \in HeadsOf(k)
                 PROVE  made'[Atom(h)] \subseteq rows[h]
        BY <1>1, <1>2, SameMeaning DEF LeastOutside, ClosedUnder
    <2>1. made[Atom(h)] \subseteq rows[h]
        BY DEF LeastOutside
    <2> QED
        BY <1>4, <2>1
<1> QED
    BY <1>2, <1>3, <1>5

\* The rows of an operator, from those of what it reads.
LEMMA OperatorMeans ==
    ASSUME NEW out \in Signatures, NEW model, NEW collections,
           \A a \in Relations(out) : a \in DOMAIN model /\ Binary(model[a]),
           ToSet(Inputs(out)) \subseteq DOMAIN collections,
           \A s \in DOMAIN collections \cap Signatures : collections[s] = Meaning(s, model),
           \A a \in Relations(out) : Atom(a) \in DOMAIN collections => collections[Atom(a)] = model[a],
           \A x \in DOMAIN collections : Binary(collections[x])
    PROVE  /\ Value(out, collections) = Meaning(out, model)
           /\ Binary(Value(out, collections))
<1>1. Binary(Value(out, collections))
    BY ValueIsBinary
<1>2. ASSUME IsLeaf(out)
      PROVE  collections[Inputs(out)[1]] = model[out[2][1]]
    <2>1. /\ Inputs(out) = <<Atom(out[2][1])>> /\ ToSet(Inputs(out)) = {Atom(out[2][1])}
          /\ Relations(out) = {out[2][1]}
        BY <1>2, LeafInputs
    <2>2. Inputs(out)[1] = Atom(out[2][1])
        BY <2>1
    <2> QED
        BY <2>1, <2>2
<1>3. ASSUME ~ IsLeaf(out)
      PROVE  /\ collections[Inputs(out)[1]] = Meaning(Inputs(out)[1], model)
             /\ collections[Inputs(out)[2]] = Meaning(Inputs(out)[2], model)
    <2>1. /\ ToSet(Inputs(out)) = {Inputs(out)[1], Inputs(out)[2]}
          /\ Inputs(out) \in Seq(Signatures) /\ Len(Inputs(out)) = 2
        BY <1>3, OtherInputs
    <2>2. Inputs(out)[1] \in Signatures /\ Inputs(out)[2] \in Signatures
        BY <2>1
    <2>3. Inputs(out)[1] \in DOMAIN collections /\ Inputs(out)[2] \in DOMAIN collections
        BY <2>1
    <2> QED
        BY <2>2, <2>3
<1> QED
    BY <1>1, <1>2, <1>3, ValueMeans

LEMMA OperateMeans ==
    ASSUME DataflowInv, MeaningInv, Operate
    PROVE  MeaningInv'
<1> DEFINE out == planned.plan[at]
           value == [o \in {out} |-> Value(o, made)]
<1>1. OperatorsLeft /\ ~ IsRecursive /\ stage = "operate" /\ UnderWay
    BY DEF Operate, OperatorsLeft, UnderWay
<1>2. /\ ToSet(Inputs(out)) \subseteq DOMAIN made /\ out \in Signatures
      /\ at \in 1 .. Len(planned.plan)
    BY <1>1, InputsAreThere DEF There
<1>3. /\ made' = Over(value, made)
      /\ UNCHANGED <<strataVars, stage, facts, group, left, walking, planned, prior, inner>>
    BY <1>2 DEF Operate
<1>4. AllBinary /\ SharedMean /\ Sums /\ LeastOutside /\ PlanMeans
    BY <1>1 DEF MeaningInv
<1>5. Types /\ Progress /\ stage # "stratify" /\ program \in Programs
    BY <1>1 DEF DataflowInv, Types
<1>6. DOMAIN value = {out} /\ value[out] = Value(out, made)
    OBVIOUS
<1>7. out \in Planned
    <2>1. planned.plan \in Seq(Signatures)
        BY <1>5 DEF Types, Plans
    <2>2. DOMAIN planned.plan = 1 .. Len(planned.plan)
        BY <2>1
    <2> QED
        BY <1>2, <2>2 DEF Planned, ToSet
<1> HIDE DEF value, out
<1>8. DOMAIN made' = DOMAIN made \cup {out} /\ made'[out] = Value(out, made)
      /\ \A x \in DOMAIN made \ {out} : made'[x] = made[x]
    <2>1. /\ DOMAIN Over(value, made) = DOMAIN value \cup DOMAIN made
          /\ \A x \in DOMAIN value : Over(value, made)[x] = value[x]
          /\ \A x \in DOMAIN made \ DOMAIN value : Over(value, made)[x] = made[x]
        BY ONLY OverIs
    <2> QED
        BY <1>3, <1>6, <2>1
<1>9. Relations(out) \subseteq Complete
    <2> SUFFICES ASSUME NEW a \in Relations(out)
                 PROVE  a \in Complete
        OBVIOUS
    <2>1. PICK r \in GroupRules : a \in program.reads[r] \cup program.negates[r]
        BY <1>4, <1>7 DEF PlanMeans, ReadBy
    <2> QED
        BY <1>1, <1>5, <2>1, GroupReads
<1>10. \A a \in Present : Atom(a) \in DOMAIN made
    BY <1>5, PresentIsMade
<1>11. \A a \in Relations(out) : a \in DOMAIN Outside /\ Binary(Outside[a])
    BY <1>4, <1>5, <1>9, <1>10, CompleteIsPresent DEF Outside, AllBinary
<1>12. \A a \in Relations(out) : made[Atom(a)] = Outside[a]
    BY <1>5, <1>9, CompleteIsPresent DEF Outside
<1>13. Value(out, made) = Meaning(out, Outside) /\ Binary(Value(out, made))
    <2>1. \A s \in DOMAIN made \cap Signatures : made[s] = Meaning(s, Outside)
        BY <1>4 DEF SharedMean
    <2>2. \A x \in DOMAIN made : Binary(made[x])
        BY <1>4 DEF AllBinary
    <2> QED
        BY <1>2, <1>11, <1>12, <2>1, <2>2, OperatorMeans
<1>14. \A a \in Present : made'[Atom(a)] = made[Atom(a)]
    BY <1>2, <1>8, <1>10, AtomIs
<1>15. Outside' = Outside /\ Sums' /\ LeastOutside'
    BY <1>3, <1>4, <1>5, <1>14, OutsideKeeps
<1>16. AllBinary'
    BY <1>4, <1>8, <1>13 DEF AllBinary
<1>17. SharedMean'
    <2>1. Signatures' = Signatures /\ Complete' = Complete
        BY <1>3, SameMeaning
    <2> QED
        BY <1>4, <1>8, <1>9, <1>13, <1>15, <2>1 DEF SharedMean
<1>18. PlanMeans'
    BY <1>3, <1>4, PlanKeeps
<1>19. ~ InScope'
    BY <1>1, <1>3, SameGroup DEF InScope
<1> QED
    BY <1>15, <1>16, <1>17, <1>18, <1>19 DEF MeaningInv

LEMMA OperateInScopeMeans ==
    ASSUME DataflowInv, MeaningInv, OperateInScope
    PROVE  MeaningInv'
<1> DEFINE out == planned.plan[at]
           value == [o \in {out} |-> Value(o, inner)]
<1>1. OperatorsLeft /\ IsRecursive /\ stage = "operate" /\ UnderWay /\ InScope
    BY DEF OperateInScope, OperatorsLeft, UnderWay, InScope
<1>2. /\ ToSet(Inputs(out)) \subseteq DOMAIN inner /\ out \in Signatures
      /\ at \in 1 .. Len(planned.plan)
    BY <1>1, InputsAreThere DEF There
<1>3. /\ inner' = Over(value, inner)
      /\ UNCHANGED <<strataVars, stage, facts, group, left, walking, planned, made, prior>>
    BY <1>2 DEF OperateInScope
<1>4. /\ AllBinary /\ SharedMean /\ Sums /\ LeastOutside /\ PlanMeans
      /\ ScopeMeans /\ LeastInside
    BY <1>1 DEF MeaningInv
<1>5. Types /\ Progress /\ stage # "stratify" /\ program \in Programs /\ Operating
    BY <1>1 DEF DataflowInv, Types
<1>6. DOMAIN value = {out} /\ value[out] = Value(out, inner)
    OBVIOUS
<1>7. out \in Planned
    <2>1. planned.plan \in Seq(Signatures)
        BY <1>5 DEF Types, Plans
    <2>2. DOMAIN planned.plan = 1 .. Len(planned.plan)
        BY <2>1
    <2> QED
        BY <1>2, <2>2 DEF Planned, ToSet
<1> HIDE DEF value, out
<1>8. DOMAIN inner' = DOMAIN inner \cup {out} /\ inner'[out] = Value(out, inner)
      /\ \A x \in DOMAIN inner \ {out} : inner'[x] = inner[x]
    <2>1. /\ DOMAIN Over(value, inner) = DOMAIN value \cup DOMAIN inner
          /\ \A x \in DOMAIN value : Over(value, inner)[x] = value[x]
          /\ \A x \in DOMAIN inner \ DOMAIN value : Over(value, inner)[x] = inner[x]
        BY ONLY OverIs
    <2> QED
        BY <1>3, <1>6, <2>1
<1>9. Relations(out) \subseteq Present \cup Heads
    <2> SUFFICES ASSUME NEW a \in Relations(out)
                 PROVE  a \in Present \cup Heads
        OBVIOUS
    <2>1. PICK r \in GroupRules : a \in program.reads[r] \cup program.negates[r]
        BY <1>4, <1>7 DEF PlanMeans, ReadBy
    <2>2. a \in Complete \/ a \in Heads
        BY <1>1, <1>5, <2>1, GroupReads
    <2> QED
        BY <1>5, <2>2, CompleteIsPresent
<1>10. /\ \A a \in Present : Atom(a) \in DOMAIN made
       /\ \A h \in Heads : Atom(h) \in DOMAIN inner
    BY <1>1, <1>5, PresentIsMade DEF Operating, There, HeadAtoms
<1>11. \A a \in Relations(out) : a \in DOMAIN Inside /\ Binary(Inside[a])
    BY <1>4, <1>9, <1>10 DEF Inside, With, AllBinary, ScopeMeans
<1>12. ASSUME NEW a \in Relations(out), Atom(a) \in DOMAIN inner
       PROVE  inner[Atom(a)] = Inside[a]
    <2>1. CASE a \in Heads
        BY <2>1 DEF Inside, With
    <2>2. CASE a \notin Heads
        <3>1. Atom(a) \notin HeadAtoms
            BY <2>2, AtomIs DEF HeadAtoms
        <3>2. inner[Atom(a)] = made[Atom(a)]
            BY <1>4, <1>12, <3>1, AtomIs DEF ScopeMeans
        <3> QED
            BY <1>9, <2>2, <3>2 DEF Inside, With
    <2> QED
        BY <2>1, <2>2
<1>13. Value(out, inner) = Meaning(out, Inside) /\ Binary(Value(out, inner))
    <2>1. \A s \in DOMAIN inner \cap Signatures : inner[s] = Meaning(s, Inside)
        BY <1>4 DEF ScopeMeans
    <2>2. \A x \in DOMAIN inner : Binary(inner[x])
        BY <1>4 DEF ScopeMeans
    <2> QED
        BY <1>2, <1>11, <1>12, <2>1, <2>2, OperatorMeans
<1>14. \A h \in Heads : inner'[Atom(h)] = inner[Atom(h)]
    BY <1>2, <1>8, <1>10, AtomIs
<1>15. /\ Signatures' = Signatures /\ HeadAtoms' = HeadAtoms /\ Heads' = Heads
       /\ IsRecursive' = IsRecursive
    BY <1>3, SameMeaning
<1>16. Inside' = Inside
    <2>1. [h \in Heads |-> inner'[Atom(h)]] = [h \in Heads |-> inner[Atom(h)]]
        BY <1>14
    <2> QED
        BY <1>3, <1>15, <2>1, WithSame DEF Inside
<1>17. ScopeMeans'
    BY <1>2, <1>3, <1>4, <1>8, <1>13, <1>15, <1>16 DEF ScopeMeans
<1>18. LeastInside'
    <2>1. group' = group /\ (Plain(group)' <=> Plain(group))
        BY <1>3, SameMeaning
    <2>2. \A rows : With(rows)' = With(rows)
        BY <1>3, WithSame
    <2> QED
        BY <1>3, <1>4, <1>14, <2>1, <2>2, SameMeaning DEF LeastInside
<1>19. PlanMeans'
    BY <1>3, <1>4, PlanKeeps
<1>20. AllBinary' /\ SharedMean' /\ Sums' /\ LeastOutside'
    BY <1>3, <1>4, MadeKeeps
<1> QED
    BY <1>17, <1>18, <1>19, <1>20 DEF MeaningInv

-----------------------------------------------------------------------------
(* Collectors *)

LEMMA EarlierSolutions ==
    ASSUME DataflowInv, UnderWay, NEW r \in Earlier, NEW rows
    PROVE  Solutions(r, With(rows)) = Solutions(r, Outside)
<1>1. Types /\ Progress /\ stage # "stratify" /\ program \in Programs
    BY DEF DataflowInv, UnderWay, Types
<1>2. r \in Rules
    BY <1>1, StrataAre
<1>3. \A a \in program.reads[r] \cup program.negates[r] : a \in Complete
    BY <1>1, EarlierReads
<1>4. \A a \in program.reads[r] \cup program.negates[r] :
         a \in DOMAIN With(rows) /\ a \in DOMAIN Outside /\ With(rows)[a] = Outside[a]
    BY <1>3, CompleteMeansTheSame
<1> QED
    BY <1>1, <1>2, <1>4, SolutionsAgree

LEMMA SolutionsAreNumbers ==
    ASSUME program \in Programs, NEW r \in Rules, NEW model,
           \A a \in program.reads[r] : a \in DOMAIN model /\ Binary(model[a]),
           NEW row \in Solutions(r, model)
    PROVE  row[2] \in Nat
<1> DEFINE body == program.body[r]
<1>1. /\ body \in Seq(program.reads[r]) /\ body # << >>
      /\ Len(body) \in Nat \ {0} /\ Len(body) \in DOMAIN body
      /\ body[Len(body)] \in program.reads[r]
    BY DataflowAssumption
<1>2. row \in Joined(body, model)
    BY SolutionsAre
<1> HIDE DEF body
<1>3. PICK w \in [1 .. (Len(body) + 1) -> Nodes(model)] :
          Follows(w, body, model) /\ row = <<w[1], w[Len(body) + 1]>>
    BY <1>2, JoinedGives
<1>4. <<w[Len(body)], w[Len(body) + 1]>> \in model[body[Len(body)]]
    BY <1>1, <1>3 DEF Follows
<1> QED
    BY <1>1, <1>3, <1>4, BinaryRows

LEMMA EarlierSolutionsAreNumbers ==
    ASSUME DataflowInv, UnderWay, AllBinary, NEW r \in Earlier, NEW row \in Solutions(r, Outside)
    PROVE  row[2] \in Nat
<1>1. Types /\ Progress /\ stage # "stratify" /\ program \in Programs
    BY DEF DataflowInv, UnderWay, Types
<1>2. r \in Rules
    BY <1>1, StrataAre
<1>3. \A a \in program.reads[r] : a \in Present
    BY <1>1, EarlierReads, CompleteIsPresent
<1>4. \A a \in program.reads[r] : a \in DOMAIN Outside /\ Binary(Outside[a])
    BY <1>1, <1>3, PresentIsMade DEF Outside, AllBinary
<1> QED
    BY <1>1, <1>2, <1>4, SolutionsAreNumbers

\* A collector adds what the rules of the group derive of a head to what
\* earlier groups have, unless some have been counted before.
LEMMA GatheredMeans ==
    ASSUME DataflowInv, UnderWay, Sums, AllBinary, NEW h \in Heads, Once(h),
           NEW model, NEW before, NEW collections,
           \A last \in LastSignatures(h) : Binary(collections[last]),
           \A r \in GroupRules : collections[Root(r)] = Solutions(r, model),
           \A r \in Earlier : Solutions(r, model) = Solutions(r, Outside),
           Atom(h) \in DOMAIN before <=> h \in Present,
           h \in Present => before[Atom(h)] = made[Atom(h)]
    PROVE  Gathered(Atom(h), before, collections) = SumOf(h, Earlier \cup GroupRules, model)
<1> DEFINE new == UNION {collections[last] : last \in LastSignatures(h)}
           old == IF Atom(h) \in DOMAIN before THEN before[Atom(h)] ELSE {}
           Sum(rs) == UNION {Solutions(r, model) : r \in {s \in rs : program.head[s] = h}}
<1>1. Types /\ Progress /\ stage # "stratify" /\ program \in Programs
    BY DEF DataflowInv, UnderWay, Types
<1>2. /\ group \in DOMAIN strata /\ h \in {program.head[r] : r \in Rules}
      /\ \A k \in DOMAIN strata : \A r \in strata[group].rules : r \in strata[k].rules => k = group
    BY <1>1, GroupIs DEF Heads, Progress, Layers!Layered
<1>3. Gathered(Atom(h), before, collections) = Aggregated(h, new \cup old)
    BY AtomIs DEF Gathered
<1>4. new = Sum(GroupRules)
    BY DEF LastSignatures
<1>5. Sum(Earlier) = UNION {Solutions(r, Outside) : r \in {s \in Earlier : program.head[s] = h}}
    OBVIOUS
<1> DEFINE sum == Sum(Earlier) \cup Given(h)
<1>6. Aggregated(h, new \cup old) = Aggregated(h, new \cup sum)
    <2>1. CASE h \notin Present
        <3>1. old = sum
            BY <2>1 DEF Present, Given
        <3> QED
            BY <3>1
    <2>2. CASE h \in Present /\ ~ \E r \in Earlier : program.head[r] = h
        <3>1. h \in DOMAIN facts
            BY <2>2 DEF Present
        <3>2. old = facts[h]
            BY <2>2 DEF Sums
        <3>3. Sum(Earlier) = {} /\ Given(h) = facts[h]
            BY <2>2, <3>1 DEF Given
        <3>4. old = sum
            BY <3>2, <3>3
        <3> QED
            BY <3>4
    <2>3. CASE h \in Present /\ \E r \in Earlier : program.head[r] = h
        <3>1. program.aggregate[h] \in {"none", "min"}
            <4> SUFFICES ASSUME NEW k \in DOMAIN strata,
                                \A r \in Rules : program.head[r] = h => r \in strata[k].rules
                         PROVE  FALSE
                BY DEF Once
            <4>1. PICK r \in Earlier : program.head[r] = h
                BY <2>3
            <4>2. PICK s \in GroupRules : program.head[s] = h
                BY DEF Heads
            <4>3. r \in Rules /\ s \in Rules /\ GroupRules \cap Earlier = {}
                BY <1>1, <4>1, <4>2, StrataAre, GroupIs, HeadsAreIncomplete
            <4>4. r \in strata[k].rules /\ s \in strata[k].rules
                BY <4>1, <4>2, <4>3
            <4>5. k = group
                BY <1>2, <4>2, <4>4 DEF GroupRules
            <4> QED
                BY <4>1, <4>3, <4>4, <4>5 DEF GroupRules
        <3>2. made[Atom(h)] = SumOf(h, Earlier, Outside)
            BY <2>3 DEF Sums
        <3>3. SumOf(h, Earlier, Outside) = Aggregated(h, sum)
            <4> HIDE DEF Sum
            <4> QED
                BY <1>5 DEF SumOf
        <3>4. old = Aggregated(h, sum)
            BY <2>3, <3>2, <3>3
        <3>5. \A row \in new \cup sum : row[2] \in Nat
            <4>1. \A row \in new : row[2] \in Nat
                BY BinaryRows
            <4>2. \A row \in Sum(Earlier) : row[2] \in Nat
                BY EarlierSolutionsAreNumbers
            <4>3. h \in DOMAIN facts => Binary(facts[h])
                BY <1>1, StrataAre, DataflowAssumption DEF Binary
            <4>4. \A row \in Given(h) : row[2] \in Nat
                BY <4>3, BinaryRows DEF Given
            <4> HIDE DEF Sum, new
            <4> QED
                BY <4>1, <4>2, <4>4
        <3> HIDE DEF new, old, sum
        <3>6. CASE program.aggregate[h] = "none"
            <4>1. Aggregated(h, sum) = sum
                BY <1>1, <1>2, <3>6, AggregatedIs
            <4> QED
                BY <3>4, <4>1
        <3>7. CASE program.aggregate[h] = "min"
            <4>1. \A some, more : (\A row \in some \cup more : row[2] \in Nat) =>
                     Aggregated(h, some \cup Aggregated(h, more)) = Aggregated(h, some \cup more)
                BY <3>7, MinOfMin
            <4>2. Aggregated(h, new \cup Aggregated(h, sum)) = Aggregated(h, new \cup sum)
                BY <3>5, <4>1
            <4> QED
                BY <3>4, <4>2
        <3> QED
            BY <3>1, <3>6, <3>7
    <2> QED
        BY <2>1, <2>2, <2>3
<1>7. Sum(Earlier \cup GroupRules) = Sum(Earlier) \cup Sum(GroupRules)
    OBVIOUS
<1>8. SumOf(h, Earlier \cup GroupRules, model) = Aggregated(h, Sum(Earlier \cup GroupRules) \cup Given(h))
    BY DEF SumOf
<1> HIDE DEF new, old, Sum
<1>9. new \cup sum = Sum(Earlier \cup GroupRules) \cup Given(h)
    BY <1>4, <1>7
<1> HIDE DEF sum
<1> QED
    BY <1>3, <1>6, <1>8, <1>9

LEMMA GatheredIsBinary ==
    ASSUME program \in Programs, NEW h \in {program.head[r] : r \in Rules},
           GroupRules \subseteq Rules, NEW before, NEW collections,
           \A last \in LastSignatures(h) : Binary(collections[last]),
           Atom(h) \in DOMAIN before => Binary(before[Atom(h)])
    PROVE  Binary(Gathered(Atom(h), before, collections))
<1> DEFINE rows == (UNION {collections[last] : last \in LastSignatures(h)})
                   \cup (IF Atom(h) \in DOMAIN before THEN before[Atom(h)] ELSE {})
<1>1. Gathered(Atom(h), before, collections) = Aggregated(h, rows)
    BY AtomIs DEF Gathered
<1>2. IsFiniteSet(LastSignatures(h))
    <2> DEFINE rs == {s \in GroupRules : program.head[s] = h}
               f == [r \in rs |-> Root(r)]
    <2>1. IsFiniteSet(rs)
        BY DataflowAssumption, FS_Subset
    <2>2. f = [x \in DOMAIN f |-> f[x]] /\ DOMAIN f = rs /\ LastSignatures(h) = {f[x] : x \in DOMAIN f}
        BY DEF LastSignatures
    <2> HIDE DEF rs, f
    <2> QED
        BY <2>1, <2>2, FunctionImageIsFinite
<1>3. IsFiniteSet({collections[last] : last \in LastSignatures(h)})
    <2> DEFINE f == [last \in LastSignatures(h) |-> collections[last]]
    <2>1. /\ f = [x \in DOMAIN f |-> f[x]] /\ DOMAIN f = LastSignatures(h)
          /\ {collections[last] : last \in LastSignatures(h)} = {f[x] : x \in DOMAIN f}
        OBVIOUS
    <2> HIDE DEF f
    <2> QED
        BY <1>2, <2>1, FunctionImageIsFinite
<1>4. Binary(UNION {collections[last] : last \in LastSignatures(h)})
    <2>1. \A some \in {collections[last] : last \in LastSignatures(h)} : IsFiniteSet(some)
        BY DEF Binary
    <2>2. IsFiniteSet(UNION {collections[last] : last \in LastSignatures(h)})
        BY <1>3, <2>1, FS_UNION
    <2> QED
        BY <2>2 DEF Binary
<1>5. Binary(rows)
    BY <1>4, FS_Union, EmptyIsBinary DEF Binary
<1> HIDE DEF rows
<1> QED
    BY <1>1, <1>5, AggregatedIs

LEMMA NextGroupIs ==
    ASSUME DataflowInv, UnderWay, UNCHANGED <<strataVars, facts>>, NextGroup
    PROVE  /\ Earlier' = Earlier \cup GroupRules
           /\ Present' = Present \cup Heads
           /\ Complete \subseteq Complete'
           /\ Signatures' = Signatures /\ group' = group + 1
           /\ \A k : HeadsOf(k)' = HeadsOf(k) /\ (Plain(k)' <=> Plain(k))
           /\ \A r, m : Solutions(r, m)' = Solutions(r, m)
           /\ \A h, m : Derived(h, m)' = Derived(h, m)
           /\ \A h, rs, m : SumOf(h, rs, m)' = SumOf(h, rs, m)
           /\ \A h : Once(h)' <=> Once(h)
           /\ \A k : k \in 1 .. group' - 1 <=> k \in 1 .. group - 1 \/ k = group
<1>1. UNCHANGED <<program, phase, strata, facts>> /\ group' = group + 1
    BY DEF strataVars, NextGroup
<1>2. group \in 1 .. Len(strata) /\ Len(strata) \in Nat
    BY GroupIs DEF DataflowInv
<1>3. \A k : k \in 1 .. group' - 1 <=> k \in 1 .. group - 1 \/ k = group
    BY <1>1, <1>2
<1>4. Earlier' = Earlier \cup GroupRules
    BY <1>1, <1>3 DEF Earlier, GroupRules
<1>5. Present' = Present \cup Heads
    BY <1>1, <1>4 DEF Present, Heads
<1>6. Complete \subseteq Complete'
    BY <1>1, <1>4 DEF Complete, Derivable
<1>7. Signatures' = Signatures
    BY <1>1 DEF Signatures, Bodies, Names
<1>8. \A k : HeadsOf(k)' = HeadsOf(k)
    BY <1>1 DEF HeadsOf
<1>9. \A k : Plain(k)' <=> Plain(k)
    BY <1>1, <1>8 DEF Plain
<1>10. \A r, m : Solutions(r, m)' = Solutions(r, m)
    BY <1>1 DEF Solutions
<1>11. \A h : Given(h)' = Given(h)
    BY <1>1 DEF Given
<1>12. \A h, rows : Aggregated(h, rows)' = Aggregated(h, rows)
    BY <1>1 DEF Aggregated
<1>13. \A h, m : Derived(h, m)' = Derived(h, m)
    BY <1>1, <1>10, <1>11, <1>12 DEF Derived
<1>14. \A h, rs, m : SumOf(h, rs, m)' = SumOf(h, rs, m)
    BY <1>1, <1>10, <1>11, <1>12 DEF SumOf
<1>15. \A h : Once(h)' <=> Once(h)
    BY <1>1 DEF Once
<1> QED
    BY <1>1, <1>3, <1>4, <1>5, <1>6, <1>7, <1>8, <1>9, <1>10, <1>13, <1>14, <1>15

\* Relations of a recursive stratum that is behind are complete.
LEMMA RecursiveIsComplete ==
    ASSUME DataflowInv, UnderWay, NEW k \in 1 .. group - 1, strata[k].recursive
    PROVE  HeadsOf(k) \subseteq Complete
<1>1. Types /\ Progress /\ stage # "stratify"
    BY DEF DataflowInv, UnderWay
<1>2. k \in DOMAIN strata /\ strata[k].rules \subseteq Rules /\ \A j \in 1 .. k : j \in 1 .. group - 1
    BY <1>1, StrataAre
<1>3. \A h \in HeadsOf(k) : h \in Derivable
    BY <1>2 DEF HeadsOf, Derivable
<1>4. \A h \in HeadsOf(k) : \A s \in Rules : program.head[s] = h => s \in Earlier
    BY <1>1, <1>2, RecursiveHeads DEF Earlier
<1> QED
    BY <1>3, <1>4 DEF Complete

LEMMA NothingUnderWay ==
    ASSUME DataflowInv, UNCHANGED <<strataVars, facts>>, NextGroup
    PROVE  (UnderWay' => PlanMeans') /\ ~ InScope'
<1>1. planned'.plan = << >>
    <2>1. planned \in Plans
        BY DEF DataflowInv, Types
    <2> QED
        BY <2>1 DEF NextGroup, Plans
<1>2. Planned' = {}
    BY <1>1 DEF Planned, ToSet
<1>3. stage' # "operate"
    BY DEF NextGroup
<1> QED
    BY <1>2, <1>3 DEF PlanMeans, InScope

\* The rows of the heads of a group go into the maps.
LEMMA GroupEnds ==
    ASSUME DataflowInv, MeaningInv, UnderWay, UNCHANGED <<strataVars, facts>>, NextGroup,
           NEW rows, DOMAIN rows = HeadAtoms, made' = Over(rows, made),
           NEW heads, heads = [h \in Heads |-> rows[Atom(h)]],
           \A h \in Heads : Binary(heads[h]),
           \A h \in Heads : Once(h) => heads[h] = SumOf(h, Earlier \cup GroupRules, With(heads)),
           Plain(group) =>
              \A N : (\A h \in Heads : SumOf(h, Earlier \cup GroupRules, With(N)) \subseteq N[h])
                        => \A h \in Heads : heads[h] \subseteq N[h]
    PROVE  MeaningInv'
<1>1. Types /\ Progress /\ stage # "stratify" /\ program \in Programs
    BY DEF DataflowInv, Types, UnderWay
<1>2. AllBinary /\ SharedMean /\ Sums /\ LeastOutside
    BY <1>1 DEF MeaningInv
<1>3. /\ Earlier' = Earlier \cup GroupRules
      /\ Present' = Present \cup Heads
      /\ Complete \subseteq Complete'
      /\ Signatures' = Signatures /\ group' = group + 1
    BY NextGroupIs
<1>0. /\ UNCHANGED <<program, facts>>
      /\ \A k : HeadsOf(k)' = HeadsOf(k) /\ (Plain(k)' <=> Plain(k))
      /\ \A h, m : Derived(h, m)' = Derived(h, m)
      /\ \A h, rs, m : SumOf(h, rs, m)' = SumOf(h, rs, m)
      /\ \A h : Once(h)' <=> Once(h)
      /\ \A k : k \in 1 .. group' - 1 <=> k \in 1 .. group - 1 \/ k = group
    <2>1. UNCHANGED <<program, facts>>
        BY DEF strataVars
    <2> QED
        BY <2>1, NextGroupIs
<1>4. /\ DOMAIN made' = HeadAtoms \cup DOMAIN made
      /\ \A x \in HeadAtoms : made'[x] = rows[x]
      /\ \A x \in DOMAIN made \ HeadAtoms : made'[x] = made[x]
    <2>1. /\ DOMAIN Over(rows, made) = DOMAIN rows \cup DOMAIN made
          /\ \A x \in DOMAIN rows : Over(rows, made)[x] = rows[x]
          /\ \A x \in DOMAIN made \ DOMAIN rows : Over(rows, made)[x] = made[x]
        BY ONLY OverIs
    <2> QED
        BY <2>1
<1>5. /\ \A h \in Heads : Atom(h) \in HeadAtoms /\ made'[Atom(h)] = heads[h]
      /\ \A a : Atom(a) \in HeadAtoms => a \in Heads
      /\ \A a \in Present \ Heads : made'[Atom(a)] = made[Atom(a)]
    <2>1. \A h \in Heads : Atom(h) \in HeadAtoms
        BY DEF HeadAtoms
    <2>2. \A a : Atom(a) \in HeadAtoms => a \in Heads
        BY AtomIs DEF HeadAtoms
    <2>3. \A a \in Present : Atom(a) \in DOMAIN made
        BY <1>1, PresentIsMade
    <2> QED
        BY <1>4, <2>1, <2>2, <2>3
<1>6. Outside' = With(heads)
    BY <1>3, <1>5 DEF Outside, With
<1>7. AllBinary'
    BY <1>2, <1>4, <1>5 DEF AllBinary, HeadAtoms
<1>8. SharedMean'
    <2> SUFFICES ASSUME NEW s \in DOMAIN made' \cap Signatures
                 PROVE  Relations(s) \subseteq Complete' /\ made'[s] = Meaning(s, Outside')
        BY <1>3 DEF SharedMean
    <2>1. s \notin HeadAtoms
        BY AtomIs DEF HeadAtoms
    <2>2. s \in DOMAIN made /\ made'[s] = made[s]
        BY <1>4, <2>1
    <2>3. Relations(s) \subseteq Complete /\ made[s] = Meaning(s, Outside)
        BY <1>2, <2>2 DEF SharedMean
    <2>4. Meaning(s, With(heads)) = Meaning(s, Outside)
        BY <2>3, CompleteMeansTheSame
    <2> QED
        BY <1>3, <1>6, <2>2, <2>3, <2>4
<1>9. Sums'
    <2> SUFFICES ASSUME NEW h \in Present \cup Heads
                 PROVE  IF \E r \in Earlier \cup GroupRules : program.head[r] = h
                        THEN Once(h) => made'[Atom(h)] = SumOf(h, Earlier \cup GroupRules, With(heads))
                        ELSE made'[Atom(h)] = facts[h]
        BY <1>0, <1>3, <1>6 DEF Sums
    <2>1. CASE h \in Heads
        BY <1>5, <2>1 DEF Heads
    <2>2. CASE h \notin Heads
        <3>1. \A r \in GroupRules : program.head[r] # h
            BY <2>2 DEF Heads
        <3>2. made'[Atom(h)] = made[Atom(h)]
            BY <1>5, <2>2
        <3>3. SumOf(h, Earlier \cup GroupRules, With(heads)) = SumOf(h, Earlier, Outside)
            <4>1. {s \in Earlier \cup GroupRules : program.head[s] = h} = {s \in Earlier : program.head[s] = h}
                BY <3>1
            <4>2. \A r \in Earlier : Solutions(r, With(heads)) = Solutions(r, Outside)
                BY EarlierSolutions
            <4>3. {Solutions(r, With(heads)) : r \in {s \in Earlier \cup GroupRules : program.head[s] = h}}
                    = {Solutions(r, Outside) : r \in {s \in Earlier : program.head[s] = h}}
                BY <4>1, <4>2
            <4> QED
                BY <4>3 DEF SumOf
        <3> QED
            BY <1>2, <2>2, <3>1, <3>2, <3>3 DEF Sums
    <2> QED
        BY <2>1, <2>2
<1>10. ASSUME NEW k \in 1 .. group - 1, Plain(k), NEW N, ClosedUnder(HeadsOf(k), N, With(heads)),
              NEW h \in HeadsOf(k)
       PROVE  made'[Atom(h)] \subseteq N[h]
    <2> DEFINE hs == HeadsOf(k)
               closed(model) == [a \in DOMAIN model |-> IF a \in hs THEN N[a] ELSE model[a]]
    <2>1. hs \subseteq Complete
        BY <1>10, RecursiveIsComplete DEF Plain
    <2>2. hs \cap Heads = {} /\ Complete \subseteq Present
        BY <1>1, <2>1, HeadsAreIncomplete, CompleteIsPresent
    <2>3. \A a \in Complete : /\ a \in DOMAIN closed(Outside) /\ a \in DOMAIN closed(With(heads))
                              /\ closed(With(heads))[a] = closed(Outside)[a]
        BY CompleteMeansTheSame
    <2> HIDE DEF closed
    <2>4. ASSUME NEW g \in hs
          PROVE  Derived(g, closed(With(heads))) = Derived(g, closed(Outside))
        <3>1. ASSUME NEW r \in Rules, program.head[r] = g
              PROVE  Solutions(r, closed(With(heads))) = Solutions(r, closed(Outside))
            <4>1. r \in Earlier
                BY <2>1, <2>4, <3>1 DEF Complete
            <4>2. \A a \in program.reads[r] \cup program.negates[r] : a \in Complete
                BY <1>1, <4>1, EarlierReads
            <4> QED
                BY <1>1, <2>3, <4>2, SolutionsAgree
        <3>2. {Solutions(r, closed(With(heads))) : r \in {s \in Rules : program.head[s] = g}}
                = {Solutions(r, closed(Outside)) : r \in {s \in Rules : program.head[s] = g}}
            BY <3>1
        <3> QED
            BY <3>2 DEF Derived
    <2>5. ClosedUnder(HeadsOf(k), N, Outside)
        BY <1>10, <2>4 DEF ClosedUnder, closed
    <2>6. made[Atom(h)] \subseteq N[h]
        BY <1>2, <1>10, <2>5 DEF LeastOutside
    <2> QED
        BY <1>5, <1>10, <2>1, <2>2, <2>6
<1>11. ASSUME Plain(group), NEW N, ClosedUnder(HeadsOf(group), N, With(heads)), NEW h \in HeadsOf(group)
       PROVE  made'[Atom(h)] \subseteq N[h]
    <2>1. HeadsOf(group) = Heads
        BY DEF HeadsOf, Heads, GroupRules
    <2>2. [a \in DOMAIN With(heads) |-> IF a \in Heads THEN N[a] ELSE With(heads)[a]] = With(N)
        BY DEF With
    <2>3. ASSUME NEW g \in Heads
          PROVE  SumOf(g, Earlier \cup GroupRules, With(N)) = Derived(g, With(N))
        <3>1. group \in DOMAIN strata /\ GroupRules \subseteq Rules /\ Earlier \subseteq Rules
            BY <1>1, GroupIs, StrataAre
        <3>2. \A s \in Rules : program.head[s] = g => s \in Earlier \cup GroupRules
            <4>1. \A s \in Rules : program.head[s] = g => \E j \in 1 .. group : s \in strata[j].rules
                BY <1>1, <1>11, <2>1, <2>3, <3>1, RecursiveHeads DEF Plain
            <4>2. \A j \in 1 .. group : j \in 1 .. group - 1 \/ j = group
                BY <1>1, StrataAre
            <4> QED
                BY <4>1, <4>2 DEF Earlier, GroupRules
        <3>3. {s \in Earlier \cup GroupRules : program.head[s] = g} = {s \in Rules : program.head[s] = g}
            BY <3>1, <3>2
        <3> QED
            BY <3>3 DEF SumOf, Derived
    <2>4. \A g \in Heads : SumOf(g, Earlier \cup GroupRules, With(N)) \subseteq N[g]
        <3>1. ClosedUnder(Heads, N, With(heads))
            BY <1>11, <2>1
        <3>2. \A g \in Heads : Derived(g, With(N)) \subseteq N[g]
            BY <2>2, <3>1 DEF ClosedUnder
        <3> QED
            BY <2>3, <3>2
    <2> QED
        BY <1>5, <1>11, <2>1, <2>4
<1>12. LeastOutside'
    <2> SUFFICES ASSUME NEW k \in 1 .. group' - 1, Plain(k),
                        NEW N, ClosedUnder(HeadsOf(k), N, With(heads)), NEW h \in HeadsOf(k)
                 PROVE  made'[Atom(h)] \subseteq N[h]
        BY <1>0, <1>6 DEF LeastOutside, ClosedUnder
    <2> QED
        BY <1>0, <1>10, <1>11
<1> QED
    BY <1>7, <1>8, <1>9, <1>12, NothingUnderWay DEF MeaningInv

LEMMA CollectMeans ==
    ASSUME DataflowInv, MeaningInv, Collect
    PROVE  MeaningInv'
<1> DEFINE rows == [a \in HeadAtoms |-> Gathered(a, made, made)]
           heads == [h \in Heads |-> rows[Atom(h)]]
<1>1. AllOperated /\ ~ IsRecursive /\ UnderWay
    BY DEF Collect, AllOperated, UnderWay
<1>2. /\ LastsPresent /\ made' = Over(rows, made) /\ NextGroup
      /\ UNCHANGED <<strataVars, facts, prior, inner>>
    BY <1>1, LastsAreThere DEF Collect
<1>3. /\ DOMAIN rows = HeadAtoms
      /\ \A h \in Heads : heads[h] = Gathered(Atom(h), made, made)
    BY DEF HeadAtoms
<1>4. heads = [h \in Heads |-> rows[Atom(h)]]
    OBVIOUS
<1> HIDE DEF rows, heads
<1>5. Types /\ Progress /\ stage # "stratify" /\ program \in Programs
    BY <1>1 DEF DataflowInv, Types, UnderWay
<1>6. AllBinary /\ SharedMean /\ Sums
    BY <1>5 DEF MeaningInv
<1>7. GroupRules \subseteq Rules /\ Heads \subseteq {program.head[r] : r \in Rules}
    BY <1>1, <1>5, GroupIs DEF Heads
<1>8. \A r \in GroupRules : Root(r) \in DOMAIN made
    BY <1>1, <1>2 DEF LastsPresent, LastSignatures, Heads, There
<1>9. ASSUME NEW r \in GroupRules, NEW N
      PROVE  /\ made[Root(r)] = Solutions(r, Outside)
             /\ Solutions(r, With(N)) = Solutions(r, Outside)
    <2>1. r \in Rules /\ Root(r) \in Signatures
        BY <1>5, <1>7, RuleIs
    <2>2. made[Root(r)] = Meaning(Root(r), Outside)
        BY <1>6, <1>8, <2>1 DEF SharedMean
    <2>3. \A a \in program.reads[r] \cup program.negates[r] : a \in Complete
        BY <1>1, <1>5, GroupReads
    <2>4. \A a \in program.reads[r] \cup program.negates[r] :
            a \in DOMAIN With(N) /\ a \in DOMAIN Outside /\ With(N)[a] = Outside[a]
        BY <1>1, <2>3, CompleteMeansTheSame
    <2> QED
        BY <1>5, <2>1, <2>2, <2>4, RootMeans, SolutionsAgree
<1>10. \A h \in Heads : Binary(heads[h])
    <2> SUFFICES ASSUME NEW h \in Heads
                 PROVE  Binary(Gathered(Atom(h), made, made))
        BY <1>3
    <2>1. \A last \in LastSignatures(h) : Binary(made[last])
        BY <1>6, <1>8 DEF LastSignatures, AllBinary
    <2> QED
        BY <1>5, <1>6, <1>7, <2>1, GatheredIsBinary DEF AllBinary
<1>11. ASSUME NEW h \in Heads, Once(h)
       PROVE  heads[h] = SumOf(h, Earlier \cup GroupRules, With(heads))
    <2>1. \A r \in GroupRules : made[Root(r)] = Solutions(r, With(heads))
        BY <1>9
    <2>2. \A r \in Earlier : Solutions(r, With(heads)) = Solutions(r, Outside)
        BY <1>1, EarlierSolutions
    <2>3. Atom(h) \in DOMAIN made <=> h \in Present
        BY <1>5, PresentIsMade
    <2>4. \A last \in LastSignatures(h) : Binary(made[last])
        BY <1>6, <1>8 DEF LastSignatures, AllBinary
    <2>5. Gathered(Atom(h), made, made) = SumOf(h, Earlier \cup GroupRules, With(heads))
        BY <1>1, <1>6, <1>11, <2>1, <2>2, <2>3, <2>4, GatheredMeans
    <2> QED
        BY <1>3, <2>5
<1>12. ~ Plain(group)
    BY <1>1 DEF Plain, IsRecursive
<1> QED
    BY <1>1, <1>2, <1>3, <1>4, <1>10, <1>11, <1>12, GroupEnds

\* What the operators of a scope have made of its variables.
LEMMA ScopeGathers ==
    ASSUME DataflowInv, MeaningInv, AllOperated, IsRecursive
    PROVE  /\ \A h \in Heads : Binary(Gathered(Atom(h), prior, inner))
           /\ \A h \in Heads : Once(h) =>
                 Gathered(Atom(h), prior, inner) = SumOf(h, Earlier \cup GroupRules, Inside)
<1>1. UnderWay /\ InScope /\ LastsPresent
    BY LastsAreThere DEF AllOperated, UnderWay, InScope
<1>2. Types /\ Progress /\ stage # "stratify" /\ program \in Programs
    BY <1>1 DEF DataflowInv, Types, UnderWay
<1>3. AllBinary /\ SharedMean /\ Sums /\ ScopeMeans
    BY <1>1, <1>2 DEF MeaningInv
<1>4. GroupRules \subseteq Rules /\ Heads \subseteq {program.head[r] : r \in Rules}
    BY <1>1, <1>2, GroupIs DEF Heads
<1>5. \A r \in GroupRules : Root(r) \in DOMAIN inner
    BY <1>1 DEF LastsPresent, LastSignatures, Heads, There
<1>6. /\ DOMAIN prior = HeadAtoms \cap DOMAIN made
      /\ \A x \in DOMAIN prior : prior[x] = made[x]
    BY <1>3 DEF ScopeMeans
<1>7. ASSUME NEW r \in GroupRules
      PROVE  inner[Root(r)] = Solutions(r, Inside)
    <2>1. r \in Rules /\ Root(r) \in Signatures
        BY <1>2, <1>4, RuleIs
    <2>2. inner[Root(r)] = Meaning(Root(r), Inside)
        BY <1>3, <1>5, <2>1 DEF ScopeMeans
    <2> QED
        BY <1>2, <2>1, <2>2, RootMeans
<1>8. ASSUME NEW h \in Heads
      PROVE  Binary(Gathered(Atom(h), prior, inner))
    <2>1. \A last \in LastSignatures(h) : Binary(inner[last])
        BY <1>3, <1>5 DEF LastSignatures, ScopeMeans
    <2>2. Atom(h) \in DOMAIN prior => Binary(prior[Atom(h)])
        BY <1>3, <1>6 DEF AllBinary
    <2> QED
        BY <1>2, <1>4, <2>1, <2>2, GatheredIsBinary
<1>9. ASSUME NEW h \in Heads, Once(h)
      PROVE  Gathered(Atom(h), prior, inner) = SumOf(h, Earlier \cup GroupRules, Inside)
    <2>1. \A r \in Earlier : Solutions(r, Inside) = Solutions(r, Outside)
        BY <1>1, EarlierSolutions DEF Inside
    <2>2. Atom(h) \in DOMAIN prior <=> h \in Present
        BY <1>2, <1>6, PresentIsMade DEF HeadAtoms
    <2>3. h \in Present => prior[Atom(h)] = made[Atom(h)]
        BY <1>6, <2>2
    <2>4. \A last \in LastSignatures(h) : Binary(inner[last])
        BY <1>3, <1>5 DEF LastSignatures, ScopeMeans
    <2> QED
        BY <1>1, <1>3, <1>7, <1>9, <2>1, <2>2, <2>3, <2>4, GatheredMeans
<1> QED
    BY <1>8, <1>9

LEMMA LeaveScopeMeans ==
    ASSUME DataflowInv, MeaningInv, LeaveScope
    PROVE  MeaningInv'
<1> DEFINE rows == Variables
           heads == [h \in Heads |-> rows[Atom(h)]]
<1>1. /\ AllOperated /\ IsRecursive /\ VariablesNext = Variables
      /\ made' = Over(rows, made) /\ NextGroup /\ UNCHANGED <<strataVars, facts>>
    BY DEF LeaveScope
<1>2. UnderWay /\ InScope /\ stage # "stratify"
    BY <1>1 DEF AllOperated, UnderWay, InScope
<1>3. /\ DOMAIN rows = HeadAtoms
      /\ \A h \in Heads : heads[h] = inner[Atom(h)]
      /\ \A h \in Heads : inner[Atom(h)] = VariablesNext[Atom(h)]
    BY <1>1 DEF HeadAtoms, Variables
<1>4. heads = [h \in Heads |-> rows[Atom(h)]] /\ heads = [h \in Heads |-> inner[Atom(h)]]
    BY <1>3
<1> HIDE DEF rows, heads
<1>5. \A h \in Heads : heads[h] = Gathered(Atom(h), prior, inner)
    BY <1>3 DEF VariablesNext, HeadAtoms
<1>6. Inside = With(heads)
    BY <1>4 DEF Inside
<1>7. \A h \in Heads : Binary(heads[h])
    BY <1>1, <1>5, ScopeGathers
<1>8. \A h \in Heads : Once(h) => heads[h] = SumOf(h, Earlier \cup GroupRules, With(heads))
    BY <1>1, <1>5, <1>6, ScopeGathers
<1>9. LeastInside
    BY <1>2 DEF MeaningInv
<1>10. Plain(group) =>
          \A N : (\A h \in Heads : SumOf(h, Earlier \cup GroupRules, With(N)) \subseteq N[h])
                    => \A h \in Heads : heads[h] \subseteq N[h]
    BY <1>3, <1>9 DEF LeastInside
<1> QED
    BY <1>1, <1>2, <1>3, <1>4, <1>7, <1>8, <1>10, GroupEnds

LEMMA CollectRoundMeans ==
    ASSUME DataflowInv, MeaningInv, CollectRound
    PROVE  MeaningInv'
<1> DEFINE next == VariablesNext
<1>1. AllOperated /\ IsRecursive
    BY DEF CollectRound
<1>2. /\ inner' = RoundOf(next)
      /\ UNCHANGED <<strataVars, stage, facts, group, left, walking, planned, made, prior>>
    BY <1>1, LastsAreThere DEF CollectRound
<1>3. DOMAIN next = HeadAtoms /\ \A h \in Heads : next[Atom(h)] = Gathered(Atom(h), prior, inner)
    BY DEF VariablesNext, HeadAtoms
<1> HIDE DEF next
<1>4. UnderWay /\ InScope /\ Types /\ Progress /\ stage # "stratify" /\ program \in Programs
    BY <1>1 DEF AllOperated, UnderWay, InScope, DataflowInv, Types
<1>5. AllBinary /\ SharedMean /\ Sums /\ LeastOutside /\ PlanMeans /\ ScopeMeans /\ LeastInside
    BY <1>4 DEF MeaningInv
<1>6. \A a \in HeadAtoms : Binary(next[a])
    BY <1>1, <1>3, ScopeGathers DEF HeadAtoms
<1>7. prior' = [x \in HeadAtoms \cap DOMAIN made |-> made[x]]
    BY <1>2, <1>5 DEF ScopeMeans
<1>8. ScopeMeans' /\ \A h \in Heads : inner'[Atom(h)] = next[Atom(h)]
    BY <1>1, <1>2, <1>3, <1>4, <1>5, <1>6, <1>7, RoundMeans
<1>9. ASSUME Plain(group), NEW N,
             \A h \in Heads : SumOf(h, Earlier \cup GroupRules, With(N)) \subseteq N[h],
             NEW h \in Heads
      PROVE  inner'[Atom(h)] \subseteq N[h]
    <2>1. GroupRules \subseteq Rules /\ Earlier \subseteq Rules
        BY <1>4, GroupIs
    <2>2. h \in {program.head[r] : r \in Rules} /\ program.aggregate[h] = "none" /\ Once(h)
        BY <1>9, <2>1 DEF Plain, HeadsOf, Heads, GroupRules, Once
    <2>3. ASSUME NEW r \in Earlier \cup GroupRules
          PROVE  Solutions(r, Inside) \subseteq Solutions(r, With(N))
        <3>1. CASE r \in Earlier
            BY <1>4, <3>1, EarlierSolutions DEF Inside
        <3>2. CASE r \in GroupRules
            <4>1. ASSUME NEW a \in Complete
                  PROVE  a \in DOMAIN With(N) /\ Inside[a] = With(N)[a]
                BY <1>4, CompleteMeansTheSame DEF Inside
            <4>2. ASSUME NEW a \in Heads
                  PROVE  a \in DOMAIN With(N) /\ Inside[a] \subseteq With(N)[a]
                <5>1. inner[Atom(a)] \subseteq N[a]
                    BY <1>5, <1>9 DEF LeastInside
                <5> QED
                    BY <5>1 DEF Inside, With
            <4>3. \A a \in program.reads[r] : a \in DOMAIN With(N) /\ Inside[a] \subseteq With(N)[a]
                BY <1>4, <3>2, <4>1, <4>2, GroupReads
            <4>4. \A a \in program.negates[r] : Inside[a] = With(N)[a]
                BY <1>4, <3>2, <4>1, GroupReads
            <4> QED
                BY <1>4, <2>1, <3>2, <4>3, <4>4, SolutionsGrow
        <3> QED
            BY <3>1, <3>2
    <2> DEFINE inside == UNION {Solutions(r, Inside) : r \in {s \in Earlier \cup GroupRules : program.head[s] = h}}
               with == UNION {Solutions(r, With(N)) : r \in {s \in Earlier \cup GroupRules : program.head[s] = h}}
    <2>4. inside \subseteq with
        BY <2>3
    <2>5. /\ SumOf(h, Earlier \cup GroupRules, Inside) = Aggregated(h, inside \cup Given(h))
          /\ SumOf(h, Earlier \cup GroupRules, With(N)) = Aggregated(h, with \cup Given(h))
        BY DEF SumOf
    <2> HIDE DEF inside, with
    <2>6. SumOf(h, Earlier \cup GroupRules, Inside) \subseteq SumOf(h, Earlier \cup GroupRules, With(N))
        BY <1>4, <2>2, <2>4, <2>5, AggregatedIs
    <2>7. inner'[Atom(h)] = SumOf(h, Earlier \cup GroupRules, Inside)
        BY <1>1, <1>3, <1>8, <2>2, ScopeGathers
    <2> QED
        BY <1>9, <2>6, <2>7
<1>10. LeastInside'
    <2>1. group' = group /\ (Plain(group)' <=> Plain(group)) /\ Heads' = Heads
          /\ Earlier' = Earlier /\ GroupRules' = GroupRules
        BY <1>2, SameMeaning
    <2>2. \A rows : With(rows)' = With(rows)
        BY <1>2, WithSame
    <2>3. \A h, rs, m : SumOf(h, rs, m)' = SumOf(h, rs, m)
        BY <1>2, SameMeaning
    <2> QED
        BY <1>9, <2>1, <2>2, <2>3 DEF LeastInside
<1>11. PlanMeans'
    BY <1>2, <1>5, PlanKeeps
<1>12. AllBinary' /\ SharedMean' /\ Sums' /\ LeastOutside'
    BY <1>2, <1>5, MadeKeeps
<1> QED
    BY <1>8, <1>10, <1>11, <1>12 DEF MeaningInv

LEMMA LoadMeans ==
    ASSUME DataflowInv, Load
    PROVE  MeaningInv'
<1>1. /\ stage = "stratify" /\ facts' \in Databases
      /\ made' = [a \in {Atom(i) : i \in DOMAIN facts'} |-> facts'[a[2][1]]]
      /\ NextGroup /\ UNCHANGED strataVars
    BY DEF Load
<1>2. group = 0 /\ planned \in Plans
    BY <1>1 DEF DataflowInv, Progress, Types
<1>3. group' = 1 /\ \A k : k \notin 1 .. group' - 1
    BY <1>1, <1>2 DEF NextGroup
<1>4. Earlier' = {} /\ Present' = DOMAIN facts'
    BY <1>3 DEF Earlier, Present
<1>5. /\ DOMAIN made' = {Atom(i) : i \in DOMAIN facts'}
      /\ \A i \in DOMAIN facts' : made'[Atom(i)] = facts'[i]
    BY <1>1, AtomIs
<1>6. AllBinary'
    <2>1. \A i \in DOMAIN facts' : Binary(facts'[i])
        BY <1>1, DataflowAssumption DEF Binary
    <2> QED
        BY <1>5, <2>1 DEF AllBinary
<1>7. SharedMean'
    <2>1. DOMAIN made' \cap Signatures' = {}
        <3>1. Signatures' = Signatures
            BY <1>1 DEF strataVars, Signatures, Bodies, Names
        <3> QED
            BY <1>5, <3>1, AtomIs
    <2> QED
        BY <2>1 DEF SharedMean
<1>8. Sums'
    BY <1>4, <1>5 DEF Sums
<1>9. LeastOutside'
    BY <1>3 DEF LeastOutside
<1>10. (UnderWay' => PlanMeans') /\ ~ InScope'
    <2>1. planned'.plan = << >>
        BY <1>1, <1>2 DEF NextGroup, Plans
    <2>2. Planned' = {} /\ stage' # "operate"
        BY <1>1, <2>1 DEF Planned, ToSet, NextGroup
    <2> QED
        BY <2>2 DEF PlanMeans, InScope
<1> QED
    BY <1>6, <1>7, <1>8, <1>9, <1>10 DEF MeaningInv

LEMMA StutterMeans ==
    ASSUME MeaningInv, UNCHANGED vars
    PROVE  MeaningInv'
<1>1. UNCHANGED <<strataVars, stage, facts, group, left, walking, planned, at, made, prior, inner>>
    BY DEF vars
<1>2. stage # "stratify" => AllBinary' /\ SharedMean' /\ Sums' /\ LeastOutside'
    BY <1>1, MadeKeeps DEF MeaningInv
<1>3. PlanMeans => PlanMeans'
    BY <1>1, PlanKeeps
<1>4. /\ Heads' = Heads /\ HeadAtoms' = HeadAtoms /\ Signatures' = Signatures
      /\ Earlier' = Earlier /\ GroupRules' = GroupRules /\ IsRecursive' = IsRecursive
      /\ group' = group /\ (Plain(group)' <=> Plain(group))
      /\ \A h, rs, m : SumOf(h, rs, m)' = SumOf(h, rs, m)
      /\ \A rows : With(rows)' = With(rows)
    BY <1>1, SameMeaning, WithSame
<1>5. Inside' = Inside
    BY <1>1, <1>4 DEF Inside
<1>6. ScopeMeans => ScopeMeans'
    BY <1>1, <1>4, <1>5 DEF ScopeMeans
<1>7. LeastInside => LeastInside'
    BY <1>1, <1>4 DEF LeastInside
<1> QED
    BY <1>1, <1>2, <1>3, <1>4, <1>6, <1>7 DEF MeaningInv, InScope, UnderWay

LEMMA NextMeans ==
    ASSUME DataflowInv, MeaningInv, [Next]_vars
    PROVE  MeaningInv'
<1>1. Stratify => MeaningInv'
    BY DEF Stratify, MeaningInv
<1> QED
    BY <1>1, LoadMeans, PlanRuleMeans, PlanInputMeans, PlanOutputMeans, OpenGroupMeans,
       OperateMeans, OperateInScopeMeans, CollectMeans, CollectRoundMeans, LeaveScopeMeans,
       StutterMeans DEF Next

\* Every collection holds what its lineage means over the relations there
\* are: in the maps, over those outside, and in a scope, over its variables.
\* (the signatures strata.rs plans once and assemble_group of dataflow.rs
\* looks up in its maps)
THEOREM CollectionsMeanTheirLineage == Spec => []MeaningInv
<1>1. Init => DataflowInv /\ MeaningInv
    BY InitKeeps DEF Init, MeaningInv
<1>2. (DataflowInv /\ MeaningInv) /\ [Next]_vars => (DataflowInv /\ MeaningInv)'
    BY NextKeeps, NextMeans
<1> QED
    BY <1>1, <1>2, PTL DEF Spec

\* The relations the dataflow ends with.
Result == [a \in Derivable \cup DOMAIN facts |-> made[Atom(a)]]

\* They are a model in which every row is derived: the rows of a relation are
\* those its rules derive in it and those it was given, aggregated once,
\* unless it is counted and its rules are spread over several strata.
\* (assemble_group and the collectors, however rules are grouped and shared)
ResultIsSupported ==
    stage = "done" => \A h \in Derivable : Once(h) => Result[h] = Derived(h, Result)

\* Nothing less than what a recursive scope comes out with would do.
\* (recursive_collector: the variables start empty)
ResultIsLeast ==
    stage = "done" =>
        \A k \in DOMAIN strata : Plain(k) =>
            \A rows : ClosedUnder(HeadsOf(k), rows, Result) => \A h \in HeadsOf(k) : Result[h] \subseteq rows[h]

LEMMA WhenDone ==
    ASSUME DataflowInv, stage = "done"
    PROVE  /\ Earlier = Rules /\ Present = Derivable \cup DOMAIN facts
           /\ Outside = Result
           /\ DOMAIN strata = 1 .. group - 1
<1>1. Types /\ Progress /\ stage # "stratify" /\ group = Len(strata) + 1
    BY DEF DataflowInv, Progress
<1>2. DOMAIN strata = 1 .. group - 1
    BY <1>1, StrataAre
<1>3. Earlier = Rules
    <2>1. \A r \in Rules : \E k \in DOMAIN strata : r \in strata[k].rules
        BY <1>1 DEF Progress, Layers!Layered
    <2> QED
        BY <1>1, <1>2, <2>1, StrataAre DEF Earlier
<1>4. Present = Derivable \cup DOMAIN facts
    BY <1>3 DEF Present, Derivable
<1> QED
    BY <1>2, <1>3, <1>4 DEF Outside, Result

\* However rules are grouped, planned and shared, no row is lost on the way
\* from the rules to the collection of their head, and none is added.
\* (assemble_group, collector and recursive_collector)
THEOREM TheResultIsSupported == Spec => []ResultIsSupported
<1>1. DataflowInv /\ MeaningInv => ResultIsSupported
    <2> SUFFICES ASSUME DataflowInv, MeaningInv, stage = "done", NEW h \in Derivable, Once(h)
                 PROVE  Result[h] = Derived(h, Result)
        BY DEF ResultIsSupported
    <2>1. Earlier = Rules /\ Present = Derivable \cup DOMAIN facts /\ Outside = Result
        BY WhenDone
    <2>2. Sums
        BY DEF MeaningInv
    <2>3. made[Atom(h)] = SumOf(h, Rules, Result)
        BY <2>1, <2>2 DEF Sums, Derivable
    <2> QED
        BY <2>3 DEF SumOf, Derived, Result
<1> QED
    BY <1>1, DataflowIsInductive, CollectionsMeanTheirLineage, PTL

\* A recursive scope adds no row beyond those its rules force: every other
\* choice of rows for its heads that is closed under the rules has them too.
\* (recursive_collector: the variables start empty and only gain what is due)
THEOREM TheResultIsLeast == Spec => []ResultIsLeast
<1>1. DataflowInv /\ MeaningInv => ResultIsLeast
    <2> SUFFICES ASSUME DataflowInv, MeaningInv, stage = "done", NEW k \in DOMAIN strata, Plain(k),
                        NEW rows, ClosedUnder(HeadsOf(k), rows, Result), NEW h \in HeadsOf(k)
                 PROVE  Result[h] \subseteq rows[h]
        BY DEF ResultIsLeast
    <2>1. Outside = Result /\ k \in 1 .. group - 1 /\ Earlier = Rules
        BY WhenDone
    <2>2. LeastOutside
        BY DEF MeaningInv
    <2>3. made[Atom(h)] \subseteq rows[h]
        BY <2>1, <2>2 DEF LeastOutside
    <2>4. h \in Derivable
        BY <2>1 DEF HeadsOf, Derivable, Earlier
    <2> QED
        BY <2>3, <2>4 DEF Result
<1> QED
    BY <1>1, DataflowIsInductive, CollectionsMeanTheirLineage, PTL

=============================================================================
