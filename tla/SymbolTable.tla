---------------------------- MODULE SymbolTable ----------------------------
(***************************************************************************)
(* The symbol table every evaluation of an engine shares.  An id is        *)
(* computed from the text alone (symbol_id, a truncated digest), so two    *)
(* texts may meet in one id; the table refuses the second.                 *)
(*                                                                         *)
(* SymbolTable::intern looks twice: under the read lock, and, when the id  *)
(* is free, again under the write lock, with any number of other calls in  *)
(* between.  resolve_raw hands an embedded function a pointer it reads     *)
(* after the lock is released.                                             *)
(***************************************************************************)
CONSTANTS Calls,         \* calls of intern, each by some thread
          Readers,       \* embedded functions holding a pointer into the table
          Texts, Ids,
          NoText,
          SymbolId(_)    \* the digest of a text

ASSUME SymbolAssumption == /\ NoText \notin Texts
                           /\ \A text \in Texts : SymbolId(text) \in Ids

VARIABLES texts,     \* Inner::texts
          pc,        \* where each call of intern stands
          argument,  \* the text it was made with
          answer,    \* what it returned: the id ("ok") or the collision
          pointer    \* what each reader's raw pointer designates

vars == <<texts, pc, argument, answer, pointer>>

NoPointer == [id |-> NoText, text |-> NoText]
-----------------------------------------------------------------------------
Init == /\ texts = [id \in Ids |-> NoText]
        /\ pc = [c \in Calls |-> "idle"]
        /\ argument = [c \in Calls |-> NoText]
        /\ answer = [c \in Calls |-> "none"]
        /\ pointer = [r \in Readers |-> NoPointer]

\* intern(text) is called, by a loader, a rule or an embedded function.
Call(c, text) == /\ pc[c] = "idle"
                 /\ pc' = [pc EXCEPT ![c] = "reading"]
                 /\ argument' = [argument EXCEPT ![c] = text]
                 /\ UNCHANGED <<texts, answer, pointer>>

Return(c, outcome) == /\ pc' = [pc EXCEPT ![c] = "returned"]
                      /\ answer' = [answer EXCEPT ![c] = outcome]

\* What a lock holder answers for the text it finds under the id.
Judge(c, known) == \/ known = argument[c] /\ Return(c, "ok")
                   \/ known \notin {NoText, argument[c]} /\ Return(c, "collision")

\* The first look, under the read lock.
LookUp(c) ==
    LET known == texts[SymbolId(argument[c])] IN
    /\ pc[c] = "reading"
    /\ \/ Judge(c, known)
       \/ /\ known = NoText
          /\ pc' = [pc EXCEPT ![c] = "inserting"]
          /\ UNCHANGED answer
    /\ UNCHANGED <<texts, argument, pointer>>

\* Mutant of Insert: the write lock does not look again.
InsertUnchecked(c) ==
    /\ pc[c] = "inserting"
    /\ texts' = [texts EXCEPT ![SymbolId(argument[c])] = argument[c]]
    /\ Return(c, "ok")
    /\ UNCHANGED <<argument, pointer>>

\* Mutant of Insert: an id somebody took in between is a collision, whoever
\* took it.
InsertStrict(c) ==
    LET id == SymbolId(argument[c]) IN
    /\ pc[c] = "inserting"
    /\ \/ texts[id] # NoText /\ Return(c, "collision") /\ UNCHANGED texts
       \/ /\ texts[id] = NoText
          /\ texts' = [texts EXCEPT ![id] = argument[c]]
          /\ Return(c, "ok")
    /\ UNCHANGED <<argument, pointer>>

\* The second look, under the write lock, and the insertion.
Insert(c) ==
    LET id == SymbolId(argument[c]) IN
    /\ pc[c] = "inserting"
    /\ \/ Judge(c, texts[id]) /\ UNCHANGED texts
       \/ /\ texts[id] = NoText
          /\ texts' = [texts EXCEPT ![id] = argument[c]]
          /\ Return(c, "ok")
    /\ UNCHANGED <<argument, pointer>>

\* resolve_raw: a reader takes the address of a known text.
ResolveRaw(r, id) == /\ texts[id] # NoText
                     /\ pointer' = [pointer EXCEPT ![r] = [id |-> id, text |-> texts[id]]]
                     /\ UNCHANGED <<texts, pc, argument, answer>>

Next == \/ \E c \in Calls : \/ \E text \in Texts : Call(c, text)
                            \/ LookUp(c)
                            \/ Insert(c)
        \/ \E r \in Readers, id \in Ids : ResolveRaw(r, id)

Spec == Init /\ [][Next]_vars
-----------------------------------------------------------------------------
TypeOK == /\ texts \in [Ids -> Texts \cup {NoText}]
          /\ pc \in [Calls -> {"idle", "reading", "inserting", "returned"}]
          /\ argument \in [Calls -> Texts \cup {NoText}]
          /\ answer \in [Calls -> {"none", "ok", "collision"}]
          /\ pointer \in [Readers -> [id : Ids, text : Texts] \cup {NoPointer}]

\* An id was answered only for the text the table holds under it: two texts
\* are never given one id, however their calls interleave.
OneTextPerAnswer ==
    \A c \in Calls : answer[c] = "ok" => texts[SymbolId(argument[c])] = argument[c]

\* A text is refused only because another text holds its id.
RefusedOnlyOnCollision ==
    \A c \in Calls : answer[c] = "collision" =>
        texts[SymbolId(argument[c])] \notin {NoText, argument[c]}

\* "A text's bytes never move once interned": what a pointer designates is
\* still what the table holds, after any later interning.
PointersStayValid ==
    \A r \in Readers : pointer[r] # NoPointer => texts[pointer[r].id] = pointer[r].text

\* The table only grows: no step takes an id away from its text.
OnlyGrows == [][\A id \in Ids : texts[id] # NoText => texts'[id] = texts[id]]_vars

\* The two looks together are one indivisible interning.
Atomic == INSTANCE AtomicSymbols

AtomicSpec == Atomic!Spec
=============================================================================
