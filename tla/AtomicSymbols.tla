--------------------------- MODULE AtomicSymbols ---------------------------
(***************************************************************************)
(* What the engine's symbol table promises: interning a text is one        *)
(* indivisible step.  A text whose id is free takes it, a text that owns   *)
(* its id gets it again, and a text whose id another text owns is refused. *)
(***************************************************************************)
CONSTANTS Calls, Texts, Ids, NoText, SymbolId(_)

VARIABLES texts,     \* what each id stands for
          argument,  \* the text each call was made with
          answer     \* what each call has returned

vars == <<texts, argument, answer>>

Init == /\ texts = [id \in Ids |-> NoText]
        /\ argument = [c \in Calls |-> NoText]
        /\ answer = [c \in Calls |-> "none"]

Call(c, text) == /\ argument[c] = NoText
                 /\ argument' = [argument EXCEPT ![c] = text]
                 /\ UNCHANGED <<texts, answer>>

Intern(c) ==
    LET text == argument[c]
        id   == SymbolId(text)
    IN /\ text # NoText
       /\ answer[c] = "none"
       /\ \/ /\ texts[id] \in {NoText, text}
             /\ texts' = [texts EXCEPT ![id] = text]
             /\ answer' = [answer EXCEPT ![c] = "ok"]
          \/ /\ texts[id] \notin {NoText, text}
             /\ answer' = [answer EXCEPT ![c] = "collision"]
             /\ UNCHANGED texts
       /\ UNCHANGED argument

Next == \E c \in Calls : Intern(c) \/ \E text \in Texts : Call(c, text)

Spec == Init /\ [][Next]_vars
=============================================================================
