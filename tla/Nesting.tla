------------------------------ MODULE Nesting ------------------------------
(***************************************************************************)
(* The constructs of a script that are being executed, innermost last, and *)
(* how many of them break, continue, return and errors leave.  A loop is   *)
(* "between" iterations, where it decides whether there is another one, or *)
(* in its "body"; break and continue count only loops in their bodies.     *)
(***************************************************************************)
EXTENDS Naturals, Sequences, FiniteSets

Largest(S) == CHOOSE i \in S : \A j \in S : j <= i

Kinds == {"loop", "call", "source", "eval", "substitution"}

Construct == [kind : Kinds, phase : {"between", "body"}]

Bodies(n) == {i \in 1..Len(n) : n[i].kind = "loop" /\ n[i].phase = "body"}

\* The count-th loop of n from the inside.
LoopsAt(n, count) == {i \in Bodies(n) : Cardinality({j \in Bodies(n) : j >= i}) = count}

Loop(n, count) == CHOOSE i \in LoopsAt(n, count) : TRUE

HasLoop(n, count) == Cardinality(Bodies(n)) >= count

\* Functions and sourced files: return ends the innermost one.
Returnable(n) == {i \in 1..Len(n) : n[i].kind \in {"call", "source"}}

InnermostReturnable(n) == Largest(Returnable(n))

\* What is left after break, continue, return or an error.
Leaves(n, what, count) ==
    CASE what = "break" /\ HasLoop(n, count)    -> SubSeq(n, 1, Loop(n, count) - 1)
      [] what = "continue" /\ HasLoop(n, count) ->
            [SubSeq(n, 1, Loop(n, count)) EXCEPT ![Loop(n, count)].phase = "between"]
      [] what = "return" /\ Returnable(n) # {}  -> SubSeq(n, 1, InnermostReturnable(n) - 1)
      [] OTHER                                  -> <<>>

Catches(n, what, count) ==
    \/ what \in {"break", "continue"} /\ HasLoop(n, count)
    \/ what = "return" /\ Returnable(n) # {}
============================================================================
