------------------------------ MODULE MCScopes ------------------------------
(* Scopes on small sets: words and variables are model values, the sets of *)
(* inputs are chosen per run.                                              *)
EXTENDS Scopes, TLC

CONSTANTS a, b, x

\* The elements of words from index 0 on.
Elems(words) == [i \in Indexes |-> IF i < Len(words) THEN words[i + 1] ELSE Absent]

NoArgs == {<<>>}
OneWord == {<<a>>}
NoArrays == {}
SmallArrays == {Elems(<<Empty>>), Elems(<<a, Empty>>)}
SmallLists == {<<>>, <<a>>, <<Empty, a>>}
UpToThree == {<<>>, <<a>>, <<Empty, a>>, <<a, Empty, a>>}

\* Arguments of shift: less than none, none, and up to more than there are.
Shifts == {-1} \cup 0..4

\* Scopes with lists are explored from where there are either positional
\* parameters or an array of at most three elements, not both: no command moves
\* elements between them.
OnlyElements(n, indexes) ==
    \A i \in 1..Len(scopes) :
        scopes[i][n] = None \/ Elements(scopes[i][n]) \subseteq indexes

OneKind ==
    \/ \A i \in DOMAIN scopes : scopes[i][x] = None
    \/ OnlyElements(x, 0..2) /\ OnlyElements("*", {})
============================================================================
