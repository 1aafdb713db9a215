---------------------------- MODULE MCTreeWalk ----------------------------
(***************************************************************************)
(* Scripts for TreeWalk: every construct around commands, constructs       *)
(* within constructs and within functions, and short circuits.  A command  *)
(* follows each, for a walker that has lost its way to miss.               *)
(***************************************************************************)
EXTENDS TreeWalk

Leaf(kind) == Node(kind, <<>>)

Simple == Leaf("simple")
List(parts) == Node("list", parts)
One == List(<<Simple>>)

Str == Leaf("string")
Var == Leaf("variable")
Num == Leaf("number")
Paren(parts) == Node("paren", parts)

----------------------------------------------------------------------------
(* Compound commands with this list in them.                               *)

WordLists ==
    {<<>>, <<Leaf("empty_word")>>, <<Leaf("word")>>,
     <<Leaf("word"), Leaf("empty_word"), Leaf("word")>>}

If(present, node) == IF present THEN <<node>> ELSE <<>>

CForLoopOf(init, cond, mod, body) ==
    Node("cfor", If(init, Node("init", <<Var>>)) \o If(cond, Node("cond", <<Var, Num>>))
                 \o <<body>> \o If(mod, Node("mod", <<Num>>)))

Loops(body) ==
    {Node("for", Append(words, body)) : words \in WordLists}
    \cup {CForLoopOf(init, cond, mod, body) : init, cond, mod \in BOOLEAN}
    \cup {Node(keyword, <<One, body>>) : keyword \in {"while", "until"}}

Branch(body) == Node("branch", <<One, body>>)
Else(body) == Node("else", <<body>>)
Clause(parts) == Node("clause", parts)

Branchings(body) ==
    {Node("if", parts) : parts \in
        {<<Branch(body)>>, <<Branch(One), Else(body)>>, <<Branch(One), Branch(body)>>,
         <<Branch(body), Branch(One), Else(One)>>}}
    \cup {Node("case", parts) : parts \in
        {<<Leaf("esac")>>, <<Clause(<<body>>)>>, <<Clause(<<>>), Clause(<<body>>)>>,
         <<Clause(<<body>>), Clause(<<One>>), Clause(<<>>)>>}}

Constructs(body) == Loops(body) \cup Branchings(body) \cup {Node("shell", <<body>>)}

----------------------------------------------------------------------------
(* Conditions.  Operands in parentheses stand alone on the right of || and *)
(* &&, and not on both sides of an operator: see the README.               *)

Either(a, b) == Node("cond_or", <<a, b>>)
Both(a, b) == Node("cond_and", <<a, b>>)
Not(a) == Node("not", <<a>>)

Tests ==
    {Node("test", <<c>>) : c \in
        {Str, Either(Str, Not(Str)), Both(Either(Str, Str), Str), Not(Both(Str, Either(Str, Str)))}}

Or(a, b) == Node("arith_or", <<a, b>>)
And(a, b) == Node("arith_and", <<a, b>>)
Plus(a, b) == Node("plus", <<a, b>>)

Expressions ==
    {Node("let", parts) : parts \in
        {<<Or(Var, Num), Var>>, <<And(Or(Var, Var), Plus(Num, Var))>>, <<Or(Num, Paren(<<Var>>))>>,
         <<And(Var, Paren(<<Plus(Paren(<<Var, Num>>), Var)>>))>>,
         <<Node("assign", <<Or(Node("arith_not", <<Var>>), Paren(<<Node("assign", <<Num>>)>>))>>)>>,
         <<Node("ternary", <<Var, Num, And(Var, Num)>>), Node("assign", <<Paren(<<Var, Var>>)>>)>>}}

Logic ==
    {Node(outer, <<Node(inner, <<Simple, Simple>>), Simple>>) : outer, inner \in {"and", "or"}}
    \cup {Node(outer, <<Simple, Node("shell", <<One>>)>>) : outer \in {"and", "or"}}

----------------------------------------------------------------------------
(* Scripts.                                                                *)

Inner ==
    {Node("for", <<Leaf("word"), One>>), CForLoopOf(FALSE, TRUE, TRUE, One),
     Node("while", <<One, One>>), Node("if", <<Branch(One), Else(One)>>),
     Node("case", <<Clause(<<One>>), Clause(<<One>>)>>), Node("and", <<Simple, Simple>>)}

Bodies ==
    (Inner \ {Node("and", <<Simple, Simple>>)})
    \cup {Node("shell", <<List(<<Simple, Simple>>)>>)}

Flat == Constructs(One) \cup Tests \cup Expressions \cup Logic

Nested == UNION {Constructs(List(<<inner>>)) : inner \in Inner}

\* A function called before its definition, after it, and within a construct.
Called(body) ==
    LET definition == Node("define", <<body>>)
        use == Leaf("call")
    IN {List(<<use, definition>>)}
       \cup {List(<<definition, construct, Simple>>) :
                construct \in {use, Node("for", <<Leaf("word"), Leaf("word"), List(<<use>>)>>),
                               Node("if", <<Branch(List(<<use>>)), Else(List(<<use>>))>>)}}

AllScripts ==
    {List(<<construct, Simple>>) : construct \in Flat \cup Nested}
    \cup UNION {Called(body) : body \in Bodies}
============================================================================
