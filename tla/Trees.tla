------------------------------- MODULE Trees -------------------------------
(***************************************************************************)
(* Scripts as trees: the constructs of bashast.g, what executing them      *)
(* means, and the tokens as which the tree walker sees them.               *)
(*                                                                         *)
(* A node has a kind and parts.  What a command does, and whether a test   *)
(* holds, is not the script's to decide: each takes the next one of a      *)
(* sequence of outcomes.  The meaning of a script is the trace of what it  *)
(* executes; paths from the root name the nodes.                           *)
(***************************************************************************)
EXTENDS Naturals, Sequences, SequencesExt, TLC

Node(kind, parts) == [kind |-> kind, parts |-> parts]

----------------------------------------------------------------------------
(* Executing.                                                              *)

Jump(what, count) == [what |-> what, count |-> count]

NoJump == Jump("none", 1)

\* The start of an execution; undefined is the body of a function before its
\* definition.  Only the walker has an index.
Start(outcomes, undefined) ==
    [index |-> 1, outcomes |-> outcomes, trace |-> <<>>, status |-> 0, value |-> FALSE,
     jump |-> NoJump, body |-> undefined]

\* What comes after r, unless r is jumping.
Then(r, Op(_)) == IF r.jump = NoJump THEN Op(r) ELSE r

\* A command that is neither a function nor a builtin.
Unsupported(r) == [r EXCEPT !.jump = Jump("error", 1), !.status = 1]

\* The next outcome, of a command or a test; without one, the execution waits.
Consume(r, path, awaited) ==
    IF r.outcomes = <<>> THEN [r EXCEPT !.jump = Jump(awaited, 1)]
    ELSE [r EXCEPT !.trace = Append(@, path), !.outcomes = Tail(@)]

Perform(r, path) ==
    Then(Consume(r, path, "command"), LAMBDA s :
        LET outcome == Head(r.outcomes) IN
        IF outcome.what = "status" THEN [s EXCEPT !.status = outcome.count]
        ELSE [s EXCEPT !.jump = outcome])

Decide(r, path) ==
    Then(Consume(r, path, "test"), LAMBDA s :
        [s EXCEPT !.value = (Head(r.outcomes).count = 0)])

\* After the body of a loop, the next iteration or not: what the handlers
\* around it catch, and rethrow_unless_correct_frame.
GoesOn(r) == r.jump \in {NoJump, Jump("continue", 1)}

GoOn(r) == [r EXCEPT !.jump = NoJump]

LeaveLoop(r) ==
    CASE r.jump.what \notin {"break", "continue"} -> r
      [] r.jump = Jump("break", 1) -> GoOn(r)
      [] OTHER -> [r EXCEPT !.jump.count = @ - 1]

\* The handler around the call of a function.
CatchReturn(r) == IF r.jump.what = "return" THEN GoOn(r) ELSE r

\* The status that ends a loop.
EndsLoop(kind, status) == status = IF kind = "until" THEN 0 ELSE 1

\* "for x" without "in" is over the arguments: there are two.
Arguments == 2

----------------------------------------------------------------------------
(* What a tree means.                                                      *)

RECURSIVE Meaning(_, _, _), InOrder(_, _, _, _), Repeat(_, _, _, _), While(_, _, _),
          CFor(_, _, _), FirstMatch(_, _, _, _)

Part(n, path, i, r) == Meaning(n.parts[i], Append(path, i), r)

InOrder(n, path, i, r) ==
    IF i > Len(n.parts) THEN r
    ELSE Then(Part(n, path, i, r), LAMBDA s : InOrder(n, path, i + 1, s))

\* The part of this kind, if there is one.
Optional(n, path, kind, r) ==
    IF \E i \in DOMAIN n.parts : n.parts[i].kind = kind
    THEN Part(n, path, CHOOSE i \in DOMAIN n.parts : n.parts[i].kind = kind, r)
    ELSE r

Words(n) == SelectSeq(n.parts, LAMBDA part : part.kind \in {"word", "empty_word"})

Repetitions(n) ==
    IF Words(n) = <<>> THEN Arguments
    ELSE Len(SelectSeq(Words(n), LAMBDA part : part.kind = "word"))

Repeat(n, path, k, r) ==
    IF k = 0 THEN r
    ELSE LET s == Optional(n, path, "list", r) IN
         IF GoesOn(s) THEN Repeat(n, path, k - 1, GoOn(s)) ELSE LeaveLoop(s)

While(n, path, r) ==
    Then(Part(n, path, 1, r), LAMBDA t :
        IF EndsLoop(n.kind, t.status) THEN t
        ELSE LET s == Part(n, path, 2, t) IN
             IF GoesOn(s) THEN While(n, path, GoOn(s)) ELSE LeaveLoop(s))

CFor(n, path, r) ==
    Then(Optional(n, path, "cond", [r EXCEPT !.value = TRUE]), LAMBDA t :
        IF ~t.value THEN t
        ELSE LET s == Optional(n, path, "list", t) IN
             IF GoesOn(s)
             THEN Then(Optional(n, path, "mod", GoOn(s)), LAMBDA u : CFor(n, path, u))
             ELSE LeaveLoop(s))

\* The first branch whose condition succeeds, or clause whose pattern matches.
FirstMatch(n, path, i, r) ==
    IF i > Len(n.parts) THEN r
    ELSE LET part == n.parts[i]
             here == Append(path, i)
             Otherwise(s) == FirstMatch(n, path, i + 1, s)
         IN CASE part.kind = "branch" ->
                     Then(Part(part, here, 1, r), LAMBDA s :
                         IF s.status = 0 THEN Part(part, here, 2, s) ELSE Otherwise(s))
              [] part.kind = "else" -> Part(part, here, 1, r)
              [] part.kind = "clause" ->
                     Then(Decide(r, here), LAMBDA s :
                         IF s.value THEN InOrder(part, here, 1, s) ELSE Otherwise(s))
              [] part.kind = "esac" -> r

\* The second part of a condition is not evaluated when the first decides.
Unless(n, path, Decided(_), r) ==
    Then(Part(n, path, 1, r), LAMBDA s : IF Decided(s) THEN s ELSE Part(n, path, 2, s))

Meaning(n, path, r) ==
    CASE n.kind = "simple" -> Perform(r, path)
      [] n.kind = "call" ->
            IF r.body = <<>> THEN Unsupported(r)
            ELSE CatchReturn(Meaning(r.body[1], r.body[2], r))
      [] n.kind = "define" -> \* the first definition stays
            IF r.body = <<>> THEN [r EXCEPT !.body = <<n.parts[1], Append(path, 1)>>] ELSE r
      [] n.kind \in {"list", "shell", "let", "init", "cond", "mod", "paren"} ->
            InOrder(n, path, 1, r)
      [] n.kind = "plus" ->
            Then(Part(n, path, 1, r), LAMBDA s :
                Then(Part(n, path, 2, s), LAMBDA t : [t EXCEPT !.value = @ \/ s.value]))
      [] n.kind = "and" -> Unless(n, path, LAMBDA s : s.status # 0, r)
      [] n.kind = "or" -> Unless(n, path, LAMBDA s : s.status = 0, r)
      [] n.kind = "test" ->
            Then(Part(n, path, 1, r), LAMBDA s : [s EXCEPT !.status = IF s.value THEN 0 ELSE 1])
      [] n.kind = "for" ->
            LET s == IF Repetitions(n) = 0 THEN [r EXCEPT !.status = 0] ELSE r
            IN Repeat(n, path, Repetitions(n), s)
      [] n.kind \in {"while", "until"} -> While(n, path, r)
      [] n.kind = "cfor" ->
            Then(Optional(n, path, "init", r), LAMBDA s : CFor(n, path, s))
      [] n.kind \in {"if", "case"} -> FirstMatch(n, path, 1, r)
      [] n.kind \in {"string", "number", "variable"} -> Decide(r, path)
      [] n.kind \in {"cond_or", "arith_or"} -> Unless(n, path, LAMBDA s : s.value, r)
      [] n.kind \in {"cond_and", "arith_and"} -> Unless(n, path, LAMBDA s : ~s.value, r)
      [] n.kind \in {"not", "arith_not"} ->
            Then(Part(n, path, 1, r), LAMBDA s : [s EXCEPT !.value = ~@])
      [] n.kind = "assign" -> Then(Part(n, path, 1, r), LAMBDA s : Decide(s, path))
      [] n.kind = "ternary" -> \* all three are evaluated
            Then(Part(n, path, 1, r), LAMBDA c :
                Then(Part(n, path, 2, c), LAMBDA s :
                    Then(Part(n, path, 3, s), LAMBDA t :
                        [t EXCEPT !.value = IF c.value THEN s.value ELSE @])))

----------------------------------------------------------------------------
(* The tokens of a tree, as the rewrite rules of the parser grammar build  *)
(* it and the node stream of the walker lists it.                          *)

Token(type, path) == <<[type |-> type, path |-> path]>>

\* A tree without children is its root alone.
Tree(root, children) ==
    IF children = <<>> THEN root
    ELSE root \o Token("DOWN", <<>>) \o children \o Token("UP", <<>>)

CommandTypes ==
    [list |-> "LIST", and |-> "LOGICAND", or |-> "LOGICOR", shell |-> "CURRENT_SHELL",
     for |-> "FOR", cfor |-> "CFOR", init |-> "FOR_INIT", cond |-> "FOR_COND", mod |-> "FOR_MOD",
     while |-> "WHILE", until |-> "UNTIL", if |-> "IF_STATEMENT", branch |-> "IF",
     else |-> "ELSE", case |-> "CASE", clause |-> "CASE_PATTERN", esac |-> "CASE_PATTERN",
     simple |-> "STRING", call |-> "STRING", define |-> "FUNCTION", word |-> "STRING",
     empty_word |-> "STRING"]

ConditionTypes ==
    [test |-> "KEYWORD_TEST", string |-> "STRING", cond_or |-> "LOGICOR",
     cond_and |-> "LOGICAND", not |-> "NEGATION"]

\* plus is every operator that evaluates both operands, assign = and += and ...
ArithmeticTypes ==
    [let |-> "ARITHMETIC_EXPRESSION", number |-> "NUMBER", variable |-> "VAR_REF",
     arith_or |-> "LOGICOR", arith_and |-> "LOGICAND", arith_not |-> "BANG", plus |-> "PLUS",
     ternary |-> "ARITHMETIC_CONDITION", assign |-> "EQUALS"]

RootTypes == CommandTypes @@ ConditionTypes @@ ArithmeticTypes

RECURSIVE Tokens(_, _)

\* What a tree begins with before its parts.
Prefix(n, path) ==
    CASE n.kind \in {"simple", "string", "variable", "word", "for", "assign"} ->
            Token("NAME", path)
      [] n.kind = "call" -> Token("FUNCTION_NAME", path)
      [] n.kind = "empty_word" -> Token("EMPTY", path)
      [] n.kind \in {"case", "clause", "define"} ->
            Tree(Token("STRING", path), Token("NAME", path))
      [] OTHER -> <<>>

\* Arithmetic is a forest: one ARITHMETIC per expression between commas.
Wrapped(n, i, tokens) ==
    CASE n.kind \in {"list", "and", "or"} /\ n.parts[i].kind \notin {"and", "or"} ->
            Tree(Token("COMMAND", <<>>), tokens)
      [] n.kind \in {"let", "init", "cond", "mod", "paren"} ->
            Tree(Token("ARITHMETIC", <<>>), tokens)
      [] n.kind = "clause" -> Token("CASE_COMMAND", <<>>) \o tokens
      [] OTHER -> tokens

Tokens(n, path) ==
    LET children == [i \in DOMAIN n.parts |-> Wrapped(n, i, Tokens(n.parts[i], Append(path, i)))]
        content == Prefix(n, path) \o FlattenSeq(children)
    IN CASE n.kind = "paren" -> content
         [] n.kind = "test" -> 
                Tree(Token("COMPOUND_COND", path), Tree(Token("KEYWORD_TEST", path), content))
         [] OTHER -> Tree(Token(RootTypes[n.kind], path), content)
============================================================================
