----------------------------- MODULE TreeWalk -----------------------------
(***************************************************************************)
(* The tree walker's way through a script (libbashWalker.g).  It does not  *)
(* walk the tree: it reads the tokens of the tree in order, DOWN and UP    *)
(* among them, and everything that is not straight ahead -- the body of a  *)
(* loop again, a branch not taken, a function defined or called, a jump    *)
(* out of a loop -- is a SEEK to a position that the rule remembered or    *)
(* counted out.  Module Trees says what the script means without           *)
(* positions; the walker must execute just that.                           *)
(*                                                                         *)
(* The walker is a function of the tokens and of the outcomes of commands  *)
(* and tests; it waits when it needs one more, and a step supplies it.     *)
(***************************************************************************)
EXTENDS Trees

CONSTANTS
    Scripts,     \* trees
    MaxOutcomes, \* bound: the length of outcomes
    MaxCount     \* bound: the argument of break and continue

ASSUME BoundsAssumption == MaxOutcomes \in Nat /\ MaxCount \in Nat \ {0}

VARIABLES
    script,
    tokens,   \* the node stream of the script
    outcomes, \* of the commands and tests executed so far
    walk      \* how far the walker has come with them

vars == <<script, tokens, outcomes, walk>>

----------------------------------------------------------------------------
(* Positions.                                                              *)

LA(r, i) == IF r.index + i - 1 \in DOMAIN tokens THEN tokens[r.index + i - 1].type ELSE "EOF"

SEEK(r, i) == [r EXCEPT !.index = i]

Skip(r, i) == Then(r, LAMBDA s : SEEK(s, s.index + i))

\* A rule that meets a token it has no alternative for.
Mismatch(r) == [r EXCEPT !.jump = Jump("mismatch", 1)]

Match(r, type) == Then(r, LAMBDA s : IF LA(s, 1) = type THEN Skip(s, 1) ELSE Mismatch(s))

\* ^(root rule)
Inside(r, root, Rule(_)) == Match(Then(Match(Match(r, root), "DOWN"), Rule), "UP")

PathAt(r) == tokens[r.index].path

\* The loop of seek_to_next_tree: the index of LA behind the token that ends
\* the tree.
RECURSIVE Behind(_, _, _)
Behind(r, index, depth) ==
    IF depth = 0 \/ LA(r, index) = "EOF" THEN index
    ELSE Behind(r, index + 1,
                CASE LA(r, index) = "DOWN" -> depth + 1
                  [] LA(r, index) = "UP" -> depth - 1
                  [] OTHER -> depth)

\* "The beginning should always be ROOT DOWN ANY_TOKEN.  So we start from LA(4)"
seek_to_next_tree(r) == Then(r, LAMBDA s : Skip(s, Behind(s, 4, 1) - 1))

skip_next_token_or_tree(r) == IF LA(r, 2) # "DOWN" THEN Skip(r, 1) ELSE seek_to_next_tree(r)

----------------------------------------------------------------------------
(* Conditions and arithmetic.                                              *)

\* The rules that call one another; their bodies have capitals and come below.
RECURSIVE Walk(_, _)

keyword_condition(r)  == Walk("keyword_condition", r)
arithmetics(r)        == Walk("arithmetics", r)
logic_command_list(r) == Walk("logic_command_list", r)
command(r)            == Walk("command", r)
command_list(r)       == Walk("command_list", r)
compound_command(r)   == Walk("compound_command", r)

\* Mutant: the end of the rule is matched although the return skips it.
ShortCircuit_CountsNoUp(r, root, decided) ==
    LET l == Then(Match(Match(r, root), "DOWN"), keyword_condition) IN
    Then(l, LAMBDA s :
        IF s.value = decided THEN seek_to_next_tree(s)
        ELSE Match(keyword_condition(s), "UP"))

\* [[ a || b ]]: the return skips the rest of the rule, and thereby its UP.
ShortCircuit(r, root, decided) ==
    LET l == Then(Match(Match(r, root), "DOWN"), keyword_condition) IN
    Then(l, LAMBDA s :
        IF s.value = decided THEN Skip(seek_to_next_tree(s), 1)
        ELSE Match(keyword_condition(s), "UP"))

KeywordCondition(r) ==
    CASE LA(r, 1) = "LOGICOR" -> ShortCircuit(r, "LOGICOR", TRUE)
      [] LA(r, 1) = "LOGICAND" -> ShortCircuit(r, "LOGICAND", FALSE)
      [] LA(r, 1) = "NEGATION" ->
            Then(Inside(r, "NEGATION", keyword_condition), LAMBDA s : [s EXCEPT !.value = ~@])
      [] OTHER ->
            Inside(r, "STRING", LAMBDA s : Match(Decide(s, PathAt(s)), "NAME"))

\* The right operand of || and && in arithmetic.
RightOperand(r, decided) ==
    Then(arithmetics(r), LAMBDA s :
        IF s.value = decided THEN skip_next_token_or_tree(s) ELSE arithmetics(s))

arithmetic(r) ==
    CASE LA(r, 1) = "LOGICOR" -> Inside(r, "LOGICOR", LAMBDA s : RightOperand(s, TRUE))
      [] LA(r, 1) = "LOGICAND" -> Inside(r, "LOGICAND", LAMBDA s : RightOperand(s, FALSE))
      [] LA(r, 1) = "BANG" ->
            Inside(r, "BANG", LAMBDA s :
                Then(arithmetics(s), LAMBDA l : [l EXCEPT !.value = ~@]))
      [] LA(r, 1) = "PLUS" ->
            Inside(r, "PLUS", LAMBDA s :
                Then(arithmetics(s), LAMBDA l :
                    Then(arithmetics(l), LAMBDA t : [t EXCEPT !.value = @ \/ l.value])))
      [] LA(r, 1) = "ARITHMETIC_CONDITION" ->
            Inside(r, "ARITHMETIC_CONDITION", LAMBDA s :
                Then(arithmetics(s), LAMBDA cnd :
                    Then(arithmetics(cnd), LAMBDA l :
                        Then(arithmetics(l), LAMBDA t :
                            [t EXCEPT !.value = IF cnd.value THEN l.value ELSE @]))))
      [] LA(r, 1) = "EQUALS" ->
            Inside(r, "EQUALS", LAMBDA s :
                Then(arithmetics(Match(s, "NAME")), LAMBDA l : Decide(l, PathAt(s))))
      [] LA(r, 1) = "VAR_REF" ->
            Inside(r, "VAR_REF", LAMBDA s : Match(Decide(s, PathAt(s)), "NAME"))
      [] LA(r, 1) = "NUMBER" -> Match(Decide(r, PathAt(r)), "NUMBER")
      [] OTHER -> Mismatch(r)

\* As many expressions as there are: the comma operator, or parentheses.
Arithmetics(r) ==
    IF LA(r, 1) # "ARITHMETIC" THEN arithmetic(r)
    ELSE Then(Inside(r, "ARITHMETIC", arithmetics), LAMBDA s :
             IF LA(s, 1) = "ARITHMETIC" THEN arithmetics(s) ELSE s)

----------------------------------------------------------------------------
(* Commands.                                                               *)

logic_command(r) ==
    LET root == LA(r, 1)
        Operands(s) ==
            Then(logic_command_list(s), LAMBDA l :
                IF (l.status = 0) = (root = "LOGICAND") THEN command(l) ELSE seek_to_next_tree(l))
    IN Inside(r, root, Operands)

LogicCommandList(r) ==
    CASE LA(r, 1) = "COMMAND" -> command(r)
      [] LA(r, 1) \in {"LOGICAND", "LOGICOR"} -> logic_command(r)
      [] OTHER -> Mismatch(r)

RECURSIVE Commands(_)
Commands(r) ==
    Then(logic_command_list(r), LAMBDA s :
        IF LA(s, 1) \in {"COMMAND", "LOGICAND", "LOGICOR"} THEN Commands(s) ELSE s)

CommandList(r) == Inside(r, "LIST", Commands)

\* The index of the function body is pushed on the node stream, and popped.
call(r) ==
    IF r.body = 0 THEN Unsupported(r)
    ELSE SEEK(CatchReturn(compound_command(SEEK(r, r.body))), r.index)

simple_command(r) ==
    LET name == Then(Match(r, "STRING"), LAMBDA s : Match(s, "DOWN")) IN
    Then(name, LAMBDA s :
        LET read == Match(Match(s, LA(s, 1)), "UP") IN
        Then(read, LAMBDA t :
            IF LA(s, 1) = "FUNCTION_NAME" THEN call(t) ELSE Perform(t, PathAt(s))))

\* Mutant: the body is where the walker stands after it.
function_definition_SeeksFirst(r) ==
    LET Define(s) ==
            Then(Inside(s, "STRING", LAMBDA t : Match(t, "NAME")), LAMBDA t :
                Then(seek_to_next_tree(t), LAMBDA u :
                    [u EXCEPT !.body = IF @ = 0 THEN u.index ELSE @]))
    IN Inside(r, "FUNCTION", Define)

function_definition(r) ==
    LET Define(s) ==
            Then(Inside(s, "STRING", LAMBDA t : Match(t, "NAME")), LAMBDA t :
                seek_to_next_tree([t EXCEPT !.body = IF @ = 0 THEN t.index ELSE @]))
    IN Inside(r, "FUNCTION", Define)

Command(r) ==
    LET command_atom(s) ==
            CASE LA(s, 1) = "STRING" -> simple_command(s)
              [] LA(s, 1) = "FUNCTION" -> function_definition(s)
              [] OTHER -> compound_command(s)
    IN Inside(r, "COMMAND", command_atom)

----------------------------------------------------------------------------
(* Loops.                                                                  *)

\* The string_exprs after the name: how many there are, of how many values.
RECURSIVE ReadWords(_, _, _)
ReadWords(r, count, values) ==
    IF LA(r, 1) # "STRING" THEN [at |-> r, count |-> count, values |-> values]
    ELSE ReadWords(Skip(r, 4), count + 1, IF LA(r, 3) = "NAME" THEN values + 1 ELSE values)

\* A break leaves the loop at the body, as the last iteration does.
RECURSIVE ForLoop(_, _)
ForLoop(r, k) ==
    IF k = 0 THEN r
    ELSE LET s == command_list(r) IN
         IF GoesOn(s) THEN ForLoop(SEEK(GoOn(s), r.index), k - 1)
         ELSE SEEK(LeaveLoop(s), r.index)

for_expr(r) ==
    LET Body(s) ==
            LET words == ReadWords(Match(s, "NAME"), 0, 0) IN
            IF words.count > 0 /\ words.values = 0
            THEN [seek_to_next_tree(words.at) EXCEPT !.status = 0]
            ELSE seek_to_next_tree(
                     ForLoop(words.at, IF words.count = 0 THEN Arguments ELSE words.values))
    IN Inside(r, "FOR", Body)

for_part(r, type) == Inside(r, type, arithmetics)

for_condition(r) ==
    IF LA(r, 1) = "FOR_COND" THEN for_part(r, "FOR_COND") ELSE [r EXCEPT !.value = TRUE]

RECURSIVE CForLoop(_, _, _)
\* Mutant: continue goes to the condition without the modification.
CForLoop_ContinueSkipsModification(r, condition_index, modification_index) ==
    Then(for_condition(r), LAMBDA c :
        IF ~c.value THEN c
        ELSE LET s == command_list(c) IN
             IF ~GoesOn(s) THEN SEEK(LeaveLoop(s), c.index)
             ELSE Then(IF s.jump = NoJump /\ LA(s, 1) = "FOR_MOD"
                       THEN for_part(s, "FOR_MOD") ELSE GoOn(s),
                       LAMBDA t : CForLoop(SEEK(t, condition_index), condition_index,
                                           modification_index)))

\* The walker returns standing at the body.
CForLoop(r, condition_index, modification_index) ==
    Then(for_condition(r), LAMBDA c :
        IF ~c.value THEN c
        ELSE LET s == command_list(c)
                 next == IF s.jump = NoJump THEN s ELSE SEEK(GoOn(s), modification_index)
             IN IF ~GoesOn(s) THEN SEEK(LeaveLoop(s), c.index)
                ELSE Then(IF LA(SEEK(r, modification_index), 1) = "FOR_MOD"
                          THEN for_part(next, "FOR_MOD") ELSE next,
                          LAMBDA t : CForLoop(SEEK(t, condition_index), condition_index,
                                              modification_index)))

cfor_expr(r) ==
    LET init == IF LA(r, 3) = "FOR_INIT" THEN for_part(Skip(r, 2), "FOR_INIT") ELSE Skip(r, 2)
        body == IF LA(init, 1) = "FOR_COND" THEN seek_to_next_tree(init) ELSE init
        loop == Then(init, LAMBDA s : CForLoop(s, s.index, seek_to_next_tree(body).index))
        Out(s) == IF LA(s, 1) = "FOR_MOD" THEN seek_to_next_tree(s) ELSE s
    IN Skip(Then(seek_to_next_tree(loop), Out), 1)

RECURSIVE WhileLoop(_, _, _)
WhileLoop(r, condition_index, keyword) ==
    Then(command_list(SEEK(r, condition_index)), LAMBDA c :
        IF EndsLoop(keyword, c.status) THEN c
        ELSE LET s == command_list(c) IN
             IF GoesOn(s) THEN WhileLoop(GoOn(s), condition_index, keyword)
             ELSE SEEK(LeaveLoop(s), c.index))

while_expr(r) ==
    LET keyword == IF LA(r, 1) = "UNTIL" THEN "until" ELSE "while"
    IN Skip(seek_to_next_tree(WhileLoop(r, r.index + 2, keyword)), 1)

----------------------------------------------------------------------------
(* Branches.                                                               *)

elif_expr(r) ==
    LET c == command_list(Skip(r, 2)) IN
    Then(c, LAMBDA s :
        LET done == IF s.status = 0 THEN command_list(s) ELSE seek_to_next_tree(s)
        IN Skip([done EXCEPT !.value = s.status = 0], 1))

\* value is the local variable matched.
RECURSIVE Branches(_, _)
Branches(r, matched) ==
    CASE LA(r, 1) = "IF" /\ matched -> Branches(seek_to_next_tree(r), TRUE)
      [] LA(r, 1) = "IF" /\ ~matched ->
            Then(elif_expr(r), LAMBDA s : Branches(s, s.value))
      [] LA(r, 1) = "ELSE" /\ matched -> seek_to_next_tree(r)
      [] LA(r, 1) = "ELSE" /\ ~matched -> Skip(command_list(Skip(r, 2)), 1)
      [] OTHER -> r

if_expr(r) == Skip(Branches(Skip(r, 2), FALSE), 1)

\* The clauses behind one that has matched.
RECURSIVE SkipClauses(_)
SkipClauses(r) == IF LA(r, 1) = "CASE_PATTERN" THEN SkipClauses(seek_to_next_tree(r)) ELSE r

case_clause(r) ==
    LET Pattern(s) == Inside(s, "STRING", LAMBDA t : Match(Decide(t, PathAt(t)), "NAME"))
        Clause(s) ==
            Then(Pattern(s), LAMBDA t :
                IF LA(t, 1) # "CASE_COMMAND" THEN t
                ELSE IF t.value THEN [command_list(Skip(t, 1)) EXCEPT !.value = TRUE]
                ELSE seek_to_next_tree(t))
    IN IF LA(r, 2) = "DOWN" THEN Inside(r, "CASE_PATTERN", Clause)
       ELSE Match([r EXCEPT !.value = FALSE], "CASE_PATTERN")

RECURSIVE Clauses(_)
Clauses(r) ==
    IF LA(r, 1) # "CASE_PATTERN" THEN r
    ELSE Then(case_clause(r), LAMBDA s : Clauses(IF s.value THEN SkipClauses(s) ELSE s))

case_expr(r) ==
    LET Word(s) == Inside(s, "STRING", LAMBDA t : Match(t, "NAME"))
    IN Inside(r, "CASE", LAMBDA s : Then(Word(s), Clauses))

CompoundCommand(r) ==
    CASE LA(r, 1) = "CURRENT_SHELL" -> Inside(r, "CURRENT_SHELL", command_list)
      [] LA(r, 1) = "COMPOUND_COND" ->
            LET Test(s) ==
                    Then(Inside(s, "KEYWORD_TEST", keyword_condition), LAMBDA t :
                        [t EXCEPT !.status = IF t.value THEN 0 ELSE 1])
            IN Inside(r, "COMPOUND_COND", Test)
      [] LA(r, 1) = "ARITHMETIC_EXPRESSION" -> Inside(r, "ARITHMETIC_EXPRESSION", arithmetics)
      [] LA(r, 1) = "FOR" -> for_expr(r)
      [] LA(r, 1) = "CFOR" -> cfor_expr(r)
      [] LA(r, 1) \in {"WHILE", "UNTIL"} -> while_expr(r)
      [] LA(r, 1) = "IF_STATEMENT" -> if_expr(r)
      [] LA(r, 1) = "CASE" -> case_expr(r)
      [] OTHER -> Mismatch(r)

Walk(rule, r) ==
    CASE rule = "keyword_condition" -> KeywordCondition(r)
      [] rule = "arithmetics" -> Arithmetics(r)
      [] rule = "logic_command_list" -> LogicCommandList(r)
      [] rule = "command" -> Command(r)
      [] rule = "command_list" -> CommandList(r)
      [] rule = "compound_command" -> CompoundCommand(r)

\* start: list EOF
start(r) == Then(command_list(r), LAMBDA s : IF LA(s, 1) = "EOF" THEN s ELSE Mismatch(s))

----------------------------------------------------------------------------
(* The walk.                                                               *)

\* What a command may do, and a test say.
OutcomesOf(awaited) ==
    IF awaited = "test" THEN [what : {"status"}, count : 0..1]
    ELSE [what : {"status"}, count : 0..1]
         \cup [what : {"break", "continue"}, count : 1..MaxCount]
         \cup [what : {"return", "error"}, count : {1}]

Waiting(what) == [Start(<<>>, 0) EXCEPT !.jump = Jump(what, 1)]

Init ==
    /\ script \in Scripts
    /\ tokens = <<>>
    /\ outcomes = <<>>
    /\ walk = Waiting("parser")

Parse ==
    /\ walk.jump.what = "parser"
    /\ tokens' = Tokens(script, <<>>)
    /\ walk' = Waiting("walker")
    /\ UNCHANGED <<script, outcomes>>

Interpret ==
    /\ walk.jump.what = "walker"
    /\ walk' = start(Start(<<>>, 0))
    /\ UNCHANGED <<script, tokens, outcomes>>

\* The walker goes on with one more outcome.
GoFurther ==
    /\ walk.jump.what \in {"command", "test"}
    /\ Len(outcomes) < MaxOutcomes
    /\ \E outcome \in OutcomesOf(walk.jump.what) :
          /\ outcomes' = Append(outcomes, outcome)
          /\ walk' = start(Start(outcomes', 0))
    /\ UNCHANGED <<script, tokens>>

Next == Parse \/ Interpret \/ GoFurther

Spec == Init /\ [][Next]_vars

----------------------------------------------------------------------------
(* Correctness.                                                            *)

meaning == Meaning(script, <<>>, Start(outcomes, <<>>))

\* The walker stands on a token of the script or behind the last one, has no
\* outcome left and executes no more than it has outcomes for.
TypeOK ==
    /\ script \in Scripts
    /\ outcomes \in Seq(OutcomesOf("command")) /\ Len(outcomes) <= MaxOutcomes
    /\ walk.index \in 1..Len(tokens) + 1
    /\ walk.outcomes = <<>> /\ Len(walk.trace) = Len(outcomes)
    /\ walk.jump.what \in {"none", "break", "continue", "return", "error", "command", "test",
                          "parser", "walker"}
    /\ walk.body \in 0..Len(tokens)

\* The walker executes the commands and tests that the script means, in their
\* order, ends as it should and with its status: no SEEK of a loop, a branch, a
\* short circuit, a function or a handler in libbashWalker.g leads elsewhere.
ExecutesTheScript ==
    walk.jump.what \notin {"parser", "walker"} =>
    /\ walk.trace = meaning.trace
    /\ walk.jump = meaning.jump
    /\ walk.status = meaning.status

\* define_function(function_name, INDEX()) remembers where the body begins in
\* the node stream: the body of the first definition that was executed, at its
\* root, in whatever construct the definition stands, and nothing before.
FunctionsKnowTheirBody ==
    walk.jump.what \notin {"parser", "walker"} =>
    /\ walk.body = 0 <=> meaning.body = <<>>
    /\ walk.body # 0 =>
          /\ tokens[walk.body].path = meaning.body[2]
          /\ \A i \in 1..walk.body - 1 : tokens[i].path # meaning.body[2]
============================================================================
