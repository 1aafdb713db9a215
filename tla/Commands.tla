------------------------------ MODULE Commands ------------------------------
(***************************************************************************)
(* Commands of a script as operators on the state of one interpreter.  The *)
(* commands have one table of variables here; local scopes, calls and      *)
(* jumps are the subject of modules Scopes and Unwinding.  An outcome is   *)
(* the new state and the class of the exception that was thrown, or None.  *)
(***************************************************************************)
EXTENDS TextBuiltins, Conditions

CONSTANTS
    Names,                       \* variables, with the five names below
    IFS, Zero, Star, Dash, REPLY,\* $IFS, $0, $*, $- and REPLY
    ShoptNames,                  \* the options of shopt
    ShoptDefaults,               \* those that are on from the start
    FunctionNames                \* names of functions

ASSUME SpecialNamesAssumption == {IFS, Zero, Star, Dash, REPLY} \subseteq Names
ASSUME IFSAssumption == IFS \notin {Zero, Star, Dash, REPLY}
ASSUME NoArguments == InterpreterException \notin Seq(Words)
ASSUME ShoptAssumption == ShoptDefaults \subseteq ShoptNames

\* a b e f h k m n p t u v x B C E H P T; h and B are on from the start.
OptionLetters == {97, 98, 101, 102, 104, 107, 109, 110, 112, 116, 117, 118, 120,
                  66, 67, 69, 72, 80, 84}
OptionDefaults == {104, 66}
Letter_u == 117

\* The members of class interpreter, the streams, and what was listed by name.
Interpreter ==
    [vars : [Names -> Variable \cup {None}], functions : SUBSET FunctionNames,
     options : SUBSET OptionLetters, additional : SUBSET ShoptNames,
     input : Seq(Seq(Nat)), output : Seq(Nat),
     listed : SUBSET (Names \cup FunctionNames \cup ShoptNames), status : {0, 1}]

\* get_options: the options that are on, in the order of their characters.
get_options(options) == Ascending(options)

\* The constructor: $- is computed here, and not again when options change.
interpreter(lines) ==
    [vars |-> [n \in Names |-> CASE n = IFS -> Scalar(<<32, 9, Newline>>, FALSE, 0)
                                 [] n = Dash -> Scalar(get_options(OptionDefaults), FALSE, 0)
                                 [] OTHER -> None],
     functions |-> {}, options |-> OptionDefaults, additional |-> ShoptDefaults,
     input |-> lines, output |-> Empty, listed |-> {}, status |-> 0]

Done(w, status) == [walker |-> [w EXCEPT !.status = status], thrown |-> None]
Thrown(w, exception) == [walker |-> w, thrown |-> exception]

\* get_option('u')
u(w) == Letter_u \in w.options

\* set_value for a variable of this table that is not readonly.
Assigned(w, n, value, index) ==
    [w EXCEPT !.vars[n] = IF @ = None THEN Scalar(value, FALSE, index)
                                      ELSE WithValue(@, value, index)]

is_readonly(w, n) == w.vars[n] # None /\ w.vars[n].readonly

\* set_value for one name after the other; the first readonly one throws.
AssignAll(w, names, values, status) ==
    FoldLeft(LAMBDA done, k :
                IF done.thrown # None THEN done
                ELSE IF is_readonly(done.walker, names[k])
                THEN Thrown(done.walker, InterpreterException)
                ELSE Done(Assigned(done.walker, names[k], values[k], 0), status),
             Done(w, status), [k \in DOMAIN values |-> k])

\* The value of a variable that define gives a list of words.
ListFrom(first, words) ==
    ArrayOf([i \in Indexes |-> IF i - first + 1 \in DOMAIN words THEN words[i - first + 1]
                                                              ELSE Absent])

----------------------------------------------------------------------------
(* Options.                                                                *)

\* set.  Ten options that do something else in bash fall through to u.
set(w, args) ==
    LET sign   == args[1][1]
        letter == args[1][2]
    IN IF args = <<>> THEN Thrown(w, InterpreterException)
       ELSE IF Len(args[1]) < 2 \/ sign \notin {Minus, 43} THEN Thrown(w, InterpreterException)
       ELSE IF letter = Minus /\ sign = Minus
       THEN Done([w EXCEPT !.vars[Star] = ListFrom(1, Tail(args))], 0)
       ELSE IF letter \in {97, 98, 101, 102, 104, 107, 109, 110, 112, 116, Letter_u}
       THEN Done([w EXCEPT !.options = IF sign = Minus THEN @ \cup {Letter_u}
                                                       ELSE @ \ {Letter_u}], 0)
       ELSE Thrown(w, InterpreterException)

\* Mutant: the names are not checked.
shopt_Unchecked(w, letter, names) ==
    LET changed == CASE letter = "s" -> [w EXCEPT !.additional = @ \cup ToSet(names)]
                     [] letter = "u" -> [w EXCEPT !.additional = @ \ ToSet(names)]
                     [] letter = "p" -> [w EXCEPT !.listed = @ \cup ShoptNames]
    IN IF letter \notin {"s", "u", "p"} THEN Thrown(w, InterpreterException)
       ELSE Done(changed, 0)

\* shopt -s names, shopt -u names and shopt -p: the names are taken one by one,
\* those in front of one that is no option are set when it throws.
shopt(w, letter, names) ==
    LET wrong   == {k \in DOMAIN names : names[k] \notin ShoptNames}
        applied == IF wrong = {} THEN names ELSE SubSeq(names, 1, Min(wrong) - 1)
        changed == CASE letter = "s" -> [w EXCEPT !.additional = @ \cup ToSet(applied)]
                     [] letter = "u" -> [w EXCEPT !.additional = @ \ ToSet(applied)]
                     [] letter = "p" -> [w EXCEPT !.listed = @ \cup ShoptNames]
    IN IF letter \notin {"s", "u", "p"} THEN Thrown(w, InterpreterException)
       ELSE IF letter # "p" /\ wrong # {} THEN Thrown(changed, InterpreterException)
       ELSE Done(changed, 0)

----------------------------------------------------------------------------
(* Functions and variables by name.                                        *)

\* check_function_name: !digit is an optional digit in the regular expression.
check_function_name(name) ==
    LET special == {36, 39, 34, 40, 41, 32, 10, 13}
        IsDigit(c) == c \in 48..57
    IN \E k \in {0, 1} :
          /\ k = 1 => name # Empty /\ IsDigit(name[1])
          /\ Len(name) > k
          /\ ~IsDigit(name[k + 1])
          /\ \A i \in (k + 1)..Len(name) : name[i] \notin special

\* define_function: spelled are the characters of its name.
define_function(w, name, spelled) ==
    IF check_function_name(spelled) THEN Done([w EXCEPT !.functions = @ \cup {name}], w.status)
    ELSE Thrown(w, InterpreterException)

\* declare -F: the functions among the names, or all of them.
declare_F(w, names) ==
    IF names = <<>> THEN Done([w EXCEPT !.listed = @ \cup w.functions], 0)
    ELSE Done([w EXCEPT !.listed = @ \cup (ToSet(names) \cap w.functions)],
              IF ToSet(names) \subseteq w.functions THEN 0 ELSE 1)

\* declare -p: names that are unset are reported on the output as well.
declare_p(w, names) ==
    LET unset  == {n \in ToSet(names) : w.vars[n] = None}
        throws == \E n \in ToSet(names) \ unset :
                      resolve(w.vars[n], 0, u(w)) = InterpreterException
    IN IF names = <<>> \/ throws THEN Thrown(w, InterpreterException)
       ELSE Done([w EXCEPT !.listed = @ \cup ToSet(names)], IF unset = {} THEN 0 ELSE 1)

----------------------------------------------------------------------------
(* Words and tests.                                                        *)

\* The first character of IFS, read under option u as all variables are.
Delimiter(w) == IfRead(resolve(w.vars[IFS], 0, u(w)), FirstOf)

\* A number of one digit as a word.
decimal(n) == IF n = InterpreterException THEN n ELSE <<48 + n>>

\* The condition of ${n-word} and ${n+word}, with or without colon.
IsUnset(w, e) ==
    IF e.colon THEN is_unset_or_null(w.vars[e.name], e.index) ELSE w.vars[e.name] = None

\* var_expansion: the word an expansion e stands for.
Expansion(w, e) ==
    LET var  == w.vars[e.name]
        zero == resolve(w.vars[Zero], 0, u(w))
    IN CASE e.how = "word" -> e.word
         [] e.how = "value" -> resolve(var, e.index, u(w))
         [] e.how = "default" ->
                do_default_expansion(IsUnset(w, e), var, e.word, e.index, u(w))
         [] e.how = "alternate" -> do_alternate_expansion(IsUnset(w, e), e.word)
         [] e.how = "substring" ->
                do_substring_expansion(var, e.offset, e.length, e.index, u(w))
         [] e.how = "subarray" ->
                do_subarray_expansion(var, zero, Delimiter(w), e.name = Star,
                                      e.offset, e.length, u(w))
         [] e.how = "length" -> decimal(get_length(var, e.index, u(w)))
         [] e.how = "array_length" -> decimal(ArrayLength(var, u(w)))
         [] e.how = "elements" ->
                get_all_elements_joined(var, IF e.colon THEN Delimiter(w) ELSE <<Space>>, u(w))
         [] e.how = "replace" ->
                do_replace_expansion(var, e.operator, e.pattern, e.word, e.index, u(w))
         [] e.how = "array_replace" ->
                do_array_replace_expansion(var, Delimiter(w), e.operator, e.pattern, e.word, u(w))

\* argument: an empty value is no argument, quoted or not; a quoted value is one
\* argument, any other is split at the characters of IFS.
argument(w, e) ==
    LET value == Expansion(w, e)
    IN IF value = InterpreterException THEN value
       ELSE IF value = Empty THEN <<>>
       ELSE IF e.quoted THEN <<value>>
       ELSE IfRead(resolve(w.vars[IFS], 0, u(w)), LAMBDA delimeter : split_word(value, delimeter))

\* The arguments of a command; the first that throws ends it.
Arguments(w, es) ==
    LET args == [k \in DOMAIN es |-> argument(w, es[k])]
    IN IF \E k \in DOMAIN es : args[k] = InterpreterException
       THEN InterpreterException ELSE FlattenSeq(args)

\* name[index]=e
assign(w, name, index, e) ==
    LET value == Expansion(w, e)
    IN IF value = InterpreterException \/ is_readonly(w, name)
       THEN Thrown(w, InterpreterException)
       ELSE Done(Assigned(w, name, value, index), w.status)

\* name=(words): each of them is one element as it is, an empty one as well.
assign_list(w, name, words) == Done([w EXCEPT !.vars[name] = ListFrom(0, words)], w.status)

\* [[ ]]: the status of a test t.
Test(w, t) ==
    LET holds == IF t.binary THEN test_binary(t.operator, t.lhs, t.rhs)
                 ELSE test_unary(t.operator, t.lhs.word, t.lhs.tty, t.lhs)
    IN IF holds = InterpreterException THEN Thrown(w, holds)
       ELSE Done(w, IF holds THEN 0 ELSE 1)

----------------------------------------------------------------------------
(* Commands that write and read text.                                      *)

echo_builtin(w, es) ==
    LET args == Arguments(w, es)
    IN IF args = InterpreterException THEN Thrown(w, args)
       ELSE Done([w EXCEPT !.output = @ \o echo(args)], 0)

\* printf -v assigns to its second argument.  Without arguments, as in printf "",
\* it reads the first one of an empty vector, at a null pointer: a crash.
printf_builtin(w, es, name) ==
    LET args   == Arguments(w, es)
        output == IF args = InterpreterException THEN args
                  ELSE IF args = <<>> THEN OtherException
                  ELSE printf(args)
    IN IF output \in {InterpreterException, OtherException} THEN Thrown(w, output)
       ELSE IF args[1] = dash_v THEN AssignAll(w, <<name>>, <<output>>, 0)
       ELSE Done([w EXCEPT !.output = @ \o output], 0)

\* set, with what stands behind it.
set_builtin(w, es) ==
    LET args == Arguments(w, es)
    IN IF args = InterpreterException THEN Thrown(w, args) ELSE set(w, args)

\* read; without names it assigns to REPLY.  suppress_output is not caught.
read_builtin(w, args) ==
    LET names == IF args = <<>> THEN <<REPLY>> ELSE args
        got   == read(names, w.input)
        ahead == [w EXCEPT !.input = got.rest]
    IN IF got.suppressed THEN Thrown(ahead, OtherException)
       ELSE AssignAll(ahead, names, got.values, got.status)

----------------------------------------------------------------------------
\* The commands of a script, as the grammar yields them.  Names that commands get
\* as arguments are literals without a character of IFS.
IsList(s) == s \in Seq(ToSet(s))

IsExpansion(e) ==
    /\ e.how \in {"word", "value", "default", "alternate", "substring", "subarray", "length",
                  "array_length", "elements", "replace", "array_replace"}
    /\ e.how # "word" => e.name \in Names
    /\ e.how \in {"word", "default", "alternate", "replace", "array_replace"} => e.word \in Words
    /\ e.how \in {"substring", "subarray"} => e.offset \in Int /\ e.length \in Int \cup {Whole}
    /\ e.how \in {"replace", "array_replace"} =>
          /\ e.operator \in {"REPLACE_ALL", "REPLACE_FIRST", "REPLACE_AT_START", "REPLACE_AT_END",
                             "LAZY_REMOVE_AT_START", "LAZY_REMOVE_AT_END"}
          /\ e.pattern \subseteq Words \ {Empty}

IsTest(t) ==
    /\ t.lhs.info \in Info \cup {Missing}
    /\ t.binary \in BOOLEAN
    /\ t.binary => t.rhs.info \in Info \cup {Missing}
    \* One inode is one file.
    /\ (t.binary /\ Missing \notin {t.lhs.info, t.rhs.info} /\ t.lhs.info.inode = t.rhs.info.inode) =>
          t.lhs.info = t.rhs.info

\* What stands behind the name of a command.
AreArguments(es) == IsList(es) /\ \A e \in ToSet(es) : IsExpansion(e) /\ e.quoted \in BOOLEAN

IsCommand(c) ==
    /\ c.kind \in {"assign", "list", "function", "set", "shopt", "declare -F", "declare -p",
                   "echo", "printf", "read", "test", "jump"}
    /\ c.kind \in {"assign", "list", "printf"} => c.name \in Names
    /\ c.kind = "assign" => c.index \in Indexes /\ IsExpansion(c.value)
    /\ c.kind = "list" => c.words \in Seq(Words)
    /\ c.kind = "function" => c.name \in FunctionNames
    /\ c.kind \in {"shopt", "declare -F", "declare -p"} => IsList(c.names)
    /\ c.kind = "declare -p" => ToSet(c.names) \subseteq Names
    /\ c.kind \in {"set", "echo", "printf"} => AreArguments(c.args)
    /\ c.kind = "read" => c.names \in Seq(Names)
    /\ c.kind = "test" => IsTest(c.test)

\* One command c of a script: cppbash_builtin::exec finds the builtin.
Execute(w, c) ==
    CASE c.kind = "assign" -> assign(w, c.name, c.index, c.value)
      [] c.kind = "list" -> assign_list(w, c.name, c.words)
      [] c.kind = "function" -> define_function(w, c.name, c.spelled)
      [] c.kind = "set" -> set_builtin(w, c.args)
      [] c.kind = "shopt" -> shopt(w, c.option, c.names)
      [] c.kind = "declare -F" -> declare_F(w, c.names)
      [] c.kind = "declare -p" -> declare_p(w, c.names)
      [] c.kind = "echo" -> echo_builtin(w, c.args)
      [] c.kind = "printf" -> printf_builtin(w, c.args, c.name)
      [] c.kind = "read" -> read_builtin(w, c.names)
      [] c.kind = "test" -> Test(w, c.test)
      [] c.kind = "jump" -> Thrown(w, OtherException) \* break, continue, return
=============================================================================
