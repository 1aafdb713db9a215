----------------------------- MODULE AstPrinter -----------------------------
(***************************************************************************)
(* The program ast_printer (src/utils/ast_printer.cpp).  Its options are a *)
(* set of names.  A script is known by its path, "expr" for the value of   *)
(* -e and "stdin" for the standard input; its state tells what reading it  *)
(* comes to.  What is printed is the list of these, on standard output or, *)
(* where the file with the names of the tokens is bad, on standard error.  *)
(* The loop over the files is in module Programs.                          *)
(***************************************************************************)

ScriptStates == {"good", "syntax error", "unreadable"}

Fails          == [fails |-> TRUE, printed |-> <<>>]
Prints(script) == [fails |-> FALSE, printed |-> <<[script |-> script, as |-> "output"]>>]
Nothing        == [fails |-> FALSE, printed |-> <<>>]

\* print_parser_token and print_walker_token once there are tokens.
Tokens(script, options) ==
    IF "bad tokens" \in options
    THEN [fails |-> FALSE, printed |-> <<[script |-> script, as |-> "error"]>>]
    ELSE Prints(script)

\* The lexer alone: a script with syntax errors has tokens as well.
print_parser_token(script, state, options) ==
    IF "silent" \in options THEN Nothing
    ELSE IF state = "unreadable" THEN Fails ELSE Tokens(script, options)

\* Here -s is looked at before the script is parsed ...
print_walker_token(script, state, options) ==
    IF "silent" \in options THEN Nothing
    ELSE IF state # "good" THEN Fails ELSE Tokens(script, options)

\* ... and here behind it.  What cannot be read is an empty script, which the
\* grammar does not accept.
print_ast(script, state, options) ==
    IF state # "good" THEN Fails
    ELSE IF "silent" \in options THEN Nothing ELSE Prints(script)

\* The printer that main binds.
printer(script, state, options) ==
    IF "token" \in options THEN print_parser_token(script, state, options)
    ELSE IF "walker-token" \in options THEN print_walker_token(script, state, options)
    ELSE print_ast(script, state, options)

\* main: -f wins over -e, and both over the standard input.
Scripts(options, files) ==
    IF "files" \in options THEN files
    ELSE IF "expr" \in options THEN <<"expr">> ELSE <<"stdin">>

\* main up to the printing: where it ends before.  --help is a failure, an
\* option that is not known leaves main as an exception.
OptionsEnd(options) ==
    IF "unknown" \in options THEN "aborted"
    ELSE IF "help" \in options THEN "failure" ELSE "running"
=============================================================================
