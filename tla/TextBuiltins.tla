---------------------------- MODULE TextBuiltins ----------------------------
(***************************************************************************)
(* echo, printf, read (src/builtins) and transform_escapes                 *)
(* (src/cppbash_builtin.cpp).  suppress_output and the exceptions of       *)
(* Boost.Format are no interpreter_exceptions.                             *)
(***************************************************************************)
EXTENDS Expansions

Space == 32
Backslash == 92
Minus == 45
Quotes == {34, 39}
Letter_c == 99
Letter_x == 120
Percent == 37  \* stands for a whole directive of a format, such as %s

----------------------------------------------------------------------------
(* transform_escapes                                                       *)

\* \a \b \e \E \f \n \r \t \v \\ and the characters they write.
Escape == [c \in {97, 98, 101, 69, 102, 110, 114, 116, 118, Backslash} |->
             CASE c = 97 -> 7 [] c = 98 -> 8 [] c \in {101, 69} -> 27 [] c = 102 -> 12
               [] c = 110 -> Newline [] c = 114 -> 13 [] c = 116 -> 9 [] c = 118 -> 11
               [] c = Backslash -> Backslash]

Digit(c) == IF c \in 48..57 THEN c - 48
            ELSE IF c \in 65..70 THEN c - 55
            ELSE IF c \in 97..102 THEN c - 87 ELSE 16

\* qi::uint_parser<unsigned, base, 1, most>: how many digits it takes.
Digits(string, i, base, most) ==
    Max({n \in 0..most : /\ i + n - 1 <= Len(string)
                         /\ \A k \in i..(i + n - 1) : Digit(string[k]) < base})

\* static_cast<char>: one byte.
Number(string, i, n, base) ==
    FoldLeft(LAMBDA sum, c : base * sum + Digit(c), 0, SubSeq(string, i, i + n - 1)) % 256

\* The escape at character i: what it writes, and its length with the backslash.
\* What is no escape is written as it is.
EscapeAt(string, i, ansi_c) ==
    LET plain == [text |-> <<string[i]>>, length |-> 1]
        c     == string[i + 1]
        numeric(base, most) ==
            LET n == Digits(string, i + 2, base, most)
            IN IF n = 0 THEN plain
               ELSE [text |-> <<Number(string, i + 2, n, base)>>, length |-> n + 2]
    IN IF string[i] # Backslash \/ i = Len(string) THEN plain
       ELSE IF c \in DOMAIN Escape THEN [text |-> <<Escape[c]>>, length |-> 2]
       ELSE IF c \in Quotes
            THEN [text |-> IF ansi_c THEN <<c>> ELSE <<Backslash, c>>, length |-> 2]
       ELSE IF c = 48 THEN numeric(8, 3)
       ELSE IF c = Letter_x THEN numeric(16, 2)
       ELSE plain

Suppresses(string, i) ==
    i < Len(string) /\ string[i] = Backslash /\ string[i + 1] = Letter_c

\* What is written, and whether suppress_output is thrown then, by \c.
transform_escapes(string, ansi_c) ==
    LET from[i \in 1..(Len(string) + 1)] ==
            IF i > Len(string) THEN [text |-> Empty, suppressed |-> FALSE]
            ELSE IF Suppresses(string, i) THEN [text |-> Empty, suppressed |-> TRUE]
            ELSE LET escape == EscapeAt(string, i, ansi_c)
                 IN [from[i + escape.length] EXCEPT !.text = escape.text \o @]
    IN from[1]

----------------------------------------------------------------------------
(* echo                                                                    *)

\* determine_options: - and one or more of n, e, E.  The empty argument is
\* parsed to its end as well.
is_options(arg) ==
    arg = Empty \/ (Len(arg) > 1 /\ arg[1] = Minus /\ ToSet(Tail(arg)) \subseteq {110, 101, 69})

\* The last e or E decides, in any of the arguments.
enable_escapes(options) ==
    LET letters == FlattenSeq(options)
        deciding == {i \in DOMAIN letters : letters[i] \in {101, 69}}
    IN deciding # {} /\ letters[Max(deciding)] = 101

suppress_nl(options) == \E k \in DOMAIN options : Contains(options[k], 110)

\* With -e the arguments follow each other without spaces, and \c ends them all.
EscapedArguments(args) ==
    FoldLeft(LAMBDA out, arg :
                IF out.suppressed THEN out
                ELSE LET next == transform_escapes(arg, FALSE)
                     IN [next EXCEPT !.text = out.text \o @],
             [text |-> Empty, suppressed |-> FALSE], args)

\* What echo writes.  When all arguments are options it writes nothing.
echo(args) ==
    LET texts     == {k \in DOMAIN args : ~is_options(args[k])}
        options   == SubSeq(args, 1, Min(texts) - 1)
        arguments == SubSeq(args, Min(texts), Len(args))
        escaped   == EscapedArguments(arguments)
        eol       == IF suppress_nl(options) THEN Empty ELSE <<Newline>>
    IN IF args = <<>> THEN <<Newline>>
       ELSE IF texts = {} THEN Empty
       ELSE IF ~enable_escapes(options) THEN join(arguments, <<Space>>) \o eol
       ELSE IF escaped.suppressed THEN escaped.text
       ELSE escaped.text \o eol

----------------------------------------------------------------------------
(* printf                                                                  *)

\* A format with its directives replaced by words; missing ones are empty.
Formatted(format, words) ==
    FoldLeft(LAMBDA out, k :
                out \o (IF format[k] # Percent THEN <<format[k]>>
                        ELSE LET n == Cardinality({i \in 1..k : format[i] = Percent})
                             IN IF n <= Len(words) THEN words[n] ELSE Empty),
             Empty, [k \in DOMAIN format |-> k])

\* The format is used again for what it has no directive for (too_many_args);
\* without any directive the second attempt throws again.
Reused(format, words) ==
    LET directives == Cardinality({i \in DOMAIN format : format[i] = Percent})
        rounds == Max({1, (Len(words) + directives - 1) \div directives})
    IN IF words = <<>> THEN Formatted(format, words)
       ELSE IF directives = 0 THEN OtherException
       ELSE FoldLeft(LAMBDA out, r :
                        out \o Formatted(format, SubSeq(words, (r - 1) * directives + 1,
                                                        Min({r * directives, Len(words)}))),
                     Empty, [r \in 1..rounds |-> r])

dash_v == <<Minus, 118>>

\* What printf writes, to its output or to args[2] with -v; there is an argument.
printf(args) ==
    LET first  == IF args[1] = dash_v THEN 3 ELSE 1
        format == transform_escapes(args[first], FALSE)
        output == Reused(format.text, SubSeq(args, first + 1, Len(args)))
    IN IF args[1] = dash_v /\ Len(args) < 3 THEN InterpreterException
       ELSE IF format.suppressed \/ output = OtherException THEN OtherException
       ELSE IF args[1] # dash_v /\ FirstOf(args[1]) = <<Minus>> THEN InterpreterException
       ELSE output

----------------------------------------------------------------------------
(* read.  The input is the list of its lines; the last one has no newline  *)
(* behind it.                                                              *)

\* getline: the line, what is left, and whether eof() holds.
getline(lines) ==
    [line |-> IF lines = <<>> THEN Empty ELSE Head(lines),
     rest |-> IF lines = <<>> THEN lines ELSE Tail(lines),
     eof  |-> Len(lines) <= 1]

\* The loop of exec over lines that end in a backslash.  Nothing is left of the
\* input when it gets empty, not even the line that was read behind it.
logical_line(lines) ==
    LET joined[got \in [line : Seq(Nat), rest : Seq(Seq(Nat)), eof : BOOLEAN]] ==
            LET next == getline(got.rest)
                eof  == got.eof \/ next.eof
            IN IF got.line = Empty \/ Last(got.line) # Backslash THEN got
               ELSE IF Front(got.line) = Empty
               THEN [line |-> Empty, rest |-> next.rest, eof |-> eof]
               ELSE joined[[line |-> Front(got.line) \o next.line, rest |-> next.rest,
                            eof |-> eof]]
    IN joined[getline(lines)]

\* Mutant: the last variable gets one word.
process_OneWordEach(names, input) ==
    LET words == split(input, {Space}, FALSE)
    IN [k \in DOMAIN names |-> IF k <= Len(words) THEN words[k] ELSE Empty]

\* process: one word for each name, the rest for the last one, "" for names
\* without a word.
process(names, input) ==
    LET words == split(input, {Space}, FALSE) IN
    [k \in DOMAIN names |->
        IF k > Len(words) THEN Empty
        ELSE IF k < Len(names) THEN words[k]
        ELSE join(SubSeq(words, k, Len(words)), <<Space>>)]

\* read: the values for the names ({} if they keep theirs), the input that is
\* left and the status.
read(names, lines) ==
    LET input   == logical_line(lines)
        escaped == transform_escapes(input.line, FALSE)
    IN [values |-> IF input.line = Empty THEN <<>> ELSE process(names, escaped.text),
        suppressed |-> escaped.suppressed,
        rest |-> input.rest,
        status |-> IF input.eof THEN 1 ELSE 0]
=============================================================================
