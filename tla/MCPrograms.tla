----------------------------- MODULE MCPrograms -----------------------------
(***************************************************************************)
(* What the programs meet, for TLC.  Characters are ASCII codes.           *)
(***************************************************************************)
EXTENDS TextProperties

a == 97
b == 98
c == 99
Colon == 58

CharWords == Seq(Nat)

WordsUpTo(chars, n) == UNION {[1..k -> chars] : k \in 0..n}

----------------------------------------------------------------------------
(* Commands.                                                               *)

Word(word)  == [how |-> "word", word |-> word, quoted |-> FALSE]
Value(name) == [how |-> "value", name |-> name, index |-> 0, quoted |-> FALSE]
Quoted(e)   == [e EXCEPT !.quoted = TRUE]

LetBe(name, value) == [kind |-> "assign", name |-> name, index |-> 0, value |-> value]
Say(name, word)    == LetBe(name, Word(word))
List(name, words)  == [kind |-> "list", name |-> name, words |-> words]
Function(name)     == [kind |-> "function", name |-> name, spelled |-> <<a, b>>]
Set(words)         == [kind |-> "set", args |-> [k \in DOMAIN words |-> Word(words[k])]]
Jump               == [kind |-> "jump"]
Echo(args)         == [kind |-> "echo", args |-> args]

DashU == Set(<<<<Minus, 117>>>>)

----------------------------------------------------------------------------
(* instruo: three packages in two categories, two threads.                 *)

Package(category, name) ==
    [category |-> category, package |-> name, version |-> <<49>>,
     revision |-> <<114, 48>>, full |-> <<49>>]

p1 == Package(<<a>>, <<a>>)
p2 == Package(<<a>>, <<b>>)
p3 == Package(<<b>>, <<a>>)

MCPackages == {p1, p2, p3}

\* DEPEND="b a" with E_DEPEND="a ab c c"; IUSE comes from the preloaded script.
Good == <<Say("DEPEND", <<b, Space, a>>), Say("E_DEPEND", <<a, Space, a, b, Space, c, Space, c>>),
          Function("src_install")>>
\* INHERITED="c a", E_INHERITED="b a"; EAPI="4", and DEPEND but no RDEPEND.
Sorted == <<Say("INHERITED", <<c, Space, a>>), Say("E_INHERITED", <<b, Space, a>>),
            Say("EAPI", <<52>>), List("DEPEND", <<<<c>>, <<a>>>>)>>
Unbound == <<DashU, LetBe("x", Value("y"))>>
Leaves == <<Jump>>
BadNumber == <<Say("EAPI", <<a>>)>>
EmptyList == <<List("DEPEND", <<>>)>>

Repository(s1, s2, s3) ==
    [program |-> "instruo", options |-> {"generate-cache"}, repository |-> "good",
     writable |-> TRUE, old |-> {}, stdin |-> <<>>, ids |-> <<p1, p2, p3>>,
     files |-> Preload :> <<Say("IUSE", <<c>>), Function("pkg_setup")>>
               @@ path(p1) :> s1 @@ path(p2) :> s2 @@ path(p3) :> s3]

Repositories ==
    LET all == {Repository(Good, Sorted, Good), Repository(Unbound, SyntaxError, Good),
                Repository(Sorted, Unbound, Unbound), Repository(Good, Leaves, Sorted),
                Repository(BadNumber, Good, Unbound), Repository(Good, EmptyList, Good)}
    IN all \cup {[r EXCEPT !.old = {output_path(p1), output_path(p2)}] : r \in all}
           \cup {[Repository(Good, Unbound, Sorted) EXCEPT !.writable = FALSE],
                 [Repository(Good, Good, Good) EXCEPT !.files[Preload] = SyntaxError]}

CommandLines ==
    {[Repository(Good, Good, Good) EXCEPT !.options = o, !.repository = r] :
        o \in {{"unknown"}, {"help"}, {"version"}, {"version", "generate-cache"}, {}},
        r \in {"missing", "no location"}}

----------------------------------------------------------------------------
(* The programs that run one script.                                       *)

Script(program, commands) ==
    [program |-> program, argc |-> 2, old |-> {}, stdin |-> <<>>,
     files |-> Main :> commands @@ Preload :> <<Say("IUSE", <<c>>)>>]

Bash(commands) == Script("bash", commands)

Scripts_ ==
    {Script(p, s) : p \in ScriptPrograms, s \in {Good, Sorted, Unbound, Leaves, BadNumber, SyntaxError}}
    \cup {[Bash(<<>>) EXCEPT !.argc = 1]}

Options ==
    {Bash(<<Set(args), LetBe("x", Value("y"))>>) : args \in
        {<<>>, <<<<>>>>, <<<<Minus>>>>, <<<<a, a>>>>, <<<<43, Minus>>>>, <<<<Minus, 101>>>>,
         <<<<43, 101>>>>, <<<<Minus, 120>>>>, <<<<Minus, 122>>>>, <<<<Minus, Minus>>, <<a>>>>}}
    \cup {Bash(<<[kind |-> "shopt", option |-> o, names |-> ns]>>) :
            o \in {"s", "u", "p", "q"}, ns \in {<<>>, <<"extglob">>, <<"extglob", "none", "extquote">>}}
    \cup {Bash(<<Function("src_install"), Say("x", <<a>>), Set(v),
                 [kind |-> d, names |-> ns]>>) :
            v \in {<<<<Minus, Minus>>>>, <<<<Minus, 117>>>>}, d \in {"declare -F", "declare -p"},
            ns \in {<<>>, <<"x">>, <<"x", "y">>}}
    \cup {Bash(<<[kind |-> "function", name |-> "src_install", spelled |-> s]>>) :
            s \in WordsUpTo({a, 49, 36}, 2)}

----------------------------------------------------------------------------
(* Expansions.                                                             *)

Holes == <<Say("x", <<a>>), [Say("x", <<b, b>>) EXCEPT !.index = 2]>>

Part(how, name, to, offset, length) ==
    LetBe(to, [how |-> how, name |-> name, index |-> 0, offset |-> offset, length |-> length])

PartScript(how, name, before, o, l) ==
    before \o <<Part(how, name, "y", o, l), Part(how, name, "z", o + l, Whole),
                Part(how, name, "t", o, Whole)>>

Parts ==
    {Bash(PartScript("substring", "x", <<Say("x", w)>>, o, l)) :
        w \in {<<>>, <<a>>, <<a, b>>, <<a, b, c>>}, o \in -4..4, l \in 0..4}
    \cup {Bash(PartScript("subarray", "x", before, o, l)) :
            before \in {<<>>, Holes, <<List("x", <<<<a>>, <<b>>, <<c>>>>)>>}, o \in -4..4, l \in 0..3}
    \cup {Bash(PartScript("subarray", "*", <<Set(<<<<Minus, Minus>>, <<a>>, <<b>>>>)>>, o, l)) :
            o \in -3..3, l \in 0..3}
    \cup {Bash(<<Part(how, n, "y", o, -1)>>) : how \in {"substring", "subarray"}, n \in {"x", "*"}, o \in 0..1}

Patterns ==
    {{<<a>>}, {<<a>>, <<b>>}, {<<a, b>>}, {w \in WordsUpTo({a, b}, 3) : w # <<>> /\ w[1] = a},
     {w \in WordsUpTo({a, b}, 3) : w # <<>> /\ w[Len(w)] = b}, WordsUpTo({a, b}, 3) \ {<<>>}}

Replacements ==
    {Bash(<<Say("x", w), LetBe("y", [how |-> h, name |-> "x", index |-> 0, operator |-> o,
                                     pattern |-> p, word |-> r])>>) :
        h \in {"replace"}, w \in WordsUpTo({a, b}, 3), p \in Patterns, r \in {<<>>, <<c>>},
        o \in {"REPLACE_ALL", "REPLACE_AT_END", "LAZY_REMOVE_AT_END", "REPLACE_AT_START",
               "LAZY_REMOVE_AT_START", "REPLACE_FIRST"}}
    \cup {Bash(Holes \o <<LetBe("y", [how |-> "array_replace", name |-> "x", operator |-> "REPLACE_ALL",
                                      pattern |-> {<<b>>}, word |-> <<c>>])>>)}

Lengths ==
    {Bash(s \o <<LetBe("y", [how |-> h, name |-> "x", index |-> i, word |-> <<c>>, colon |-> colon])>>) :
        s \in {<<>>, <<Say("x", <<>>)>>, Holes, <<DashU>>, <<DashU>> \o Holes},
        h \in {"value", "default", "alternate", "length", "array_length", "elements"},
        i \in {0, 1}, colon \in BOOLEAN}
    \cup {Bash(<<Say("IFS", ifs)>> \o Holes
               \o <<LetBe("y", [how |-> "elements", name |-> "x", colon |-> TRUE])>>) :
            ifs \in {<<>>, <<b, a>>}}

\* set -- a b c; IFS=...; x=...; set -- $x, and an empty and a quoted argument.
Splits ==
    {Bash(<<Set(<<<<Minus, Minus>>, <<a>>, <<b>>, <<c>>>>), Say("IFS", ifs), Say("x", w),
            [kind |-> "set", args |-> <<dashes, Value("x")>>]>>) :
        ifs \in {<<>>, <<Space>>, <<Colon>>, <<Space, Colon>>, <<Minus, Colon>>},
        w \in WordsUpTo({a, Space, Colon}, 4),
        dashes \in {Word(<<Minus, Minus>>), Quoted(Word(<<Minus, Minus>>))}}
    \cup {Bash(<<Say("x", w), Say("y", <<>>),
                 [kind |-> "set", args |-> <<Word(<<Minus, Minus>>), e, Value("y"), Quoted(Value("y"))>>]>>) :
            w \in {<<>>, <<Space>>, <<a, Space, b>>}, e \in {Value("x"), Quoted(Value("x"))}}

----------------------------------------------------------------------------
(* read, echo and printf.                                                  *)

\* "%s %s\n"
TwoWords == <<Percent, Space, Percent, Newline>>

ReadBack ==
    LET both == <<Quoted(Value("x")), Quoted(Value("y"))>>
    IN {Echo(both), [kind |-> "printf", name |-> "z", args |-> <<Quoted(Word(TwoWords))>> \o both]}

Input(lines, commands) == [Bash(commands) EXCEPT !.stdin = lines]

ReadXY == [kind |-> "read", names |-> <<"x", "y">>]

Reads ==
    {Input(<<v, w, <<b>>>>, <<ReadXY, echo_>>) :
        v \in WordsUpTo({a, Space, Backslash}, 3), w \in WordsUpTo({a, Space, Backslash}, 1), echo_ \in ReadBack}
    \cup {Input(<<v>>, <<ReadXY, echo_>>) :
            v \in WordsUpTo({a, Space, Backslash, 110, Letter_c}, 2)
                  \cup {<<Backslash, Letter_x, 52, 49, a>>, <<Backslash, 48, 49, 48, 49, 49>>,
                        <<Backslash, Letter_x>>, <<Backslash, 39>>}, echo_ \in ReadBack}
    \cup {Input(<<v, v>>, <<[kind |-> "read", names |-> n], ReadXY>>) :
            v \in {<<>>, <<a>>}, n \in {<<>>, <<"x">>, <<"0">>}}

EchoArguments == {<<>>, <<a>>, <<Minus>>, <<Minus, 110>>, <<Minus, 101>>, <<Minus, 69>>, <<Minus, 101, a>>,
                  <<Backslash, 110>>, <<a, Backslash, Letter_c, b>>}

Echoes ==
    {Bash(<<Echo([k \in DOMAIN args |-> Quoted(Word(args[k]))])>>) : args \in WordsUpTo(EchoArguments, 2)}
    \cup {Bash(<<[kind |-> "printf", name |-> "z", args |-> [k \in DOMAIN args |-> Quoted(Word(args[k]))]]>>) :
            args \in {<<>>, <<<<>>>>, <<<<a>>>>, <<<<a>>, <<b>>>>, <<<<Percent>>, <<a>>, <<b>>>>, <<<<Minus, a>>>>,
                      <<dash_v, <<122>>>>, <<dash_v, <<122>>, <<Percent, b>>, <<a>>>>,
                      <<<<Backslash, Letter_c>>>>}}

----------------------------------------------------------------------------
(* Tests.                                                                  *)

File(type, mtime, inode) ==
    [type |-> type, mode |-> {}, access |-> {"r"}, size |-> mtime, mine |-> {"O"},
     mtime |-> mtime, atime |-> 1, inode |-> inode]

Operand(link, info, number_, word) ==
    [link |-> link, info |-> info, number |-> number_, word |-> word, tty |-> FALSE]

Infos == {Missing, File("f", 0, 1), File("d", 1, 2), File("S", 1, 3), File("f", 2, 4)}

TestOf(t) == Bash(<<[kind |-> "test", test |-> t]>>)

Tests ==
    {TestOf([binary |-> TRUE, operator |-> o, lhs |-> Operand(FALSE, i, 0, TRUE),
             rhs |-> Operand(FALSE, j, 0, TRUE)]) :
        o \in {"nt", "ot", "ef", "xx"}, i \in Infos, j \in Infos}
    \cup {TestOf([binary |-> TRUE, operator |-> o, lhs |-> Operand(FALSE, Missing, m, TRUE),
                  rhs |-> Operand(FALSE, Missing, n, TRUE)]) :
            o \in {"eq", "ne", "lt", "le", "gt", "ge"}, m \in {0, 1, NotANumber}, n \in {0, 1, NotANumber}}
    \cup {TestOf([binary |-> FALSE, operator |-> o, lhs |-> Operand(l, i, 0, l)]) :
            o \in {"a", "e", "d", "f", "g", "r", "s", "O", "N", "L", "z", "n", "o", "t", "q"},
            l \in BOOLEAN, i \in Infos}

----------------------------------------------------------------------------
(* ast_printer.                                                            *)

AstPrinterInputs ==
    {[program |-> "ast_printer", options |-> o, scripts |-> <<"f", "g", "h">>, old |-> {},
      states |-> "f" :> "good" @@ "g" :> s @@ "h" :> t @@ "expr" :> s @@ "stdin" :> t] :
        o \in {{"unknown"}, {"help"}, {}, {"expr"}} \cup
              {{"files"} \cup x \cup y \cup z : x \in {{}, {"token"}, {"walker-token"}},
                                               y \in {{}, {"silent"}}, z \in {{}, {"bad tokens"}}},
        s \in ScriptStates, t \in ScriptStates}

ScriptInputs == Scripts_ \cup Options \cup Parts \cup Replacements \cup Lengths \cup Splits
                \cup Reads \cup Echoes \cup Tests

MCInputs == Repositories \cup CommandLines \cup ScriptInputs \cup AstPrinterInputs

----------------------------------------------------------------------------
MCNames == {"IFS", "0", "*", "-", "REPLY", "DEPEND", "RDEPEND", "INHERITED", "EAPI", "IUSE",
            "E_DEPEND", "E_RDEPEND", "E_INHERITED", "E_EAPI", "E_IUSE", "PN", "PV", "P", "PR",
            "PVR", "PF", "CATEGORY", "srcdir", "x", "y", "z", "t"}

MCmetadata_names == <<"DEPEND", "RDEPEND", "INHERITED", "IUSE", "EAPI">>

MCGlobal == "DEPEND" :> "E_DEPEND" @@ "RDEPEND" :> "E_RDEPEND" @@ "INHERITED" :> "E_INHERITED"
            @@ "EAPI" :> "E_EAPI" @@ "IUSE" :> "E_IUSE"

MCphases == "pkg_setup" :> <<115>> @@ "src_install" :> <<105>>

NoWord == <<>>
=============================================================================
