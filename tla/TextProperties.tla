--------------------------- MODULE TextProperties ---------------------------
(***************************************************************************)
(* What the commands of a script compute with words: properties of the job *)
(* Main of module Programs after each of its commands.                     *)
(***************************************************************************)
EXTENDS Programs

\* The commands that Main has executed, while its script is walked.
Executed ==
    IF exit = "running" /\ jobs[Main].stage = "script"
    THEN SubSeq(script(Main), 1, jobs[Main].pc - 1) ELSE <<>>

walker == jobs[Main].walker

ValueOf(name) == resolve(walker.vars[name], 0, FALSE)

\* The word in front of position i and the one from i on.
UpTo(word, i) == SubSeq(word, 1, i - 1)
From(word, i) == SubSeq(word, i, Len(word))

\* What the removal e makes of the word old: the shortest or the longest match
\* at one end is gone, or replaced, and a word without a match is left alone.
Removes(e, old, new) ==
    LET heads == {i \in 1..Len(old) : SubSeq(old, 1, i) \in e.pattern}
        tails == {i \in 1..Len(old) : From(old, i) \in e.pattern}
    IN /\ (e.operator = "LAZY_REMOVE_AT_START" /\ e.word = Empty) =>
             IF heads = {} THEN new = old ELSE new = From(old, Min(heads) + 1)
       /\ e.operator = "REPLACE_AT_START" =>
             IF heads = {} THEN new = old ELSE new = e.word \o From(old, Max(heads) + 1)
       /\ e.operator = "LAZY_REMOVE_AT_END" =>
             IF tails = {} THEN new = old ELSE new = UpTo(old, Max(tails))
       /\ e.operator = "REPLACE_AT_END" =>
             IF tails = {} THEN new = old ELSE new = UpTo(old, Min(tails)) \o e.word

\* A command name=${n...} that reads and gives element 0, of different names.
IsRemoval(c) ==
    /\ c.kind = "assign" /\ c.index = 0
    /\ c.value.how = "replace" /\ c.value.index = 0
    /\ c.value.name # c.name

\* ${n#p} and ${n%p} remove the shortest, ${n##p} and ${n%%p} the longest match
\* at the start or the end, and nothing else: what is left is the other end of
\* the word, no match that is shorter (longer) was passed over, and a word that
\* does not match is left alone (replace_all and lazy_remove_at_end, whose
\* greedy and lazy expressions are anchored at one end each).
RemovalIsExtremal ==
    (Executed # <<>> /\ IsRemoval(Last(Executed))) =>
        Removes(Last(Executed).value, ValueOf(Last(Executed).value.name),
                ValueOf(Last(Executed).name))

\* A command name=${n:o:l} or name=${n[*]:o:l} that leaves alone what it reads.
TakesPart(c) ==
    /\ c.kind = "assign" /\ c.index = 0
    /\ c.value.how \in {"substring", "subarray"} /\ c.value.index = 0
    /\ c.name \notin {c.value.name, Zero, IFS}

\* The characters of a word, or the elements of an array.
SizeOf(e, var) ==
    IF var = None THEN 0
    ELSE IF e.how = "substring" THEN Len(get_value(var, 0)) ELSE get_array_length(var)

\* e and f take parts that lie side by side and g takes both, from an offset at
\* either end that is not in front of the start.
SideBySide(e, f, g, var) ==
    /\ e.how = g.how /\ f.how = g.how /\ e.name = g.name /\ f.name = g.name
    /\ e.length # Whole /\ f.length = Whole /\ g.length = Whole
    /\ e.offset = g.offset /\ f.offset = e.offset + e.length
    /\ (e.offset < 0) = (f.offset < 0)
    /\ -e.offset <= SizeOf(e, var)

\* What is between them: the elements of an array are joined.  The first
\* positional parameter is at offset 1.
Between(e, f, var, delim) ==
    IF /\ e.how = "subarray" /\ e.length > 0
       /\ f.offset < SizeOf(e, var) + (IF e.name = Star THEN 1 ELSE 0)
    THEN delim ELSE Empty

\* A part and the part behind it make up the whole: for ${n:o:l}, ${n:o+l} and
\* ${n:o}, of a word, an array with holes and the positional parameters, with
\* offsets from either end that are not in front of the start (get_real_offset
\* and the two ways to count positional parameters).
PartsMakeTheWhole ==
    LET last == Len(Executed)
        a == Executed[last - 2]
        b == Executed[last - 1]
        c == Executed[last]
        var == walker.vars[c.value.name]
    IN (/\ last >= 3
        /\ TakesPart(a) /\ TakesPart(b) /\ TakesPart(c)
        /\ a.name # b.name /\ c.name \notin {a.name, b.name}
        /\ SideBySide(a.value, b.value, c.value, var))
       => (ValueOf(a.name) \o Between(a.value, b.value, var, FirstOf(ValueOf(IFS)))) \o ValueOf(b.name)
              = ValueOf(c.name)

\* A command set -- $n or set "--" $n.  A minus sign in IFS splits an unquoted --.
IsSplit(c, ifs) ==
    LET dashes == c.args[1]
        value  == c.args[2]
    IN /\ c.kind = "set" /\ Len(c.args) = 2
       /\ dashes.how = "word" /\ dashes.word = <<Minus, Minus>>
       /\ dashes.quoted \/ Minus \notin ToSet(ifs)
       /\ value.how = "value" /\ value.index = 0 /\ ~value.quoted
       /\ value.name # Star

\* set -- $n makes the runs of the value of n the positional parameters from $1 on,
\* none of them empty, cut or lost, and none is left of those from before:
\* split_word trims the separators at both ends, takes several of them for one and
\* adds nothing for a value that has only separators (argument, split_word,
\* define_positional_arguments), up to the bound on indexes.
SplitIsRuns ==
    LET c    == Last(Executed)
        runs == Runs(ValueOf(c.args[2].name), ToSet(ValueOf(IFS)))
        star == walker.vars[Star]
    IN (Executed # <<>> /\ IsSplit(c, ValueOf(IFS)) /\ Len(runs) <= MaxIndex) =>
           /\ Elements(star) = 1..Len(runs)
           /\ \A k \in 1..Len(runs) : get_value(star, k) = runs[k]

\* The lines of the input that one read takes, as one line: a line that ends in
\* a backslash goes on in the next one.
Continued(line) == line # Empty /\ Last(line) = Backslash

TakenLines(lines) ==
    Min({k \in DOMAIN lines : ~Continued(lines[k])} \cup {Len(lines)})

Unescaped(line) == IF Continued(line) THEN Front(line) ELSE line

JoinedLines(lines) ==
    FlattenSeq([k \in 1..TakenLines(lines) |-> Unescaped(lines[k])])

\* What reads as an option of echo.
ReadsAsOption(word) == word # Empty /\ word[1] = Minus

\* echo "$a" "$b" or printf "%s %s\n" "$a" "$b"
WritesBoth(c, names) ==
    LET values == [k \in 1..2 |-> [how |-> "value", name |-> names[k], index |-> 0,
                                 quoted |-> TRUE]]
    IN \/ c.kind = "echo" /\ c.args = values
       \/ /\ c.kind = "printf"
          /\ c.args = <<[how |-> "word", word |-> <<Percent, Space, Percent, Newline>>,
                         quoted |-> TRUE]>> \o values

\* The first space of a text.
FirstSpace(text) == Min({k \in DOMAIN text : text[k] = Space} \cup {Len(text) + 1})

\* read a b; echo "$a" "$b" and read a b; printf "%s %s\n" "$a" "$b" write the
\* line that was read, escapes replaced and continued lines joined, when its first
\* space has something in front of it and behind it.  Otherwise a or b is empty
\* and no argument, though it is quoted: the space is lost, and printf, whose
\* second directive is left over, puts one at the end.  The next read goes on
\* with the line behind.
\* A word that looks like an option is out of reach of echo.  read_builtin.cpp
\* loses a line that holds a single backslash with the line behind it, and takes
\* a backslash in front of the last one for a second continuation.
ReadIsEchoed ==
    LET lines == input.stdin
        names == Executed[1].names
        taken == JoinedLines(lines)
        lost  == \E k \in 1..Min({TakenLines(lines), Len(lines)}) :
                     /\ \A i \in 1..k : Unescaped(lines[i]) = Empty
                     /\ Continued(lines[k])
        text  == transform_escapes(taken, FALSE).text
        first == FirstSpace(text)
        words == UpTo(text, first) \o From(text, first + 1)
        left  == IF Executed[2].kind = "printf" THEN <<Space>> ELSE Empty
    IN (/\ Len(Executed) = 2 /\ preloaded = <<>>
        /\ Executed[1].kind = "read"
        /\ Len(names) = 2 /\ names[1] # names[2]
        /\ WritesBoth(Executed[2], names)
        /\ lines # <<>> /\ taken # Empty /\ ~lost
        /\ \A k \in DOMAIN lines : ~Continued(Unescaped(lines[k]))
        /\ Executed[2].kind = "echo" => ~ReadsAsOption(words))
       => /\ walker.output = (IF first \in 2..(Len(text) - 1) THEN text ELSE words \o left)
                                 \o <<Newline>>
          /\ walker.input = SubSeq(lines, TakenLines(lines) + 1, Len(lines))

\* The age of a file for -nt and -ot: one that does not exist is older than all.
Age(file) == IF file.info = Missing THEN -1 ELSE file.info.mtime

\* What it means that test t holds, or does not.
Tells(t, holds) ==
    /\ t.binary /\ t.operator = "nt" => holds = (Age(t.lhs) > Age(t.rhs))
    /\ t.binary /\ t.operator = "ot" => holds = (Age(t.rhs) > Age(t.lhs))
    /\ t.binary /\ t.operator = "ef" /\ holds => Age(t.lhs) = Age(t.rhs) /\ Age(t.lhs) # -1
    /\ ~t.binary /\ t.operator \notin {"L", "h", "z", "n", "t"} /\ holds => t.lhs.info # Missing

\* -nt and -ot compare ages, of files that do not exist as well, and are each
\* other's converse; -ef holds of existing files only, and then neither is
\* newer; what a unary test other than -L and -h finds exists (file_comp,
\* test_file_stat).
FileTestsAgree ==
    (Executed # <<>> /\ Last(Executed).kind = "test") =>
        Tells(Last(Executed).test, walker.status = 0)
=============================================================================
