------------------------------ MODULE Metadata ------------------------------
(***************************************************************************)
(* write_metadata (src/utils/metadata.cpp): the cache entry of an ebuild   *)
(* from the variables and functions that libbash::interpret returned.      *)
(* variables maps names to lists of words, as the vectors of the API do.   *)
(***************************************************************************)
EXTENDS Expansions

CONSTANTS
    DEPEND, RDEPEND, INHERITED, EAPI,  \* names that the function treats apart
    metadata_names,  \* the names, in the order of the lines
    Global,          \* Global[n]: the name E_n
    phases           \* the functions that are phases, and their short names

ASSUME MetadataNamesAssumption ==
    /\ metadata_names \in Seq(DOMAIN Global)
    /\ DOMAIN Global = ToSet(metadata_names)
    /\ \A m, n \in DOMAIN Global : Global[m] # n /\ (Global[m] = Global[n] => m = n)
    /\ {DEPEND, RDEPEND, INHERITED, EAPI} \subseteq DOMAIN Global

ASSUME PhasesAssumption == \A f \in DOMAIN phases : phases[f] \in Words

Blanks == {32, 9, Newline}

Defined(variables, name) == name \in DOMAIN variables

\* Element 0 is read of whatever is defined; it does not exist in an empty one.
ReadsElementZero(variables, name) == Defined(variables, name) /\ variables[name] = <<>>

\* boost::lexical_cast<int> of a word, which is short enough for an int; where
\* it fails, bad_lexical_cast is no interpreter_exception.
Unsigned(word) == IF word # Empty /\ word[1] \in {43, 45} THEN Tail(word) ELSE word

IsNumber(word) ==
    Unsigned(word) # Empty /\ \A i \in DOMAIN Unsigned(word) : Unsigned(word)[i] \in 48..57

number(word) ==
    FoldLeft(LAMBDA sum, c : 10 * sum + c - 48, 0, Unsigned(word))
        * (IF word[1] = 45 THEN -1 ELSE 1)

BadEAPI(variables) ==
    Defined(variables, EAPI) /\ (variables[EAPI] = <<>> \/ ~IsNumber(variables[EAPI][1]))

\* Before EAPI 4, RDEPEND is DEPEND unless it is defined.
WithRdepend(variables) ==
    LET eapi == IF Defined(variables, EAPI) THEN number(variables[EAPI][1]) ELSE 0
    IN IF eapi < 4 /\ ~Defined(variables, RDEPEND) /\ Defined(variables, DEPEND)
       THEN [n \in DOMAIN variables \cup {RDEPEND} |->
                variables[IF n = RDEPEND THEN DEPEND ELSE n]]
       ELSE variables

\* value.find(word) # npos
find(value, word) ==
    \E i \in 0..(Len(value) - Len(word)) : SubSeq(value, i + 1, i + Len(word)) = word

blank_separated(word) == split(trim_if(word, Blanks), Blanks, TRUE)

\* Mutant: a word is looked for in the value of the ebuild alone.
with_global_OldValue(value, global) ==
    FoldLeft(LAMBDA all, word : IF find(value, word) THEN all ELSE all \o <<32>> \o word,
             value, blank_separated(global))

\* The words of E_n are appended to n if they do not occur in it.
with_global(value, global) ==
    FoldLeft(LAMBDA all, word : IF find(all, word) THEN all ELSE all \o <<32>> \o word,
             value, blank_separated(global))

\* operator< of std::string
Before(v, w) ==
    \/ Len(v) < Len(w) /\ v = SubSeq(w, 1, Len(v))
    \/ \E i \in DOMAIN v \cap DOMAIN w :
          v[i] < w[i] /\ \A j \in 1..(i - 1) : v[j] = w[j]

\* The elements of S in their order: R has the pairs whose first comes no later.
Ordered(S, R) ==
    [k \in 1..Cardinality(S) |-> CHOOSE i \in S : Cardinality({j \in S : <<j, i>> \in R}) = k]

\* sort
sorted(words) ==
    LET places == DOMAIN words
        NoLater(i, j) == Before(words[i], words[j]) \/ (words[i] = words[j] /\ i <= j)
        at == Ordered(places, {p \in places \X places : NoLater(p[1], p[2])})
    IN [k \in places |-> words[at[k]]]

\* The words of the line of a name; those of INHERITED are sorted.
metadata_line(variables, name) ==
    LET value  == IF Defined(variables, name) THEN variables[name][1] ELSE Empty
        all    == IF Defined(variables, Global[name])
                  THEN with_global(value, variables[Global[name]][1]) ELSE value
        words  == blank_separated(all)
    IN IF name = INHERITED THEN sorted(words) ELSE words

\* The short names of the functions that are phases: a sorted set.
phases_line(functions) ==
    LET names == {phases[f] : f \in functions \cap DOMAIN phases}
    IN Ordered(names, {p \in names \X names : ~Before(p[2], p[1])})

\* write_metadata: its lines, without the empty ones at the end.
write_metadata(variables, functions) ==
    Append([k \in DOMAIN metadata_names |-> metadata_line(WithRdepend(variables), metadata_names[k])],
           phases_line(functions))

\* Whether it ends in front of line k: EAPI is no number, or an element 0 that
\* does not exist is read.
EndsAt(variables, k) ==
    \/ k = 1 /\ BadEAPI(variables)
    \/ /\ k \in DOMAIN metadata_names
       /\ \/ ReadsElementZero(WithRdepend(variables), metadata_names[k])
          \/ ReadsElementZero(variables, Global[metadata_names[k]])
=============================================================================
