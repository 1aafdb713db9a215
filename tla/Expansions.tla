----------------------------- MODULE Expansions -----------------------------
(***************************************************************************)
(* The expansions ${...} of src/core/interpreter.h and interpreter.cpp as  *)
(* operators on a variable (None if resolve_variable finds none) and on    *)
(* the value of IFS.  u is the option 'u'.  A word is a sequence of        *)
(* character codes.  The result is a word, a number, a list of words, or   *)
(* InterpreterException.                                                   *)
(*                                                                         *)
(* A pattern is the set of words it matches.  The translation of patterns  *)
(* to regular expressions (bash_pattern in libbashWalker.g) keeps one      *)
(* choice, greedy, and Boost.Xpressive does the matching; patterns that    *)
(* match the empty word are not modelled.                                  *)
(***************************************************************************)
EXTENDS ShellVariable, Exceptions, Integers, SequencesExt

CONSTANT Whole  \* no length was given: numeric_limits<unsigned>::max()

ASSUME NoneIsNoVariable == None \notin Variable
ASSUME WordsAreCodes == Words = Seq(Nat) /\ Empty = <<>>

Newline == 10

\* What follows reads a value; an exception goes on instead.
IfRead(value, F(_)) == IF value = InterpreterException THEN value ELSE F(value)

\* is_valid: under option u a missing variable is an error.
Throws(var, u) == var = None /\ u

\* resolve<std::string>(name, index)
resolve(var, index, u) ==
    IF Throws(var, u) \/ (var # None /\ u /\ index \notin Elements(var))
    THEN InterpreterException
    ELSE IF var = None THEN Empty ELSE get_value(var, index)

\* The order in which a map is iterated over whose keys are these numbers.
Ascending(keys) ==
    [k \in 1..Cardinality(keys) |->
        CHOOSE i \in keys : Cardinality({j \in keys : j <= i}) = k]

\* get_all_values: the elements in the order of their indexes, without holes.
get_all_values(var) ==
    [k \in 1..get_array_length(var) |-> var.value[Ascending(Elements(var))[k]]]

\* resolve_array, for a variable that is_valid.
ArrayValues(var) == IF var = None THEN <<>> ELSE get_all_values(var)

is_unset_or_null(var, index) == var = None \/ is_null(var, index)

----------------------------------------------------------------------------
(* Lengths, and the elements as one word.                                  *)

get_length(var, index, u) ==
    IF Throws(var, u) THEN InterpreterException
    ELSE IF var = None THEN 0 ELSE Len(get_value(var, index))

ArrayLength(var, u) ==
    IF Throws(var, u) THEN InterpreterException
    ELSE IF var = None THEN 0 ELSE get_array_length(var)

\* boost::algorithm::join
join(words, delim) ==
    FoldLeft(LAMBDA all, k : (IF k = 1 THEN all ELSE all \o delim) \o words[k],
             Empty, [k \in DOMAIN words |-> k])

\* resolve("IFS").substr(0, 1): nothing of an empty word.
FirstOf(word) == SubSeq(word, 1, Min({1, Len(word)}))

\* get_all_elements and get_all_elements_IFS_joined: delim may be an exception.
get_all_elements_joined(var, delim, u) ==
    IfRead(delim, LAMBDA d :
        IF Throws(var, u) THEN InterpreterException ELSE join(ArrayValues(var), d))

----------------------------------------------------------------------------
(* ${n-word}, ${n:-word}, ${n+word} and ${n:+word}; those that assign are  *)
(* in module Scopes.                                                       *)

do_default_expansion(cond, var, value, index, u) ==
    IF cond THEN value ELSE resolve(var, index, u)

do_alternate_expansion(cond, value) == IF cond THEN Empty ELSE value

----------------------------------------------------------------------------
(* ${n:offset:length} and ${n[*]:offset:length}.                           *)

\* get_real_offset: negative offsets count from the end ...
real_offset(offset, size) == IF offset >= 0 THEN offset ELSE size + offset

\* ... and there has to be something at the offset.
in_range(offset, size) == real_offset(offset, size) \in 0..(size - 1)

\* Mutant: the length is taken for the index of the last element.
part_ToIndex(list, offset, length) ==
    LET start == real_offset(offset, Len(list))
        last  == IF length = Whole THEN Len(list) ELSE Min({length, Len(list)})
    IN IF in_range(offset, Len(list)) THEN SubSeq(list, start + 1, last) ELSE <<>>

\* substr, and the iterators begin + offset and begin + offset + length.
part(list, offset, length) ==
    LET start == real_offset(offset, Len(list))
        last  == IF length = Whole THEN Len(list) ELSE Min({start + length, Len(list)})
    IN IF in_range(offset, Len(list)) THEN SubSeq(list, start + 1, last) ELSE <<>>

Negative(length) == length # Whole /\ length < 0

\* do_substring_expansion and get_substring
do_substring_expansion(var, offset, length, index, u) ==
    IF Negative(length) THEN InterpreterException
    ELSE IfRead(resolve(var, index, u), LAMBDA value : part(value, offset, length))

\* The list that ${n[*]:offset} takes a part of.  For positional parameters
\* (starred) the offset 0 is $0 and 1 is the first parameter; a negative
\* offset never reaches $0.
Sliced(var, zero, starred, offset) ==
    IF starred /\ offset = 0 THEN <<zero>> \o ArrayValues(var) ELSE ArrayValues(var)

SliceOffset(starred, offset) == IF starred /\ offset > 0 THEN offset - 1 ELSE offset

\* do_subarray_expansion and get_subarray; zero and delim may be exceptions.
\* IFS is not read when the offset is out of range.
do_subarray_expansion(var, zero, delim, starred, offset, length, u) ==
    LET list  == Sliced(var, zero, starred, offset)
        start == SliceOffset(starred, offset)
    IN IF Negative(length) \/ Throws(var, u) THEN InterpreterException
       ELSE IF starred /\ offset = 0 /\ zero = InterpreterException THEN zero
       ELSE IF var = None \/ ~in_range(start, Len(list)) THEN Empty
       ELSE IfRead(delim, LAMBDA d : join(part(list, start, length), d))

----------------------------------------------------------------------------
(* Replacements: ${n//p/w}, ${n/p/w}, ${n/#p/w}, ${n/%p/w}, ${n#p},        *)
(* ${n##p}, ${n%p} and ${n%%p}.                                            *)

\* The lengths of the matches that start at character i; from_start and to_end
\* are the anchors bos and eos around the pattern.
MatchesAt(value, i, pattern, from_start, to_end) ==
    {n \in 1..(Len(value) - i + 1) :
        /\ SubSeq(value, i, i + n - 1) \in pattern
        /\ from_start => i = 1
        /\ to_end => i + n - 1 = Len(value)}

\* The one that is found: * is greedy or not.
Chosen(matches, greedy) == IF greedy THEN Max(matches) ELSE Min(matches)

\* replace_all (regex_replace): from left to right, going on behind a match.
replace_all(value, pattern, greedy, from_start, to_end, replacement) ==
    LET At(i) == MatchesAt(value, i, pattern, from_start, to_end)
        rest[i \in 1..(Len(value) + 1)] ==
            IF i > Len(value) THEN Empty
            ELSE IF At(i) = {} THEN <<value[i]>> \o rest[i + 1]
            ELSE replacement \o rest[i + Chosen(At(i), greedy)]
    IN rest[1]

\* replace_first: format_first_only
replace_first(value, pattern, replacement) ==
    LET At(i)  == MatchesAt(value, i, pattern, FALSE, FALSE)
        starts == {i \in DOMAIN value : At(i) # {}}
        first  == Min(starts)
    IN IF starts = {} THEN value
       ELSE SubSeq(value, 1, first - 1) \o replacement
            \o SubSeq(value, first + Chosen(At(first), TRUE), Len(value))

\* Mutant: the word in front of the pattern is matched lazily.
lazy_remove_at_end_LazyPrefix(value, pattern) ==
    LET kept == {k \in 0..Len(value) : SubSeq(value, k + 1, Len(value)) \in pattern}
    IN IF kept = {} THEN value ELSE SubSeq(value, 1, Min(kept))

\* lazy_remove_at_end: what[1] is the longest word in front of a match, since
\* *_ is greedy.
lazy_remove_at_end(value, pattern) ==
    LET kept == {k \in 0..Len(value) : SubSeq(value, k + 1, Len(value)) \in pattern}
    IN IF kept = {} THEN value ELSE SubSeq(value, 1, Max(kept))

\* The replacer that var_expansion binds for an operator.
replacer(operator, value, pattern, word) ==
    CASE operator = "REPLACE_ALL" -> replace_all(value, pattern, TRUE, FALSE, FALSE, word)
      [] operator = "REPLACE_AT_END" -> replace_all(value, pattern, TRUE, FALSE, TRUE, word)
      [] operator = "LAZY_REMOVE_AT_END" -> lazy_remove_at_end(value, pattern)
      [] operator = "REPLACE_AT_START" -> replace_all(value, pattern, TRUE, TRUE, FALSE, word)
      [] operator = "LAZY_REMOVE_AT_START" -> replace_all(value, pattern, FALSE, TRUE, FALSE, word)
      [] operator = "REPLACE_FIRST" -> replace_first(value, pattern, word)

do_replace_expansion(var, operator, pattern, word, index, u) ==
    IfRead(resolve(var, index, u), LAMBDA value : replacer(operator, value, pattern, word))

\* Every element is replaced, then they are joined; a missing array is empty.
do_array_replace_expansion(var, delim, operator, pattern, word, u) ==
    IF Throws(var, u) THEN InterpreterException
    ELSE IfRead(delim, LAMBDA d :
            join([k \in DOMAIN ArrayValues(var) |->
                    replacer(operator, ArrayValues(var)[k], pattern, word)], d))

----------------------------------------------------------------------------
(* Words of commands.                                                      *)

\* boost::trim_if and trim_right_if with is_any_of(chars)
trim_if(word, chars) ==
    LET kept == {i \in DOMAIN word : word[i] \notin chars}
    IN IF kept = {} THEN Empty ELSE SubSeq(word, Min(kept), Max(kept))

trim_trailing_eols(value) ==
    SubSeq(value, 1, Max({0} \cup {i \in DOMAIN value : value[i] # Newline}))

\* boost::split with is_any_of(chars): one word more than there are separators;
\* compress is token_compress_on, which takes adjacent ones for one.
split(word, chars, compress) ==
    FoldLeft(LAMBDA words, k :
                IF word[k] \notin chars THEN Append(Front(words), Append(Last(words), word[k]))
                ELSE IF compress /\ k > 1 /\ word[k - 1] \in chars THEN words
                ELSE Append(words, Empty),
             <<Empty>>, [k \in DOMAIN word |-> k])

\* Mutant: the word is not trimmed.
split_word_Untrimmed(word, delimeter) ==
    IF word = Empty THEN <<>> ELSE split(word, ToSet(delimeter), TRUE)

\* split_word, with the value of IFS as delimeter.
split_word(word, delimeter) ==
    LET trimmed == trim_if(word, ToSet(delimeter))
    IN IF trimmed = Empty THEN <<>> ELSE split(trimmed, ToSet(delimeter), TRUE)
=============================================================================
