--------------------------- MODULE ShellVariable ---------------------------
(***************************************************************************)
(* The class "variable" (src/core/symbols.hpp): a map from array indexes   *)
(* to strings and a readonly flag.  A scalar is an array with index 0.     *)
(* The map is total here: Absent marks an index without an element.        *)
(* Numbers are stored as strings; the converters of symbols.hpp and the    *)
(* wrap-around of an unsigned index are outside this module.               *)
(***************************************************************************)
EXTENDS Naturals, Sequences, FiniteSets

CONSTANTS
    Words,     \* the strings scripts assign
    Empty,     \* the empty string
    Absent,    \* the mark of an index without an element
    MaxIndex   \* bound: the largest array index

ASSUME WordsAssumption == Empty \in Words /\ Absent \notin Words
ASSUME IndexAssumption == MaxIndex \in Nat

Indexes == 0..MaxIndex

ValueMap == [Indexes -> Words \cup {Absent}]

Variable == [value : ValueMap, readonly : BOOLEAN]

NoElements == [i \in Indexes |-> Absent]

\* variable(name, v, ro, index)
Scalar(v, ro, index) ==
    [value |-> [NoElements EXCEPT ![index] = v], readonly |-> ro]

\* The constructor for arrays.
ArrayOf(values) == [value |-> values, readonly |-> FALSE]

\* Indexes that have an element; value.size() is their number.
Elements(var) == {i \in Indexes : var.value[i] # Absent}

get_array_length(var) == Cardinality(Elements(var))

\* get_value<std::string>: a missing element reads as the empty string.
get_value(var, index) ==
    IF index \in Elements(var) THEN var.value[index] ELSE Empty

is_null(var, index) == get_value(var, index) = Empty

\* get_max_index: the key of value.rbegin(), 0 without elements.
get_max_index(var) ==
    CHOOSE i \in Indexes :
        /\ Elements(var) = {} => i = 0
        /\ Elements(var) # {} => i \in Elements(var) /\ \A j \in Elements(var) : j <= i

\* set_value and unset_value, for a variable that is not readonly.
WithValue(var, new_value, index) == [var EXCEPT !.value[index] = new_value]

WithoutValue(var, index) == [var EXCEPT !.value[index] = Absent]

\* Mutant: the loop that removes the tail starts one element too late.
ShiftedKeepsOne(var, shift_number) ==
    LET size == get_array_length(var) IN
    IF shift_number = size
    THEN NoElements
    ELSE [i \in Indexes |->
            IF i \in 1..(size - shift_number) THEN get_value(var, i + shift_number)
            ELSE IF i \in (size - shift_number + 2)..size THEN Absent
            ELSE var.value[i]]

\* variable::shift for shift_number <= size.  The elements are counted, and the
\* indexes 1..size are taken for theirs: value[i] is copied down and is created
\* as "" where it is missing, then the last indexes are erased.
Shifted(var, shift_number) ==
    LET size == get_array_length(var) IN
    IF shift_number = size
    THEN NoElements
    ELSE [i \in Indexes |->
            IF i \in 1..(size - shift_number) THEN get_value(var, i + shift_number)
            ELSE IF i \in (size - shift_number + 1)..size THEN Absent
            ELSE var.value[i]]
============================================================================
