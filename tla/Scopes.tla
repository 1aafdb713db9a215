------------------------------- MODULE Scopes -------------------------------
(***************************************************************************)
(* The symbol table of class interpreter (src/core/interpreter.h and .cpp) *)
(* under the commands that change it: assignments, "local" and "declare",  *)
(* "unset", "set --", "shift", "read", expansions that assign, calls of    *)
(* functions and "source".                                                 *)
(*                                                                         *)
(* The global table and the stack of local tables form one sequence here:  *)
(* scopes[1] is "members" and scopes[i + 1] is local_members[i].           *)
(* execute_command (libbashWalker.g) gives every command a local scope,    *)
(* except local, set, declare and eval, so a command that is one step here *)
(* enters its scope, acts and leaves it; a function call and "source" stay *)
(* in theirs.  Positional parameters are the variable "*", $0 is "0".      *)
(*                                                                         *)
(* Option 'u' is off.  break, continue and errors of other commands, which *)
(* also leave scopes, are the subject of module Unwinding.                 *)
(***************************************************************************)
EXTENDS Integers, ShellVariable

CONSTANTS
    VarNames,    \* variables a script names in assignments
    Values,      \* words that commands assign; paths are words as well
    None,        \* no variable: a null shared_ptr
    Script,      \* the path of the script, the first $0
    Files,       \* paths that scripts source
    ArgLists,    \* argument lists of functions and of "set --"
    ArrayValues, \* right-hand sides of n=(...)
    WordLists,   \* right-hand sides of n+=(...)
    PrefixNames, \* variables assigned in front of a command, n=v command
    Targets,     \* names that read, unset and ${n=v} are applied to
    ShiftNumbers,\* arguments of shift
    MaxScopes    \* bound: the length of scopes

Names == VarNames \cup {"*", "0"}

ASSUME NamesAssumption ==
    /\ VarNames \cap {"*", "0"} = {}
    /\ PrefixNames \subseteq VarNames
    /\ Targets \subseteq Names
ASSUME NoneAssumption == None \notin Variable
ASSUME PathsAssumption == Script \in Words /\ Files \subseteq Words
ASSUME InputsAssumption ==
    /\ ArgLists \subseteq {args \in Seq(Words) : Len(args) <= MaxIndex}
    /\ ArrayValues \subseteq ValueMap
    /\ WordLists \subseteq Seq(Words)
    /\ Values \subseteq Words
    /\ ShiftNumbers \subseteq Int
ASSUME ScopesAssumption == MaxScopes \in Nat \ {0}

VARIABLES
    scopes,  \* members, then local_members
    calls,   \* the active functions and sourced files, one per local scope
    mode     \* running; thrown: an exception has left the interpreter;
             \* crashed: a null pointer was followed

vars == <<scopes, calls, mode>>

Scope == [Names -> Variable \cup {None}]

Call == [kind : {"function", "source"}, path : Words, original_path : Words]

EmptyScope == [n \in Names |-> None]

----------------------------------------------------------------------------
(* The methods of interpreter, as operators on a sequence s of scopes.     *)

\* The scopes that have a variable n.
Binders(s, n) == {i \in 1..Len(s) : s[i][n] # None}

\* Mutant: the frames are searched from the outermost one.
LevelOutermost(s, n) ==
    IF Binders(s, n) = {} THEN 0
    ELSE CHOOSE i \in Binders(s, n) : \A j \in Binders(s, n) : i <= j

\* Where resolve_variable finds n: the innermost scope, 0 if there is none.
Level(s, n) ==
    IF Binders(s, n) = {} THEN 0
    ELSE CHOOSE i \in Binders(s, n) : \A j \in Binders(s, n) : j <= i

resolve_variable(s, n) == IF Level(s, n) = 0 THEN None ELSE s[Level(s, n)][n]

\* resolve<std::string>(n, index)
resolve(s, n, index) ==
    IF Level(s, n) = 0 THEN Empty ELSE get_value(resolve_variable(s, n), index)

is_unset_or_null(s, n, index) ==
    IF Level(s, n) = 0 THEN TRUE ELSE is_null(resolve_variable(s, n), index)

\* is_unset looks at the global table only.
is_unset(s, n) == s[1][n] = None

Bind(s, i, n, var) == [s EXCEPT ![i] = [@ EXCEPT ![n] = var]]

define(s, n, var) == Bind(s, 1, n, var)

define_local(s, n, var) == Bind(s, Len(s), n, var)

\* variable::set_value throws for a readonly variable.
IsReadonly(s, n) == Level(s, n) # 0 /\ resolve_variable(s, n).readonly

set_value(s, n, v, index) ==
    IF Level(s, n) = 0
    THEN define(s, n, Scalar(v, FALSE, index))
    ELSE Bind(s, Level(s, n), n, WithValue(resolve_variable(s, n), v, index))

\* Mutant: every scope forgets the variable, not the nearest one that has it.
unset_EveryScope(s, n) == [i \in 1..Len(s) |-> [s[i] EXCEPT ![n] = None]]

unset(s, n) == IF Level(s, n) = 0 THEN s ELSE Bind(s, Level(s, n), n, None)

unset_element(s, n, index) ==
    IF Level(s, n) = 0 THEN s
    ELSE Bind(s, Level(s, n), n, WithoutValue(resolve_variable(s, n), index))

\* define_function_arguments and define_positional_arguments number from 1.
Positional(args) ==
    ArrayOf([i \in Indexes |-> IF i \in 1..Len(args) THEN args[i] ELSE Absent])

\* Mutant: the elements are appended at the largest index.
AppendIndex_Overlaps(s, n) ==
    IF Level(s, n) = 0 THEN 0 ELSE get_max_index(resolve_variable(s, n))

\* Where n+=(...) puts its first element: one after the largest index, or 0
\* when that is 1 and element 0 is unset or null.
AppendIndex(s, n) ==
    LET index == 1 + IF Level(s, n) = 0 THEN 0 ELSE get_max_index(resolve_variable(s, n))
    IN IF index = 1 /\ is_unset_or_null(s, n, 0) THEN 0 ELSE index

\* set_value for every word in turn; the first one may define the variable.  The
\* elements are plain words: one written [i]=word is stored as n[i]=word stores it.
AppendWords(s, n, words) ==
    LET index == AppendIndex(s, n)
        var   == IF Level(s, n) = 0 THEN ArrayOf(NoElements) ELSE resolve_variable(s, n)
        Appended(i) == i >= index /\ i < index + Len(words)
    IN IF words = <<>> THEN s
       ELSE Bind(s, IF Level(s, n) = 0 THEN 1 ELSE Level(s, n), n,
                 [var EXCEPT !.value =
                    [i \in Indexes |->
                       IF Appended(i) THEN words[i - index + 1] ELSE var.value[i]]])

----------------------------------------------------------------------------
(* execute_command: scopes and the assignments in front of a command.      *)

\* The assignments in front of a command: none, or one n=v.
Prefix(n, v) == [EmptyScope EXCEPT ![n] = Scalar(v, FALSE, 0)]

Prefixes == {EmptyScope} \cup {Prefix(n, v) : n \in PrefixNames, v \in Values}

\* The command has a scope of its own, which receives the assignments.
Enter(prefix) == Append(scopes, prefix)

Leave(s) == SubSeq(s, 1, Len(s) - 1)

\* local, set, declare and eval: the assignments go to the current local
\* scope, and throw when there is none.
CanOverlay(prefix) == prefix = EmptyScope \/ Len(scopes) > 1

Overlay(prefix) ==
    [scopes EXCEPT ![Len(scopes)] =
        [n \in Names |-> IF prefix[n] # None THEN prefix[n] ELSE @[n]]]

Running == mode = "running"

\* Mutant: the scopes are popped after a command that ends, not by destructors.
Throw_KeepsScopes(s) ==
    /\ scopes' = s
    /\ calls' = <<>>
    /\ mode' = "thrown"

\* An exception that nobody catches: the destructors of local_scope run.
Throw(s) ==
    /\ scopes' = <<s[1]>>
    /\ calls' = <<>>
    /\ mode' = "thrown"

Becomes(s) == scopes' = s /\ UNCHANGED <<calls, mode>>

\* Bound: elements beyond MaxIndex are not created.
Fits(s, n, words) == AppendIndex(s, n) + Len(words) <= MaxIndex + 1

----------------------------------------------------------------------------
(* Commands.                                                               *)

\* n=v and n[index]=v (var_def); also a for loop's variable and arithmetic.
Assign(n, v, index) ==
    /\ Running
    /\ Becomes(set_value(scopes, n, v, index))

\* n=(...) (var_def): always in the global table; "export n=(...)" as well.
AssignArray(n, values) ==
    /\ Running
    /\ Becomes(define(scopes, n, ArrayOf(values)))

\* n+=(...) (var_def)
AppendArray(n, words) ==
    /\ Running
    /\ Fits(scopes, n, words)
    /\ Becomes(AppendWords(scopes, n, words))

\* Mutant: a readonly variable is written.
Read_IgnoresReadonly(prefix, n, v) ==
    /\ Running
    /\ Becomes(Leave(set_value(Enter(prefix), n, v, 0)))

\* read n, with v the word it reads (read_builtin::process), or printf -v n;
\* n is any word, "*" and "0" included.
Read(prefix, n, v) ==
    /\ Running
    /\ IF IsReadonly(Enter(prefix), n)
       THEN Throw(scopes)
       ELSE Becomes(Leave(set_value(Enter(prefix), n, v, 0)))

\* export n=v
Export(prefix, n, v) ==
    /\ Running
    /\ Becomes(Leave(set_value(Enter(prefix), n, v, 0)))

\* ${n:=v} and ${n[index]:=v} (do_assign_expansion); ${1:=v} is element 1 of "*".
AssignDefaultIfNull(n, v, index) ==
    /\ Running
    /\ is_unset_or_null(scopes, n, index)
    /\ IF IsReadonly(scopes, n)
       THEN Throw(scopes)
       ELSE Becomes(set_value(scopes, n, v, index))

\* ${n=v} (do_assign_expansion with is_unset).
AssignDefaultIfUnset(n, v, index) ==
    /\ Running
    /\ is_unset(scopes, n)
    /\ IF IsReadonly(scopes, n)
       THEN Throw(scopes)
       ELSE Becomes(set_value(scopes, n, v, index))

\* unset n (interpreter::unset): names that begin with a digit are refused.
Unset(prefix, n) ==
    /\ Running
    /\ IF n = "0" \/ IsReadonly(Enter(prefix), n)
       THEN Throw(scopes)
       ELSE Becomes(Leave(unset(Enter(prefix), n)))

\* unset 'n[index]'
UnsetElement(prefix, n, index) ==
    /\ Running
    /\ IF n = "0" \/ IsReadonly(Enter(prefix), n)
       THEN Throw(scopes)
       ELSE Becomes(Leave(unset_element(Enter(prefix), n, index)))

\* local n[index]=v; "local n" assigns n the value it has.
Local(prefix, n, v, index) ==
    /\ Running
    /\ IF Len(scopes) = 1
       THEN Throw(scopes)
       ELSE Becomes(define_local(Overlay(prefix), n, Scalar(v, FALSE, index)))

\* local n=(...)
LocalArray(prefix, n, values) ==
    /\ Running
    /\ IF Len(scopes) = 1
       THEN Throw(scopes)
       ELSE Becomes(define_local(Overlay(prefix), n, ArrayOf(values)))

\* declare n=v: local when is_local_scope.
Declare(prefix, n, v) ==
    /\ Running
    /\ IF ~CanOverlay(prefix) THEN Throw(scopes)
       ELSE IF Len(scopes) > 1
            THEN Becomes(define_local(Overlay(prefix), n, Scalar(v, FALSE, 0)))
            ELSE Becomes(set_value(scopes, n, v, 0))

\* declare -g n=v: the definition is evaluated as n=v.
DeclareGlobal(prefix, n, v) ==
    /\ Running
    /\ IF ~CanOverlay(prefix) THEN Throw(scopes)
       ELSE Becomes(set_value(Overlay(prefix), n, v, 0))

\* declare n=(...) and declare -g n=(...)
DeclareArray(prefix, n, values, option_global) ==
    /\ Running
    /\ IF ~CanOverlay(prefix) THEN Throw(scopes)
       ELSE IF Len(scopes) > 1 /\ ~option_global
            THEN Becomes(define_local(Overlay(prefix), n, ArrayOf(values)))
            ELSE Becomes(define(Overlay(prefix), n, ArrayOf(values)))

\* eval: the assignments in front of it; its text is executed as commands.
Eval(prefix) ==
    /\ Running
    /\ IF ~CanOverlay(prefix) THEN Throw(scopes) ELSE Becomes(Overlay(prefix))

\* Mutant: the positional parameters of the script are replaced.
SetPositional_Global(prefix, args) ==
    /\ Running
    /\ IF ~CanOverlay(prefix) THEN Throw(scopes)
       ELSE Becomes(define(Overlay(prefix), "*", Positional(args)))

\* set -- args (define_positional_arguments)
SetPositional(prefix, args) ==
    /\ Running
    /\ IF ~CanOverlay(prefix) THEN Throw(scopes)
       ELSE Becomes(define_local(Overlay(prefix), "*", Positional(args)))

\* shift k (interpreter::shift): less than none and more than all fail; otherwise a
\* null pointer is followed when no scope has "*".  Bound: shift 0 may create an
\* element, which has to fit.
Shift(prefix, k) ==
    LET s   == Enter(prefix)
        var == resolve_variable(s, "*")
    IN /\ Running
       /\ IF k < 0 THEN Becomes(scopes)
          ELSE IF Level(s, "*") = 0
          THEN /\ mode' = "crashed"
               /\ UNCHANGED <<scopes, calls>>
          ELSE /\ k = 0 => get_array_length(var) <= MaxIndex
               /\ IF k > get_array_length(var)
                  THEN Becomes(scopes)
                  ELSE Becomes(Leave(Bind(s, Level(s, "*"), "*",
                                          [var EXCEPT !.value = Shifted(var, k)])))

\* A function is called (interpreter::call) ...
CallFunction(prefix, args) ==
    /\ Running
    /\ Len(scopes) < MaxScopes
    /\ scopes' = define_local(Enter(prefix), "*", Positional(args))
    /\ calls' = Append(calls, [kind |-> "function", path |-> Empty, original_path |-> Empty])
    /\ UNCHANGED mode

Innermost == calls[Len(calls)]

\* ... and ends, or return ends it.
ReturnFromFunction ==
    /\ Running
    /\ calls # <<>> /\ Innermost.kind = "function"
    /\ scopes' = Leave(scopes)
    /\ calls' = Leave(calls)
    /\ UNCHANGED mode

\* Mutant: $0 is defined in the scope of the command.
Source_Locally(prefix, path) ==
    /\ Running
    /\ Len(scopes) < MaxScopes
    /\ scopes' = define_local(Enter(prefix), "0", Scalar(path, TRUE, 0))
    /\ calls' = Append(calls, [kind |-> "source", path |-> path,
                               original_path |-> resolve(Enter(prefix), "0", 0)])
    /\ UNCHANGED mode

\* source path (source_builtin::exec): $0 is replaced, then the file is parsed;
\* this is the case that it parses.
Source(prefix, path) ==
    /\ Running
    /\ Len(scopes) < MaxScopes
    /\ scopes' = define(Enter(prefix), "0", Scalar(path, TRUE, 0))
    /\ calls' = Append(calls, [kind |-> "source", path |-> path,
                               original_path |-> resolve(Enter(prefix), "0", 0)])
    /\ UNCHANGED mode

\* The file cannot be parsed.
SourceFails(prefix, path) ==
    /\ Running
    /\ Throw(define(Enter(prefix), "0", Scalar(path, TRUE, 0)))

\* Mutant: $0 is not put back when the file ends with return.
EndSource_NoRestore ==
    /\ Running
    /\ calls # <<>> /\ Innermost.kind = "source"
    /\ scopes' = Leave(scopes)
    /\ calls' = Leave(calls)
    /\ UNCHANGED mode

\* The file ends, or return ends it: $0 is put back.
EndSource ==
    /\ Running
    /\ calls # <<>> /\ Innermost.kind = "source"
    /\ scopes' = Leave(define(scopes, "0", Scalar(Innermost.original_path, TRUE, 0)))
    /\ calls' = Leave(calls)
    /\ UNCHANGED mode

\* The interpreter is not used after an exception has left it.
Stopped == ~Running /\ UNCHANGED vars

----------------------------------------------------------------------------
\* internal::interpret: no variables but $0 and, in the table, IFS and "-",
\* which are ordinary variables.
Init ==
    /\ scopes = <<[EmptyScope EXCEPT !["0"] = Scalar(Script, TRUE, 0)]>>
    /\ calls = <<>>
    /\ mode = "running"

\* An element of a named array, a positional parameter, or $0.
Expandable ==
    {target \in Targets \X Indexes :
        /\ target[1] = "*" => target[2] > 0
        /\ target[1] = "0" => target[2] = 0}

Assignments ==
    \E n \in VarNames :
        \/ \E v \in Values, index \in Indexes : Assign(n, v, index)
        \/ \E values \in ArrayValues : AssignArray(n, values)
        \/ \E words \in WordLists : AppendArray(n, words)

Expansions ==
    \E target \in Expandable, v \in Values :
        \/ AssignDefaultIfNull(target[1], v, target[2])
        \/ AssignDefaultIfUnset(target[1], v, target[2])

Builtins ==
    \E prefix \in Prefixes :
        \/ \E n \in Targets, v \in Values : Read(prefix, n, v)
        \/ \E n \in VarNames, v \in Values :
              \/ Export(prefix, n, v)
              \/ \E index \in Indexes : Local(prefix, n, v, index)
              \/ Declare(prefix, n, v)
              \/ DeclareGlobal(prefix, n, v)
        \/ \E n \in VarNames, values \in ArrayValues :
              \/ LocalArray(prefix, n, values)
              \/ \E option_global \in BOOLEAN : DeclareArray(prefix, n, values, option_global)
        \/ \E n \in Targets : Unset(prefix, n)
        \/ \E n \in Targets, index \in Indexes : UnsetElement(prefix, n, index)
        \/ Eval(prefix)
        \/ \E args \in ArgLists : SetPositional(prefix, args)
        \/ \E k \in ShiftNumbers : Shift(prefix, k)

Calls ==
    \/ \E prefix \in Prefixes :
          \/ \E args \in ArgLists : CallFunction(prefix, args)
          \/ \E path \in Files : Source(prefix, path) \/ SourceFails(prefix, path)
    \/ ReturnFromFunction
    \/ EndSource

Next == Assignments \/ Expansions \/ Builtins \/ Calls \/ Stopped

Spec == Init /\ [][Next]_vars

----------------------------------------------------------------------------
(* Properties.                                                             *)

TypeOK ==
    /\ scopes \in Seq(Scope)
    /\ calls \in Seq(Call)
    /\ Len(scopes) = Len(calls) + 1
    /\ mode \in {"running", "thrown", "crashed"}

\* $0 is the file being executed: the innermost sourced file that has not
\* ended, or the script, whatever functions were called in between; and what
\* "source" will put back is the file around it (source_builtin::exec).
FileOf(k) ==
    LET sources == {j \in 1..k : calls[j].kind = "source"}
    IN IF sources = {} THEN Script
       ELSE calls[CHOOSE j \in sources : \A l \in sources : l <= j].path

ZeroIsCurrentFile ==
    Running =>
        /\ scopes[1]["0"] = Scalar(FileOf(Len(calls)), TRUE, 0)
        /\ \A k \in 1..Len(calls) :
              calls[k].kind = "source" => calls[k].original_path = FileOf(k - 1)

\* The only readonly variable is the global $0: no scope hides it, and the
\* assertion of variable::shift, that "*" is not readonly, cannot fail.
OnlyZeroIsReadonly ==
    \A i \in 1..Len(scopes), n \in Names :
        scopes[i][n] # None =>
            (scopes[i][n].readonly <=> i = 1 /\ n = "0")

\* A command reaches a suspended scope, that of a caller, only through a
\* variable that is visible from where the command runs: a variable of a caller
\* that an inner scope hides keeps its value, its positional parameters as well,
\* whatever is assigned, unset, shifted or returned from in between.
HiddenVariablesKeep ==
    [][\A n \in Names, i \in 2..Len(scopes) :
         (i < Len(scopes) /\ i <= Len(scopes') /\ scopes'[i][n] # scopes[i][n])
            => i \in Binders(scopes, n) /\ \A j \in Binders(scopes, n) : j <= i]_vars

\* No command removes more than one variable of a name, so that what unset
\* reveals is the variable of the next scope outwards (unset in
\* interpreter.cpp, unset_inner in scripts/command_execution.bash).
UnsetRevealsNext ==
    [][\A n \in Names :
         Len(scopes') = Len(scopes) =>
            Cardinality(Binders(scopes', n)) + 1 >= Cardinality(Binders(scopes, n))]_vars

\* $1, $2, ... without holes, as a list.
Dense(var) == Elements(var) = 1..get_array_length(var)

ListOf(var) == [i \in 1..get_array_length(var) |-> var.value[i]]

\* As long as the positional parameters have no holes, shift k drops exactly the
\* first k of them, at both ends of the range 0..$#, and leaves no holes.
ShiftDropsFirst ==
    [][\A k \in ShiftNumbers :
         LET old == resolve_variable(scopes, "*")
             new == resolve_variable(scopes', "*")
         IN (/\ Level(scopes, "*") # 0
             /\ Dense(old) /\ k \in 0..get_array_length(old)
             /\ Shift(EmptyScope, k))
            => Dense(new) /\ ListOf(new) = SubSeq(ListOf(old), k + 1, get_array_length(old))
      ]_vars

\* Appending to an array loses no element that the array had, but for an empty
\* element 0 of an array without other elements, adds as many elements as there
\* are words, and keeps the order: all of them follow the old ones.
AppendKeepsElements ==
    [][\A n \in VarNames, words \in WordLists :
         (Level(scopes, n) # 0 /\ AppendArray(n, words)) =>
            LET old   == resolve_variable(scopes, n)
                new   == resolve_variable(scopes', n)
                kept  == IF Elements(old) = {0} /\ old.value[0] = Empty /\ words # <<>>
                         THEN {} ELSE Elements(old)
                added == Elements(new) \ kept
            IN /\ \A i \in kept : new.value[i] = old.value[i]
               /\ Cardinality(added) = Len(words)
               /\ \A i \in kept, j \in added : i < j]_vars

\* A readonly variable changes only when a file is entered or left.
ReadonlyKept ==
    [][\A n \in Names :
         (scopes[1][n] # None /\ scopes[1][n].readonly /\ scopes'[1][n] # scopes[1][n])
            => calls' # calls \/ mode' = "thrown"]_vars

\* Positional parameters belong to a call: set -- in a function or a sourced
\* file does not change those that its caller sees.
SetIsLocal ==
    [][\A prefix \in Prefixes, args \in ArgLists :
         (SetPositional(prefix, args) /\ calls # <<>>) =>
            \A i \in 1..Len(scopes) - 1 : scopes'[i]["*"] = scopes[i]["*"]]_vars

----------------------------------------------------------------------------
(* What the documentation and the tests of the code say and the code does  *)
(* not do; the README discusses each.                                      *)

\* interpreter.h: is_unset tells "whether the value of the variable is unset",
\* so ${n=v} leaves a variable that is set alone.
DefaultKeepsSetVariable ==
    [][\A n \in VarNames, v \in Values, index \in Indexes :
         (AssignDefaultIfUnset(n, v, index) /\ Level(scopes, n) # 0)
            => UNCHANGED scopes]_vars

\* interpreter.h: shift returns non-zero when n is greater than $#, so it returns.
ShiftReturns == mode # "crashed"

\* scripts/var_def.bash: after n=(...), n holds these elements.
ArrayAssignmentIsSeen ==
    [][\A n \in VarNames, values \in ArrayValues :
         AssignArray(n, values) => resolve_variable(scopes', n) = ArrayOf(values)]_vars
============================================================================
