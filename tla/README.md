# A TLA+ development for libbash

libbash interprets bash scripts inside another program: a parser generated by
ANTLR turns a script into an AST, a generated tree walker executes it against
an object of class `interpreter`, and the result is the values of variables
and the names of functions. Its main user, `utils/instruo`, runs all ebuilds of
a Gentoo repository in this way, in parallel, and writes their metadata.

This directory holds models of that program, their checks with TLC and proofs
with TLAPS. Paths are relative to the root of the repository. `PROJECT.json`
lists which lines every definition translates (`map`), the runs, the mutants
that show that each property can fail, the hazards and the theorems.

## 1. Inventory

| Component | State | Operations | What makes it correct |
|---|---|---|---|
| AST cache (`src/builtins/source_builtin.cpp`, `src/core/bash_ast.cpp`) | `ast_cache`, `parse_mutex`, `string_mutex`, all static and shared by the threads | `parse`, `exec`, locked string factories | a file is parsed once, nobody sees a half-made entry, no way out keeps a mutex |
| Worker team (`utils/instruo.cpp`) | ids of the repository, tasks, directories, cache files, the exit status | start, make a task for an id, run it, write its file, report an exception, wait for all | every ebuild has its whole file or a report when the program succeeds |
| `variable` (`src/core/symbols.hpp`) | map of elements, readonly flag, null flag | set, unset, append, shift | elements move where they should, edges of `shift` |
| Symbol table (`src/core/interpreter.h`, `.cpp`) | global table `members`, stack `local_members`, `$0`, `*` | resolve, define, define_local, set_value, unset, shift | a name means the innermost variable, a caller's hidden variables stay, `$0` is the file executed |
| Builtins on variables (`src/builtins/`) | none of their own | local, declare, export, set, shift, unset, read, eval | as above |
| Tree walker (`bashast/libbashWalker.g`) | C++ stack, position in the AST, streams, `$?` | commands, loops, calls, substitutions | break, continue, return go to the right place, everything is given back on every way out |
| `bash_ast`, `function`, `ast_stack` | owner of the AST, references to it | parse, walk, define and call functions | no destroyed AST is walked |
| inherit (`src/builtins/inherit_builtin.cpp`, `EXPORT_FUNCTIONS` in `utils/isolated-functions.sh`) | variables of the script: `ECLASS`, `ECLASS_DEPTH`, `__export_funcs_var`, its lists, `IUSE` ..., `E_IUSE` ..., `INHERITED` | inherit, export | callers keep their metadata, functions call the eclass that exported them |
| API and metadata (`src/libbash.cpp`, `utils/metadata*.cpp`) | an interpreter for each call, maps and vectors of the caller | interpret, preload, write_metadata | a file holds the metadata of its own ebuild, whatever else runs |
| Expansions (`src/core/interpreter.cpp`, `bash_ast` helpers) | none, but `${n=v}` assigns | default, alternate, substring, subarray, length, replace, remove, split | edges of offsets; removing and replacing take the match that they promise |
| Options and conditions (`set`, `shopt`, `src/core/bash_condition.cpp`) | the two sets of options, `$-` | set, shopt, tests on words and files | unknown options change nothing; a test and its opposite agree |
| echo, printf, read, transform_escapes (`src/builtins/`) | none; `read` takes lines of standard input | formatting, escapes, joining lines | what is read is what was written |
| Arithmetic (`libbashWalker.g`) | values | operators, assignments | every operand is evaluated once, in its place |
| Grammar (`bashast/bashast.g`) | none | builds trees | the walker finds in them what they mean |
| Tools (`utils/`) | exit status, what is printed | `metadata_generator`, `variable_printer`, `bash`, `ast_printer` | success means that the output is complete |
| Tests | none | | |

How they interact. `interpret` makes a `bash_ast` and a walker on it; the
walker calls `interpreter` directly, builtins through `execute_builtin`, and
builtins call back: `source`, `eval`, `declare` and inherit walk other ASTs on
the same interpreter. Functions hold a reference to the AST in which they were
defined. Control that leaves more than one construct travels as a C++ exception
through all of these. Threads of instruo share only the cache, its ASTs with
their string factories, and the two mutexes; each task has an interpreter, a map
and a file of its own.

Hard behaviours: threads that share the cache and read it after unlocking;
exceptions that cut through commands, files, calls and inherit, each with state
to give back; scopes that are pushed for almost every command, so that a
command which assigns, unsets or shifts has to find the right one; lifetimes of
temporary ASTs; state that inherit keeps in variables that nested calls reuse;
tasks that fail halfway through a file, or in a way that no handler expects.
Nothing is read back after a restart and there is no network: recovery, lost
messages and timeouts do not occur. `hazards` in `PROJECT.json` has each of them at its line.

## 2. Modules

| Module | Models | Theorems |
|---|---|---|
| `ParseOnce` | abstract: whether a file parses is decided once | |
| `SourceCache` | cache, mutexes, worker team; implements `ParseOnce` | `SourceCacheProofs` |
| `ShellVariable` | class `variable` as operators | |
| `Scopes` | the symbol table and the commands that change it (`MCScopes` for TLC) | `ScopesProofs` |
| `Nesting` | constructs being executed, what a jump leaves of them | |
| `ControlFlow` | abstract: break, continue, return and errors as one jump | |
| `Unwinding` | the frames of the walker, exceptions and destructors; implements `ControlFlow` | `UnwindingProofs` |
| `Trees` | scripts as trees: what executing them means, and their node streams | recursive, TLC only |
| `TreeWalk` | the walker's positions: every rule that seeks (`MCTreeWalk` for TLC) | recursive, TLC only |
| `Inherit` | inherit and `EXPORT_FUNCTIONS` (`MCInherit` for TLC) | `InheritProofs` |
| `Exceptions` | what a call throws, as a value | |
| `Expansions` | expansions of words and arrays, splitting | `CommandsProofs` |
| `TextBuiltins` | echo, printf, read, transform_escapes | `CommandsProofs` |
| `Conditions` | tests of `[[ ]]` and `[ ]` | `CommandsProofs` |
| `Commands` | one command of a script on one table of variables, with the options | `CommandsProofs` |
| `Metadata` | `write_metadata` | `MetadataProofs` |
| `AstPrinter` | `ast_printer`: its options, inputs and output | |
| `Programs` | `libbash::interpret`, instruo and the other programs (`MCPrograms` for TLC) | `ProgramsProofs`, `TextProofs`, `MetadataProofs` |
| `TextProperties` | properties of the text operators over all scripts of a run | `TextProofs` |

Six models stand side by side and not inside one another, because the parts
they model share no state that matters to their properties: threads share the
cache and nothing of an interpreter (`SourceCache`); values of variables do not
decide which frames an exception leaves (`Scopes`, `Unwinding`), and frames do not
decide where the walker stands, except for the four handlers that both
`Unwinding` and `TreeWalk` have; inherit works
on global variables only, so the stack of scopes is left out of `Inherit`;
`Programs` runs scripts whose commands do not nest, because what it is about is
their outcome: variables, functions or an exception.
What they share is written once: `ShellVariable` below `Scopes`, `Nesting`
below `ControlFlow` and `Unwinding`. `ShellVariable`, `Exceptions`, `Expansions`,
`TextBuiltins`, `Conditions` and `Commands` build on one another, and `Programs`
composes the last with `Metadata` and `AstPrinter`.

### SourceCache

`pc[t]` says where a thread is: `lock`, `lookup` and `construct` are the steps
of `source_builtin::parse`. An entry of the cache is `absent`, `null` (inserted,
being parsed or failed) or `ast`. `Miss` inserts the null pointer and enters the
constructor, `ParseSucceeds` replaces it, `ParseFails` leaves it and abandons
the ebuild, as the exception handler in instruo does; `Poisoned` is the answer
to a later thread that finds a null pointer. `Interpret` reads the reference
that `parse` returned, after the unlock. `NeedString`, `LockString` and
`UnlockString` are the string factories, which a thread reaches while it walks
a cached AST. `stack[t]` are the files a thread is sourcing: a cached AST can
source any file again, itself included.

The cache is seen through `Outcome` and `Reply` as `ParseOnce`: one decision for
each file, told to everybody. A null pointer counts as "broken" only when no
thread is in its constructor; that nobody else can see it in between is what
`ImplementsParseOnce` says.

### Scopes

`scopes[1]` is `members` and the others are `local_members`. `Level`,
`resolve_variable`, `define`, `define_local`, `set_value`, `unset` translate the
methods of the same names, as operators on a sequence of scopes, and each action
is one command: `Enter` pushes the scope with the assignments in front of the
command, as `execute_command` does, the command acts, `Leave` pops it. Only
`CallFunction` and `Source` keep it, and `ReturnFromFunction` and `EndSource`
pop it later; `calls` records which of the two a scope belongs to. `local`,
`set`, `declare` and `eval` work in the enclosing scope (`Overlay`).
`Throw` is an exception of the table itself (readonly, `local` without a
scope); it pops all local scopes. `shift` with a negative count returns before it looks
for the parameters and changes nothing. A word is a model value, the empty word is one
of them, and paths are words since `$0` is a variable.

### Unwinding

A frame of `stack` is a loop, a call, a sourced file, an eval or a command
substitution, with what its destructors give back: the streams saved by
`current_streams`, a local scope, an entry of `ast_stack`, a temporary AST
(named by the index of the frame that owns it). The script is not a text: any
command may come next in any state, so all scripts up to the bound are covered.
`break`, `continue`, `return` and errors set `exception`; while it is set the
frames are left one at a time, by `Unwind` (no handler), `Rethrow`
(`rethrow_unless_correct_frame`), `CatchBreak`, `CatchContinue`, `CatchReturn`
or `Escape`. A loop is "between" iterations while its condition runs; there its
`try` block is not active, as in the grammar. When a temporary AST is
destroyed, functions defined in it become `Dangling`, and a call of one ends in
mode `crashed`: the behaviour of the C++ program is undefined from there on.

`ControlFlow` has neither exceptions nor counters: a jump removes all
constructs it has to leave at once. The refinement maps an exception in flight
to the nest after its jump (`Nest`, `Fate`).

### Trees and TreeWalk

The generated walker reads a flat stream of tokens with `DOWN` and `UP` among
them. Whatever is not straight ahead is a `SEEK` in an action of
`libbashWalker.g`: loops go back, branches and short circuits skip a subtree
(`seek_to_next_tree`), `while`, `if`, `elif` and `for (( ))` skip `DOWN` and `UP`
themselves, handlers return to a saved index, functions are indexes. `Trees`
builds the stream from a tree as the rewrite rules of `bashast.g` do (`Tokens`)
and says what the tree means without positions (`Meaning`, structural
recursion). `TreeWalk` has one operator for each rule of the walker, with the
rule's name (rules that call one another do so through `Walk`, and the name in
capitals is the body); a record carries the index, `$?`, the value of the last condition,
and the jump in flight. Whether a command succeeds, jumps or fails and whether a
test holds are outcomes: the walk waits for the next one and `GoFurther` supplies
every possible one, so each script is executed in all ways up to `MaxOutcomes`
outcomes. The walk is computed from the start for each sequence of outcomes,
which costs time and keeps the rules recursive as they are in the grammar.

What is shared by `Meaning` and the walk (the count of break and continue, the
status that ends a loop, the first definition of a function counts) is not
compared with anything here; the first is the subject of `Unwinding`.

Two kinds of trees are left out, because the walker misreads them and nothing in
the repository states what they should do. The operands `(a)` and `(b)` of
`(a) + (b)` are `ARITHMETIC` trees next to each other, and the loop at
`libbashWalker.g:1190` reads both as the first operand and then finds `UP`; and
`a || (b, c)` has two trees on the right, of which `skip_next_token_or_tree`
skips one. With such scripts in `AllScripts` TLC reports a mismatch. All three
parts of a ternary are evaluated, which `Meaning` says too.

### Inherit

`inherit_builtin::exec` is cut where it calls `source`: `EnterInherit` up to the
loop, `StartEclass` up to the source command, `EndEclass` after it to the end of
the body, `LeaveInherit` behind the loop. In between the eclass assigns
metadata, exports functions, inherits others, ends, jumps out or fails. The
value of a metadata variable is the file that assigned it last, so that mixing
the ebuild's and an eclass's values is visible. `PartOf` says which eclass name
is a substring of which, because `hasq` searches for substrings. A null and an
empty value are told apart where the code does so: `restore_global` unsets.
`caller`, `exported`, `exports` and `jumped` are history variables.

A `break` or `continue` inside an eclass leaves `source` and the rest of `exec`
(`Jump`); ECLASS and its depth are then not put back, so four properties exclude
behaviours after a jump. `CallerMetadataKept` does not.

The stubs that `inherit` makes for exported functions are defined by `eval`, so their bodies are in an AST
that is destroyed behind it; what a call of one runs into is in `Unwinding`
(`unwinding_functions`, section 5). Here a stub is the name of the eclass it calls.

### Programs

A job is one call of `libbash::interpret` with what its caller does around it:
the OpenMP task of a package, or `Main` in the programs that run one script. Its
`stage` is

    none -> queued -> preload -> script -> open -> write -> done
                           \_________\_______________\-> thrown -> done, or the process ends

`Schedule` is the `single` construct that makes tasks, `StartTask` a thread that
is free and takes one, `Join` the barrier at the end of the parallel region;
`Threads` jobs are busy at most, and a thread that runs a task makes none. `RunCommand`
executes one command, `EndWalk` is the code of `interpret` between and behind the walks:
it defines the caller's variables as the environment behind the preloaded script
(and so replaces what that script gave the same names), and copies global
variables and functions to the caller at the end. `Open` truncates the file,
`WriteLine` writes one line, because each line is flushed, `Close` ends the task. `Catch`
is the handler for `interpreter_exception` that each caller has, and `Terminate`
is what happens to every other exception: the process ends. What a program meets
(command line, ids, scripts, the files of earlier runs, whether the directory
can be written, standard input) is the record `input`, which never changes.

Not every file is there when a script fails: a task that throws out of the script
leaves the file of an earlier run as it was, and one that throws out of
`write_metadata` ends the process and leaves half a file. `CacheMatchesEbuild`
compares every line with what the assignments of the ebuild say, without the
interpreter: `LastWords` reads the script, and so the property is about packages whose
scripts spell their metadata out (`SaysPlainly`: nothing that `read`, `printf -v`, an
expansion or a split computes ends up in one of the names). `Runs` says what the words of a
line are without the operators that `write_metadata` is made of, and what `INHERITED` is
sorted by is the order of characters.

### Commands, Expansions, TextBuiltins, Conditions, TextProperties

`Execute(w, c)` is the interpreter `w` after command `c`, and what it throws. A
walker is a record of a table of variables, the options of `set` and
`shopt`, `$?`, what was printed and what is left of standard input. Words are sequences of
character codes here, since splitting, escapes and offsets are about
characters. A pattern is the set of non-empty words it matches: the six operators of
`${n/p/w}` and its kin are then the choice of a match that boost::xpressive
makes (`REPLACE_FIRST`, `LAZY_REMOVE_AT_END` and so on), for all patterns at once.
Exceptions are values (`Exceptions`): `InterpreterException` is what
handlers catch, `OtherException` is the rest (`std::out_of_range`,
`bad_lexical_cast`, the jumps of break, continue and return).

What a command gets is decided by `argument` and `Arguments`, as in the walker's rule: a
value that is empty is no argument, not even a quoted one; another quoted value is one; an
unquoted one is split at the characters of IFS. So `echo "$a" "$b"` of an empty `a` writes
no space, and `printf ""` has no argument at all: the builtin then reads the first element of an
empty vector, which is modelled as the end of the process. `name=(words)` does not split
(`assign_list`): every word is one element. The names given to `read`, `shopt` and `declare` are
literal words without characters of IFS, so what `argument` does to them is nothing.

`TextProperties` states, as invariants over the state of a script that is about to
execute a command, what those operators promise: a removal takes the shortest or the
longest match at its end, two parts that lie side by side make up the whole,
`set -- $n` makes the maximal runs of characters outside of IFS the positional parameters,
`echo` and `printf` of two names write the line that `read` took as long as its first space stands
between two words, and lose that space when a name got nothing (`printf`, with a
directive left over, writes it at the end), and file tests agree with one another. Each is about
commands anywhere in any script: the conditions in front of `=>` name the shape of
the last commands (three assignments `a=${n:o:l}`, `b=${n:o+l}`, `c=${n:o}` of names that
do not disturb one another for `PartsMakeTheWhole`) and nothing of the rest of
the script.

### AstPrinter

The options of `ast_printer` decide what is opened (`-e`, files, standard input) and what is
printed of each; `printer` gives the output of one script and whether it
failed. `PrintFile` in `Programs` is one turn of the loop over the files.

## 3. Runs

Deadlock is checked in every run but `tree_walk`, whose walks end. In the others,
where the program stops there is an explicit stuttering step (`Finished`,
`Stopped`) in a final state only.

| Run | Shows | Bounds, and why they are enough |
|---|---|---|
| `source_cache` | mutual exclusion, one parse per file, valid pointers, final entries, refinement of `ParseOnce`, liveness | 3 threads: one in the constructor, one waiting, one that finds the entry; 2 files: nested sourcing and independent entries; 3 ebuilds of 2 commands: a thread takes a second one after a failure. No symmetry, since liveness is checked |
| `scopes_visibility` | hidden variables keep their values, unset removes one variable, only `$0` is readonly and changes with files only | 3 scopes: a caller, a hidden one and the running one; assignments in front of commands; one name besides `*` and `0`: names interact only through these two |
| `scopes_lists` | `shift` and `set --`; `n+=(...)` keeps and orders elements | up to 3 parameters or elements, shift by -1..4, holes made by `unset`, a function and the script, a name that is global, local or both. The constraint `OneKind` follows only behaviours in which either the positional parameters or the array have elements: no command moves elements from one to the other, so both at once show nothing new. One value, since the properties tell elements apart by index |
| `unwinding` | exceptions implement jumps; scopes, streams and ASTs are given back on every way out | 3 nested frames of all kinds with redirections, counts up to 2, which is smaller than, equal to or larger than the number of loops around it; 2 loop keywords, a function that is defined anywhere. With counts up to 3 and without redirections the run holds as well |
| `tree_walk` | the walker executes what the tree means, ends as it should, and functions know their bodies | 195 scripts: every construct with and without its optional parts, alone and around each kind of inner construct; functions called before and after their definition, in a loop and in a branch. 5 outcomes are enough for two iterations of a loop with all its parts, counts up to 2 for the two loops |
| `inherit` | names, metadata, exports end up with the right file | depth 2: an ebuild, an eclass, an eclass inherited by it; two eclasses of which one name is part of the other, lists of one or two arguments; one metadata variable and one function (all five variables are treated alike) |
| `programs` | a program that succeeds has answered for all it was given, cache files hold their own ebuild's metadata, every id is answered in the end; removal, substrings, splitting, read and file tests | 3 packages in 2 categories, so that one category is made once and used twice, on 2 threads, so that one task waits; scripts that are good, with sorted `INHERITED`, unbound under `set -u`, jumping, with an EAPI that is no number, an empty list, a syntax error, in the ebuilds and in the preloaded file; files of earlier runs or none; a directory that cannot be written; each exit of the command line. About 1200 scripts for the other programs: words up to 4 characters over 2 or 3 letters, offsets from -4 to 4, every operator; inputs of `ast_printer` |
| `scopes_default`, `scopes_shift`, `scopes_array_assign`, `unwinding_functions`, `inherit_restore` | disagreements, section 5 | the smallest constants where they occur |

At depth 3, `Inherit` was checked in two halves, without functions and without
metadata; together they are too large for one run. The theorems of section 4
cover all depths.

Bounds in the guards: `Tasks`, `MaxCommands` (SourceCache), `MaxScopes`,
`MaxIndex` (Scopes, ShellVariable), `MaxDepth`, `MaxCount` (Unwinding), `MaxOutcomes`, `MaxCount` (TreeWalk),
`MaxDepth`, `MaxAppended` (Inherit). `Programs` has no bound: its `Inputs` are finite scripts. The program has none of these limits,
except `Tasks`, the number of ebuilds.

### Fairness

`FairSpec` of `SourceCache` assumes weak fairness of each thread's step: a
thread of the OpenMP team that can run will run. Nothing is assumed about who
gets a contended mutex. `AllEbuildsProcessed` holds nevertheless because an
ebuild has finitely many commands (`MaxCommands`), so other threads leave the
mutex alone in the end. That a script ends is an assumption of the bound: a
script with an endless loop never ends in the program either.

`FairSpec` of `Programs` assumes that `main` goes on, that a free thread takes some
task if there is one (not a particular one), and that a thread with a task goes on with
it. The last is weak fairness of `JobStep(id)`, with `Working(id)` in the place of
ENABLED: a busy job can always step, and TLC would compute ENABLED from
everything a command does. `EveryIdAnswered` needs all three; scripts are
finite. Its exception is real: a script that ends the process
(`libbash::interpret` lets a jump out, `write_metadata` reads element 0 of an empty list or
an EAPI that is no number, and the handler at `utils/instruo.cpp:123` catches neither)
takes the other packages with it.

The other modules model one thread that executes a given script and have no
liveness property: nothing obliges a script to leave its loops.

## 4. Proofs

All theorems hold for every value of the constants that satisfies the named
assumptions in the modules: special values differ from the others, bounds are
naturals, inputs are words or names. They are checked by TLAPS without any
unproved statement.

**SourceCacheProofs.** The inductive invariant is
`IInv == TypeOK /\ ParseExclusive /\ FactoryExclusive /\ EntryCounts /\
ConstructsNull /\ NeverInterpretsNull`. `ParsedAtMostOnce` is not inductive: it
needs to know that an entry is absent exactly when its file was never handed to
the constructor (`EntryCounts`). `EntriesAreFinal` needs to know that the entry
which a constructor is about to replace is still null (`ConstructsNull`), and
that needs mutual exclusion. `Refinement` shows that initial states of
`SourceCache` are initial states of `ParseOnce` under the mapping and that
every step is a step or a stutter there; the delicate one is `Miss`, which
makes the entry null and must not change the outcome.

**ScopesProofs.** Every command but calls and their ends is shown to be
`Quiet`: it keeps the number of scopes, keeps the global `$0`, makes nothing
readonly, takes a variable away from one scope at most (`LosesOne`) and touches, below
the innermost scope, only the variable that resolution finds. The operators of the table get this as lemmas (`define`,
`define_local`, `set_value`, `unset`, prefix assignments), so that each of the
commands needs a short proof. The invariant `Sound(scopes)` (types, only `$0`
readonly) together with `ZeroIsCurrentFile`, which mentions the paths saved
by all suspended files, is inductive; `HiddenVariablesStay`, `ReadonlyStays` and
`UnsetReveals` are action properties of the same classification, and `SetStaysLocal`
follows from what `Overlay` touches. `ShiftDropsTheFirst` and `AppendKeeps` are about
arrays: the elements of a variable without holes are those with an index in an interval, so
`shift` and appending are statements about intervals and their cardinalities; with holes
`AppendKeeps` says what it keeps.

**InheritProofs.** Four invariants build on each other. `MInv`: types, the depth
is at least the number of active calls, every frame but the last is in a file,
and what a frame has saved in `B` is what the caller had. `EInv`: without jumps
the depth is the number of calls and `ECLASS` and the saved `PECLASS` form the
chain of files. `SInv`: a list of exports that is in use contains only functions
that the file at the head of its owner's chain has exported; this is subtle,
since after a nested call the outer eclass goes on with the inner list, and it
is right only because inherit empties that list at the end of every eclass.
`AInv`: metadata assigned by the ebuild and by eclasses stay apart, also in what
the frames have saved.

**ProgramsProofs.** `SuccessMeansAnswered` relates the exit status to files and
output that many steps of many jobs have made. Its invariant says where each
piece of work is: an id that was handed to `worker` is queued, in a task, or
answered (`NoneIsLost`); a file in stage `write` has exactly the lines before
its position, and one that is done is complete (`LinesInOrder`, which needs
that no two jobs write the same file, the assumption `OutputsAssumption`); a script of
`ast_printer` is in the queue or printed (`NoneIsSkipped`). What a command does is
irrelevant to it: the proof never opens `Execute`, and so holds for every script.

**CommandsProofs.** Every command that the grammar yields, on every interpreter, ends in
an interpreter of the right type or in one of the two exceptions (`CommandsEnd`), the crash of
`printf` without arguments among them.
`IsCommand` is what the grammar yields: which fields a command has and of which kind.
Most operators on text are folds or recursive functions, and for those an induction theorem cannot
be instantiated here. The proofs use instead that a set of naturals that is not empty
has a least element (`LeastExists`, from the well-foundedness of `<`): a first prefix at which
a property fails does not exist (`CountUp`). That a recursive function has a value at all
is shown once for every well-founded relation (`SolutionsAgree`,
`RecursionExists`); folds (`FoldExists`, `FoldPrefixes`) and functions that go through a word
to its end (`DescentExists`) are instances. For each operator a lemma then says how it goes from one prefix to
the next (`JoinUnfolds`, `SplitUnfolds`, `ReplaceUnfolds`, `EscapesUnfolds`, `FormatUnfolds` ...).

**TextProofs.** The invariant `TInv` has the types of all that `Programs` keeps and, for
each job (`JobIsRight`): its script is one that the parser accepts, `pc` is a place in it, there is an
interpreter exactly while a script is walked, and the commands executed so far have done
what they should. `TypesAreRight` needs `QueueIsFresh` besides: a package in the queue has
no job yet, which is so because the ids are distinct. For the last command that is
`HasDone`; `TestsAgree`, `RemovalsAreExtremal` and `SplitsAreRuns` follow from it, and what is left are lemmas
about operators. A removal goes through the word and copies what it does not match
(`CopiesUpTo`), so an anchored match is replaced once, at its end. Splitting has the invariant
`Chopped`: behind every character the words are the runs that started so far, in the order of their starts (`Rank`), the last one cut
off there, and an empty word behind a separator; trimming in front makes the last
character one of a run, so no empty word remains. The arguments of `set` are then `--` and the
runs (`FlattenTwo`: the arguments of a command are those of its parts, one behind the other).
`PartsMakeWholes` is about three commands, and the first two are not the last one when it
holds. So `Remembers` says that a part is held as long as only assignments follow that leave
its variable and what it reads alone. That the parts make up the whole is then
`JoinedParts` (lists) with `JoinConcat` (the delimiter goes between two parts exactly when
neither is empty), and `SubarrayIsPart` turns the two ways to count positional
parameters into one list with `$0` in front.
`ReadsAreEchoed` is about the first two commands of a script, so its invariant knows the
interpreter of Main exactly as far as that (`MainIsKnown`): what the constructor and the
environment make of it, after the first command, after both. Its lemmas say that the loop of
`logical_line` arrives at the joined lines and leaves those behind them (`LinesJoin`: at line k it
has the first k lines without their backslashes; a line of one backslash, or a backslash in front
of the last one, breaks that, and the property excludes both), that the words of `split` joined
with spaces are the text (`SplitJoins`), that two names get its first word and the others
(`ProcessTwo`), and what `echo` and a format of two directives write of two values of which either
may be empty (`EchoBoth`, `PrintfBoth`, by the arguments that are left, `ArgumentsFlatten`). The
first word and the rest are what stands before and behind the first space (`FirstSpaceIs`, `IsCut`), and both are non-empty
exactly when that space is neither the first character nor the last.

**MetadataProofs.** `CacheMatchesEbuild` relates a line of a file to two scripts that were
walked long before, by an interpreter that is gone when the line is written. The
invariant carries what they say from the one to the other (`JobsKnow`): while a script is
walked, every variable of the cache `Holds` what the commands so far, or else the task, or
else the preloaded script, have said of it, and the functions are those that were defined
(`Knows`, `KnowsNext`: a plain command changes the names it gives and no other, `Does`);
behind the walk the caller `Carries` the same; in front of line 2 the EAPI is a number.
`FilesAreRight` is the property, and that a line is written at the end of its own file is
`LinesInOrder` of `ProgramsProofs`. Four lemmas about operators are left:
`RunsExtended` and `FindInRuns` (a word without blanks is found in a text exactly if it is
found in one of its runs, and one that is put behind it becomes the last run),
`WithGlobalGathers` (the fold over the E_ variable adds the words that are not yet part of
the line), `OrderedFacts` (an order that is total lists a finite set), `BeforeOrders`
(the order of strings is such a one, whatever the length of the words). Two assumptions are new:
short names of phases are words (`PhasesAssumption`), and the variables of a cache are none of
`$0`, `$*`, `$-`, `IFS` and `REPLY` (`MetadataVariablesAssumption`); `None` is no list
(`NoneIsNoList`).

**UnwindingProofs.** `Balanced` compares what is owned now with the frames that
are left, and a frame that is left has to find below it what it saved. So the invariant says of
every frame what `Balanced` says of the top: its stream is that of the frames
below it, its AST is the entry of `ast_stack` at the number of walking frames up
to it. `Leave` then undoes `Enter`, in whichever way it comes about. That no AST is
destroyed while it is walked needs two more facts: a frame that owns a temporary
AST walks the one of its own number (`OwnersOwn`), and a function that can
still be called was defined in a file or in the AST of a frame that is still there
(`FunctionsAlive`), which `Leave` keeps by making the others `Dangling`.
`OthersCountOne` (only break and continue count) makes the counter's decrement
type-correct. `ZeroLostByJumpsOnly` follows from the same lemmas on
`Enter` and `Leave`, applied to the innermost file.

**Implementation of ControlFlow** (the last part of `UnwindingProofs`). Three lemmas about nests of constructs, with any count:
a construct without a handler does not change a jump (`JumpPasses`), a loop that
rethrows counts for one (`JumpCounts`), one that catches is where the jump ends
(`JumpEnds`). `LoopExists` supplies the loop that `Loop` chooses: the innermost one
with at least `count` loops from it inwards has exactly that many. `Nest`
of an exception in flight is therefore unchanged while frames are left, and
throwing it is the whole jump.

The assumptions about the constants that the last two need are in the modules that declare them:
words are sequences of character codes (`WordsAreCodes`), no state of a file is the
constant for a file that is missing (`MissingIsNoInfo`), the parts of a package's name are words
(`PackagesAssumption`), scripts are lists of commands of the grammar and the ids of the
repository are distinct (`InputsAssumption`), and two existing files with the same inode are one
file (`IsTest`). IFS is another variable than `$0`, `$*`, `$-` and `REPLY`
(`IFSAssumption`), and no list of arguments is the exception that stands for a failed one
(`NoArguments`). Distinct ids are what Paludis returns and what `Programs` had taken for granted;
the proof of `TypesAreRight` needs it said, since a package with two tasks would
lose an interpreter. The proofs also found that `FirstOf`, the first character of IFS, had no value for an
empty IFS.

Only model-checked: liveness (`AllEbuildsProcessed`, `EveryIdAnswered`), since
fairness and ENABLED are out of the prover's reach, and everything about `TreeWalk`. What a recursive operator computes
for all inputs needs induction over data, which the provers here cannot do:
`Trees` and `TreeWalk` are the modules with recursive operators.

## 5. Where the code and its documentation disagree

* `scopes_default`. `${n=v}` asks `is_unset`, and `is_unset` looks into the
  global table only (`src/core/interpreter.h:304`). A local variable that has a
  value is overwritten.
* `scopes_shift`. `shift` before any positional parameters exist follows a null
  pointer (`src/core/interpreter.cpp:514`); the comment in `interpreter.h:614`
  promises a status.
* `scopes_array_assign`. `n=(...)` writes the global table even if `n` is local
  (`bashast/libbashWalker.g:249`), and reading `n` gives the old local value.
* `unwinding_functions`. A function defined by `eval` refers to the AST of the
  eval command, which is destroyed when eval returns
  (`src/core/interpreter.cpp:358`, `src/builtins/eval_builtin.cpp:36`). The
  functions that inherit makes for `EXPORT_FUNCTIONS` are of this kind.
* `inherit_restore`. `prev_export_funcs_var` is saved, and the comment at
  `src/builtins/inherit_builtin.cpp:72` says it must be restored, but only
  ECLASS is. What an eclass exports before it inherits another one is lost;
  what it exports afterwards is not (`ExportsAreDefined`, a theorem).

Also modelled, but stated by no property, because nothing in the repository says
what should happen: `$0` stays wrong after break, continue or an error that
leaves a file (`ZeroLostByJumpsOnly` shows that these are the only ways);
`local` is accepted outside of functions in a sourced file; a second definition
of a function is ignored; a `while` loop goes on when its condition returns a
status above 1; break, continue and return outside of loops and calls leave
`libbash::interpret` as exceptions that instruo does not catch; `set` with any of
several options that it does not implement falls through to `u`; `read` loses a line
that is a lone backslash and leaves its variables alone when the line is empty;
`$-` never changes; no program looks at the state of its output streams, so that
success says nothing when the directory cannot be written.

## 6. Not modelled, and the plan

Left out, with the reason:

* How text is parsed, and `bash_ast`'s ANTLR objects: the parser is generated. The
  trees that result are in `Trees`. Boost.Spirit's grammars in
  `transform_escapes` and `printf` are modelled by what they accept; their `auto`
  expressions, which keep references to temporaries, are not.
* The translation of patterns to regular expressions, patterns that match the
  empty word, `extglob`, and with them `==` and `=~` in `[[ ]]`.
* The values of arithmetic expressions (division by zero, overflow); `TreeWalk` has
  their order. `IsNumber` in `Metadata` takes every word of digits for an
  int.
* Boost.Format's directives beyond a plain word: external.
* Paludis: repositories, queries and option parsing are external. The documented
  variable `INSTRUO_THREADS` (`utils/command_line.cpp:59`) is read by nothing in
  this repository, so `Threads` is the size of the OpenMP team.
* Standard input shared by several threads: only programs of one script read it
  in the runs. Redirections to files, `!` and `[ ]` with its own parser.
* `[i]=word` among the words of `n+=(...)` (`array_def_helper`): `AppendWords` has plain words
  only. In the code an indexed word is stored as `n[i]=word` stores it, and may replace an old
  element; `AppendKeepsElements` says nothing of it.
* Scopes in `Commands`: it has one table of variables, since calls and files are
  in `Scopes`.
* Tests and their data.

Abstracted: the text of words where no property is about it (a word is empty or one
of a few values in `Scopes` and `Inherit`), the text of scripts (any command may
follow in `Unwinding`; trees in `TreeWalk`; lists of commands in `Programs`).

What remains of the plan: `Arithmetic`, the operators of the walker with their width,
division by zero and the order of assignments.
