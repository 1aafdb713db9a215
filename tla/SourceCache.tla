---------------------------- MODULE SourceCache ----------------------------
(***************************************************************************)
(* The AST cache behind the "source" builtin (source_builtin.cpp) as the   *)
(* OpenMP team of instruo's worker (utils/instruo.cpp) exercises it: every *)
(* thread of the team runs ebuilds, an ebuild sources eclasses, and all    *)
(* threads share the map "ast_cache", guarded by "parse_mutex", and the    *)
(* string factories of the cached ASTs, guarded by "string_mutex"          *)
(* (bash_ast.cpp).                                                         *)
(*                                                                         *)
(* A cache entry is written twice: a null pointer is inserted when the     *)
(* path is first met, and is replaced once "new bash_ast(path)" returns.   *)
(* When the constructor throws, the null pointer stays and marks the path  *)
(* as one that cannot be parsed.  The pointer parse() hands out is read    *)
(* after the mutex was released.                                           *)
(***************************************************************************)
EXTENDS Naturals, Sequences

CONSTANTS
    Threads,      \* the threads of the OpenMP team
    Paths,        \* the files that scripts source
    NoThread,     \* the owner of a mutex that nobody holds
    Tasks,        \* how many ebuilds the worker has to process
    MaxCommands   \* bound: how many commands one ebuild executes

ASSUME NoThreadAssumption == NoThread \notin Threads
ASSUME BoundsAssumption == Tasks \in Nat /\ MaxCommands \in Nat

VARIABLES
    queue,        \* ebuilds not yet handed to a thread (the loop over ids)
    pc,           \* where each thread is
    left,         \* commands the thread's ebuild may still execute
    arg,          \* the path in the thread's latest call of source
    stack,        \* files the thread is sourcing, innermost last
    ast_cache,    \* the state of each path's entry
    parsed_times, \* how often "new bash_ast(path)" was entered for a path
    parse_mutex,  \* owner of parse_mutex
    string_mutex  \* owner of string_mutex

vars == <<queue, pc, left, arg, stack, ast_cache, parsed_times,
          parse_mutex, string_mutex>>

(* "absent": no entry; "null": an entry with a null pointer; "ast": an     *)
(* entry that points to a bash_ast.                                        *)
EntryStates == {"absent", "null", "ast"}

(* idle: no ebuild; run: executing commands of the innermost file; lock:   *)
(* waiting for parse_mutex; lookup, construct: inside parse(); interpret:  *)
(* parse() has returned a reference; want_string, string: waiting for and  *)
(* inside a function of a string factory.                                  *)
Places == {"idle", "run", "lock", "lookup", "construct", "interpret",
           "want_string", "string"}

Init ==
    /\ queue = Tasks
    /\ pc = [t \in Threads |-> "idle"]
    /\ left = [t \in Threads |-> 0]
    /\ arg \in [Threads -> Paths]
    /\ stack = [t \in Threads |-> <<>>]
    /\ ast_cache = [p \in Paths |-> "absent"]
    /\ parsed_times = [p \in Paths |-> 0]
    /\ parse_mutex = NoThread
    /\ string_mutex = NoThread

Goto(t, place) == pc' = [pc EXCEPT ![t] = place]

----------------------------------------------------------------------------
(* instruo.cpp: the worker's loop over the package ids.                    *)

\* Mutant: the loop's test for an empty sequence of ids is missing.
TakeTask_NoEmptyTest(t) ==
    /\ pc[t] = "idle"
    /\ queue' = queue - 1
    /\ left' = [left EXCEPT ![t] = MaxCommands]
    /\ Goto(t, "run")
    /\ UNCHANGED <<arg, stack, ast_cache, parsed_times, parse_mutex, string_mutex>>

\* A thread of the team takes the next ebuild and starts libbash::interpret.
TakeTask(t) ==
    /\ pc[t] = "idle"
    /\ queue > 0
    /\ queue' = queue - 1
    /\ left' = [left EXCEPT ![t] = MaxCommands]
    /\ Goto(t, "run")
    /\ UNCHANGED <<arg, stack, ast_cache, parsed_times, parse_mutex, string_mutex>>

\* libbash::interpret returns and the thread goes back to the team.
EndTask(t) ==
    /\ pc[t] = "run"
    /\ stack[t] = <<>>
    /\ Goto(t, "idle")
    /\ UNCHANGED <<queue, left, arg, stack, ast_cache, parsed_times,
                   parse_mutex, string_mutex>>

\* An exception leaves every file the thread is in and is caught by the
\* worker, which abandons this ebuild only.
Abandon(t) ==
    /\ Goto(t, "idle")
    /\ stack' = [stack EXCEPT ![t] = <<>>]

\* Any other exception of the interpreter, and "source" without a path.
TaskFails(t) ==
    /\ pc[t] = "run"
    /\ Abandon(t)
    /\ UNCHANGED <<queue, left, arg, ast_cache, parsed_times, parse_mutex, string_mutex>>

----------------------------------------------------------------------------
(* source_builtin.cpp: source_builtin::exec and parse.                     *)

\* The script executes "source p" and calls parse(p).
CallSource(t, p) ==
    /\ pc[t] = "run"
    /\ left[t] > 0
    /\ left' = [left EXCEPT ![t] = @ - 1]
    /\ arg' = [arg EXCEPT ![t] = p]
    /\ Goto(t, "lock")
    /\ UNCHANGED <<queue, stack, ast_cache, parsed_times, parse_mutex, string_mutex>>

\* Mutant: the guard object is missing.
Lock_NotExclusive(t) ==
    /\ pc[t] = "lock"
    /\ parse_mutex' = t
    /\ Goto(t, "lookup")
    /\ UNCHANGED <<queue, left, arg, stack, ast_cache, parsed_times, string_mutex>>

\* std::lock_guard<std::mutex> parse_lock(parse_mutex)
Lock(t) ==
    /\ pc[t] = "lock"
    /\ parse_mutex = NoThread
    /\ parse_mutex' = t
    /\ Goto(t, "lookup")
    /\ UNCHANGED <<queue, left, arg, stack, ast_cache, parsed_times, string_mutex>>

\* Mutant: the entry is inserted only after the file was parsed.
Miss_InsertsLater(t) ==
    /\ pc[t] = "lookup"
    /\ ast_cache[arg[t]] = "absent"
    /\ parsed_times' = [parsed_times EXCEPT ![arg[t]] = @ + 1]
    /\ Goto(t, "construct")
    /\ UNCHANGED <<queue, left, arg, stack, ast_cache, parse_mutex, string_mutex>>

\* Mutant: the map is not searched before the insertion.
Miss_NoFind(t) ==
    /\ pc[t] = "lookup"
    /\ ast_cache' = [ast_cache EXCEPT ![arg[t]] = "null"]
    /\ parsed_times' = [parsed_times EXCEPT ![arg[t]] = @ + 1]
    /\ Goto(t, "construct")
    /\ UNCHANGED <<queue, left, arg, stack, parse_mutex, string_mutex>>

\* Mutant: the mutex covers the insertion and not the constructor.
Miss_UnlocksEarly(t) ==
    /\ pc[t] = "lookup"
    /\ ast_cache[arg[t]] = "absent"
    /\ ast_cache' = [ast_cache EXCEPT ![arg[t]] = "null"]
    /\ parsed_times' = [parsed_times EXCEPT ![arg[t]] = @ + 1]
    /\ parse_mutex' = NoThread
    /\ Goto(t, "construct")
    /\ UNCHANGED <<queue, left, arg, stack, string_mutex>>

\* The path has no entry: a null pointer is inserted and the constructor of
\* bash_ast is entered, still under the mutex.
Miss(t) ==
    /\ pc[t] = "lookup"
    /\ ast_cache[arg[t]] = "absent"
    /\ ast_cache' = [ast_cache EXCEPT ![arg[t]] = "null"]
    /\ parsed_times' = [parsed_times EXCEPT ![arg[t]] = @ + 1]
    /\ Goto(t, "construct")
    /\ UNCHANGED <<queue, left, arg, stack, parse_mutex, string_mutex>>

\* The entry holds a null pointer: parse_exception, the guard unlocks.
Poisoned(t) ==
    /\ pc[t] = "lookup"
    /\ ast_cache[arg[t]] = "null"
    /\ parse_mutex' = NoThread
    /\ Abandon(t)
    /\ UNCHANGED <<queue, left, arg, ast_cache, parsed_times, string_mutex>>

\* Mutant: any entry that exists counts as a hit.
Hit_AnyEntry(t) ==
    /\ pc[t] = "lookup"
    /\ ast_cache[arg[t]] # "absent"
    /\ parse_mutex' = NoThread
    /\ Goto(t, "interpret")
    /\ UNCHANGED <<queue, left, arg, stack, ast_cache, parsed_times, string_mutex>>

\* The entry holds an AST: a reference to the pointer is returned.
Hit(t) ==
    /\ pc[t] = "lookup"
    /\ ast_cache[arg[t]] = "ast"
    /\ parse_mutex' = NoThread
    /\ Goto(t, "interpret")
    /\ UNCHANGED <<queue, left, arg, stack, ast_cache, parsed_times, string_mutex>>

\* The file was read and parsed: the entry is reset to the new AST.
ParseSucceeds(t) ==
    /\ pc[t] = "construct"
    /\ ast_cache' = [ast_cache EXCEPT ![arg[t]] = "ast"]
    /\ parse_mutex' = NoThread
    /\ Goto(t, "interpret")
    /\ UNCHANGED <<queue, left, arg, stack, parsed_times, string_mutex>>

\* Mutant: explicit lock and unlock calls, and the exception skips the unlock.
ParseFails_KeepsMutex(t) ==
    /\ pc[t] = "construct"
    /\ Abandon(t)
    /\ UNCHANGED <<queue, left, arg, ast_cache, parsed_times, parse_mutex, string_mutex>>

\* The file cannot be read or has syntax errors: the constructor throws and
\* the null pointer stays in the map.
ParseFails(t) ==
    /\ pc[t] = "construct"
    /\ parse_mutex' = NoThread
    /\ Abandon(t)
    /\ UNCHANGED <<queue, left, arg, ast_cache, parsed_times, string_mutex>>

\* parse(...)->interpret_with(_walker): the pointer is read without the mutex.
Interpret(t) ==
    /\ pc[t] = "interpret"
    /\ stack' = [stack EXCEPT ![t] = Append(@, arg[t])]
    /\ Goto(t, "run")
    /\ UNCHANGED <<queue, left, arg, ast_cache, parsed_times, parse_mutex, string_mutex>>

\* The innermost file ends, or its "return" is caught by source_builtin::exec.
EndSource(t) ==
    /\ pc[t] = "run"
    /\ stack[t] # <<>>
    /\ stack' = [stack EXCEPT ![t] = SubSeq(@, 1, Len(@) - 1)]
    /\ UNCHANGED <<queue, pc, left, arg, ast_cache, parsed_times,
                   parse_mutex, string_mutex>>

----------------------------------------------------------------------------
(* bash_ast.cpp: locked_newRaw8 and locked_destroy, reached whenever the   *)
(* walker asks a token of a shared AST for its text.                       *)

NeedString(t) ==
    /\ pc[t] = "run"
    /\ left[t] > 0
    /\ left' = [left EXCEPT ![t] = @ - 1]
    /\ Goto(t, "want_string")
    /\ UNCHANGED <<queue, arg, stack, ast_cache, parsed_times, parse_mutex, string_mutex>>

\* Mutant: newRaw and destroy are not replaced by their locked versions.
LockString_NotExclusive(t) ==
    /\ pc[t] = "want_string"
    /\ string_mutex' = t
    /\ Goto(t, "string")
    /\ UNCHANGED <<queue, left, arg, stack, ast_cache, parsed_times, parse_mutex>>

LockString(t) ==
    /\ pc[t] = "want_string"
    /\ string_mutex = NoThread
    /\ string_mutex' = t
    /\ Goto(t, "string")
    /\ UNCHANGED <<queue, left, arg, stack, ast_cache, parsed_times, parse_mutex>>

UnlockString(t) ==
    /\ pc[t] = "string"
    /\ string_mutex' = NoThread
    /\ Goto(t, "run")
    /\ UNCHANGED <<queue, left, arg, stack, ast_cache, parsed_times, parse_mutex>>

----------------------------------------------------------------------------
\* The parallel region is over: all ids are processed, all threads are back.
AllDone == queue = 0 /\ \A t \in Threads : pc[t] = "idle"

Finished == AllDone /\ UNCHANGED vars

Step(t) ==
    \/ TakeTask(t) \/ EndTask(t) \/ TaskFails(t)
    \/ \E p \in Paths : CallSource(t, p)
    \/ Lock(t) \/ Miss(t) \/ Poisoned(t) \/ Hit(t)
    \/ ParseSucceeds(t) \/ ParseFails(t)
    \/ Interpret(t) \/ EndSource(t)
    \/ NeedString(t) \/ LockString(t) \/ UnlockString(t)

Next == (\E t \in Threads : Step(t)) \/ Finished

\* Every thread of the team keeps running: the scheduler is fair to threads,
\* nothing is assumed about who gets a contended mutex.
Fairness == \A t \in Threads : WF_vars(Step(t))

Spec == Init /\ [][Next]_vars

FairSpec == Spec /\ Fairness

----------------------------------------------------------------------------
(* Properties.                                                             *)

TypeOK ==
    /\ queue \in 0..Tasks
    /\ pc \in [Threads -> Places]
    /\ left \in [Threads -> 0..MaxCommands]
    /\ arg \in [Threads -> Paths]
    /\ stack \in [Threads -> Seq(Paths)]
    /\ ast_cache \in [Paths -> EntryStates]
    /\ parsed_times \in [Paths -> Nat]
    /\ parse_mutex \in Threads \cup {NoThread}
    /\ string_mutex \in Threads \cup {NoThread}

InParse(t) == pc[t] \in {"lookup", "construct"}

\* Only the owner of parse_mutex is inside parse(), and the owner is inside:
\* find, insert and reset on the shared map never overlap, and no way out of
\* parse(), by return or by exception, leaves the mutex locked.
ParseExclusive == \A t \in Threads : InParse(t) <=> parse_mutex = t

\* A file is handed to "new bash_ast" at most once in the life of the process,
\* however many threads source it and whether or not the parse succeeded.
ParsedAtMostOnce == \A p \in Paths : parsed_times[p] <= 1

\* The pointer that source_builtin::exec dereferences after parse_mutex was
\* released points to an AST, although other threads may be filling the map,
\* and so does the entry of every file that some thread is still walking.
NeverInterpretsNull ==
    \A t \in Threads :
        /\ pc[t] = "interpret" => ast_cache[arg[t]] = "ast"
        /\ \A i \in 1..Len(stack[t]) : ast_cache[stack[t][i]] = "ast"

\* An AST in the cache is never replaced or dropped: threads that walk it and
\* the functions that refer to it (function::ast) keep using it unlocked.
EntriesAreFinal ==
    [][\A p \in Paths : ast_cache[p] = "ast" => ast_cache'[p] = "ast"]_vars

\* newRaw and destroy of the shared string factories run one at a time.
FactoryExclusive == \A t \in Threads : pc[t] = "string" <=> string_mutex = t

\* Seen from outside, a path is undecided until its constructor has returned
\* or thrown, whatever the map holds in the meantime.
Outcome ==
    [p \in Paths |->
        IF ast_cache[p] = "ast" THEN "parsed"
        ELSE IF ast_cache[p] = "null"
                /\ \A t \in Threads : ~(pc[t] = "construct" /\ arg[t] = p)
             THEN "broken"
             ELSE "open"]

Reply ==
    [t \in Threads |->
        IF pc[t] \in {"lock", "lookup", "construct"} THEN "waiting"
        ELSE IF pc[t] = "interpret" THEN "served"
        ELSE "free"]

Once == INSTANCE ParseOnce WITH outcome <- Outcome, reply <- Reply, asked <- arg

\* parse() behaves as if whether a file parses were decided once and in one
\* step, and every thread that sources the file were told that decision; in
\* particular nobody reports a file as broken that is only being parsed.
ImplementsParseOnce == Once!Spec

\* Every ebuild is processed: no thread waits for a mutex forever, although
\* an ebuild may be abandoned while its thread is inside parse().
AllEbuildsProcessed == <>AllDone
============================================================================
