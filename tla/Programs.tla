------------------------------ MODULE Programs ------------------------------
(***************************************************************************)
(* libbash::interpret (src/libbash.cpp) and the programs around it:        *)
(* instruo, which runs the ebuilds of a repository on a team of threads    *)
(* and writes a metadata cache for each (src/utils/instruo.cpp),           *)
(* metadata_generator, variable_printer, bash and ast_printer.             *)
(*                                                                         *)
(* A job is one call of libbash::interpret with what its caller does       *)
(* around it: the OpenMP task of a package, or Main in the programs that   *)
(* run one script.  A command of a script is one step, and so is a line of *)
(* a cache file: each line is flushed.  What a program meets (its command  *)
(* line, scripts, files) is the record input, which never changes.         *)
(***************************************************************************)
EXTENDS Commands, Metadata, AstPrinter

CONSTANTS
    Inputs,       \* what the programs may meet
    Packages,     \* package ids: records of words, see environment
    Main,         \* the job of a program that runs one script
    Preload,      \* the path of isolated-functions.sh
    SyntaxError,  \* a script that bash_ast cannot read or parse
    PN, PV, P, PR, PVR, PF, CATEGORY, srcdir,  \* names of variables
    Threads       \* the size of the OpenMP team

ASSUME ThreadsAssumption == Threads \in Nat \ {0}
ASSUME MainAssumption == Main \notin Packages
ASSUME NoneIsNoList == None \notin Seq(Words)

VARIABLES
    input,       \* what the program meets
    exit,        \* starting, running, success, failure, or aborted (terminate)
    queue,       \* the packages without a task, or the files to print
    old_cat,     \* the category of the last task
    directories, \* those that exist: Empty for the output directory itself
    jobs,        \* the state of each job
    caches,      \* the cache files, and standard output for the other programs
    reports,     \* packages with a message on standard error
    printed      \* what variable_printer and ast_printer write

vars == <<input, exit, queue, old_cat, directories, jobs, caches, reports, printed>>

Jobs == Packages \cup {Main}

----------------------------------------------------------------------------
(* A package.                                                              *)

Hyphen(v, w) == v \o <<Minus>> \o w

\* The variables of a package's task.
environment(id) ==
    [n \in {PN, PV, P, PR, PVR, PF, CATEGORY} |->
        CASE n = PN -> <<id.package>>
          [] n = PV -> <<id.version>>
          [] n = P -> <<Hyphen(id.package, id.version)>>
          [] n = PR -> <<id.revision>>
          [] n = PVR -> <<id.full>>
          [] n = PF -> <<Hyphen(id.package, id.full)>>
          [] n = CATEGORY -> <<id.category>>]

\* The file of a job: ebuild_path, or the argument of the program.
path(j) ==
    IF j = Main THEN Main ELSE <<j.category, j.package, Hyphen(j.package, j.full)>>

\* The same as a word: $0.
path_word(j) == IF j = Main THEN <<46>> ELSE Hyphen(j.package, j.full)

\* Where a job writes: output_path, or standard output.
output_path(j) ==
    IF j = Main THEN Main ELSE <<j.category, Hyphen(j.package, j.full)>>

Outputs == {output_path(j) : j \in Jobs}

\* An id names one package.
ASSUME OutputsAssumption == \A i, j \in Jobs : output_path(i) = output_path(j) => i = j

ASSUME PackagesAssumption ==
    \A id \in Packages : {id.category, id.package, id.version, id.revision, id.full} \subseteq Words

\* The names that a cache depends on.
MetadataVariables == DOMAIN Global \cup {Global[n] : n \in DOMAIN Global}

ASSUME MetadataVariablesAssumption ==
    MetadataVariables \subseteq Names \ {IFS, Zero, Star, Dash, REPLY}

ScriptPrograms == {"metadata_generator", "variable_printer", "bash"}

\* The jobs of a program.
JobsOf(program) ==
    IF program = "instruo" THEN Packages ELSE IF program \in ScriptPrograms THEN {Main} ELSE {}

IsScript(s) == s = SyntaxError \/ (IsList(s) /\ \A c \in ToSet(s) : IsCommand(c))

ASSUME InputsAssumption ==
    \A i \in Inputs :
        /\ i.program = "instruo" => i.ids \in Seq(Packages) /\ IsInjective(i.ids)
        /\ i.program = "ast_printer" => i.scripts \in Seq(DOMAIN i.states)
        /\ JobsOf(i.program) # {} => i.stdin \in Seq(Words) /\ IsScript(i.files[Preload])
        /\ \A j \in JobsOf(i.program) : IsScript(i.files[path(j)])

\* A file that does not exist, that an earlier run left, or that is written.
EmptyFile(state) == [state |-> state, lines |-> <<>>]

NoVariables == <<>>

\* The variables that the programs pass to libbash::interpret.
Passed(j) ==
    IF j # Main THEN environment(j)
    ELSE IF input.program = "bash" THEN [n \in {srcdir} |-> <<<<46>>>>] ELSE NoVariables

----------------------------------------------------------------------------
(* libbash::interpret.                                                     *)

NoJob == [stage |-> "none", pc |-> 0, walker |-> None, variables |-> NoVariables,
          functions |-> {}, thrown |-> None]

\* An exception destroys the interpreter on its way to the caller.
Failed(r, exception) ==
    [r EXCEPT !.stage = "thrown", !.walker = None, !.thrown = exception]

preloaded ==
    IF input.program \in {"instruo", "variable_printer"} THEN input.files[Preload] ELSE <<>>

script(j) == IF jobs[j].stage = "preload" THEN preloaded ELSE input.files[path(j)]

\* bash_ast(path): the script is read and parsed.
Parsed(r, commands) ==
    IF commands = SyntaxError THEN Failed(r, InterpreterException) ELSE r

\* The interpreter is made and the preload script is parsed.
Started(j) ==
    Parsed([NoJob EXCEPT !.stage = "preload", !.pc = 1, !.walker = interpreter(input.stdin),
                         !.variables = Passed(j)], preloaded)

\* define: what was preloaded under the same name is replaced.
WithEnvironment(w, variables, target) ==
    [w EXCEPT !.vars = [n \in Names |->
        IF n \in DOMAIN variables THEN Scalar(variables[n][1], FALSE, 0)
        ELSE IF n = Zero THEN Scalar(target, TRUE, 0) ELSE w.vars[n]]]

\* The walk of the preload script is over: the environment is initialized, the
\* map is cleared and the target is parsed.
Prepared(j) ==
    LET r == jobs[j] IN
    Parsed([r EXCEPT !.stage = "script", !.pc = 1, !.variables = NoVariables,
                     !.walker = WithEnvironment(r.walker, r.variables, path_word(j))],
           input.files[path(j)])

\* The walk of the target is over: the global variables and the functions are
\* copied to the caller, who goes on.
Collected(j) ==
    LET w == jobs[j].walker IN
    [jobs[j] EXCEPT !.stage = "open", !.walker = None, !.functions = @ \cup w.functions,
        !.variables = [n \in {m \in Names : w.vars[m] # None} |-> get_all_values(w.vars[n])]]

Becomes(j, r) == jobs' = [jobs EXCEPT ![j] = r]

\* The next command of the script.
RunCommand(j) ==
    /\ jobs[j].stage \in {"preload", "script"}
    /\ jobs[j].pc <= Len(script(j))
    /\ \E outcome \in {Execute(jobs[j].walker, script(j)[jobs[j].pc])} :
          Becomes(j, IF outcome.thrown # None THEN Failed(jobs[j], outcome.thrown)
                     ELSE [jobs[j] EXCEPT !.walker = outcome.walker, !.pc = @ + 1])
    /\ UNCHANGED <<input, exit, queue, old_cat, directories, caches, reports, printed>>

\* The walk of a script ends.
EndWalk(j) ==
    /\ jobs[j].stage \in {"preload", "script"}
    /\ jobs[j].pc > Len(script(j))
    /\ Becomes(j, IF jobs[j].stage = "preload" THEN Prepared(j) ELSE Collected(j))
    /\ UNCHANGED <<input, exit, queue, old_cat, directories, caches, reports, printed>>

----------------------------------------------------------------------------
(* The callers, once libbash::interpret has returned or thrown.            *)

LinesOfCache == Len(metadata_names) + 1

\* Whether what is written gets somewhere: no caller looks at the state of the
\* stream.
Written(j) == j = Main \/ input.writable

\* The ofstream is opened and truncates the file.  bash and variable_printer
\* write no metadata.
Open(j) ==
    /\ jobs[j].stage = "open"
    /\ IF input.program \in {"instruo", "metadata_generator"}
       THEN /\ Becomes(j, [jobs[j] EXCEPT !.stage = "write", !.pc = 1])
            /\ caches' = IF Written(j) THEN [caches EXCEPT ![output_path(j)] = EmptyFile("new")]
                          ELSE caches
            /\ directories' = IF j = Main THEN directories ELSE directories \cup {j.category}
       ELSE /\ Becomes(j, [jobs[j] EXCEPT !.stage = "done"])
            /\ UNCHANGED <<caches, directories>>
    /\ UNCHANGED <<input, exit, queue, old_cat, reports, printed>>

\* write_metadata, one line.
WriteLine(j) ==
    LET r == jobs[j] IN
    /\ r.stage = "write"
    /\ r.pc <= LinesOfCache
    /\ IF EndsAt(r.variables, r.pc)
       THEN Becomes(j, Failed(r, OtherException)) /\ UNCHANGED caches
       ELSE /\ Becomes(j, [r EXCEPT !.pc = @ + 1])
            /\ caches' = IF ~Written(j) THEN caches ELSE [caches EXCEPT ![output_path(j)].lines =
                             Append(@, write_metadata(r.variables, r.functions)[r.pc])]
    /\ UNCHANGED <<input, exit, queue, old_cat, directories, reports, printed>>

\* The file is complete and the task ends.
Close(j) ==
    /\ jobs[j].stage = "write"
    /\ jobs[j].pc > LinesOfCache
    /\ Becomes(j, [jobs[j] EXCEPT !.stage = "done"])
    /\ UNCHANGED <<input, exit, queue, old_cat, directories, caches, reports, printed>>

\* The handlers: that of a task reports and the task ends, those of bash and
\* variable_printer end the program, metadata_generator has none.
Catch(j) ==
    /\ jobs[j].stage = "thrown"
    /\ jobs[j].thrown = InterpreterException
    /\ input.program # "metadata_generator"
    /\ IF input.program = "instruo"
       THEN /\ reports' = reports \cup {j}
            /\ Becomes(j, [jobs[j] EXCEPT !.stage = "done"])
            /\ UNCHANGED exit
       ELSE /\ exit' = "failure"
            /\ UNCHANGED <<reports, jobs>>
    /\ UNCHANGED <<input, queue, old_cat, directories, caches, printed>>

\* Nothing catches the exception: std::terminate ends the process.
Terminate(j) ==
    /\ jobs[j].stage = "thrown"
    /\ \/ jobs[j].thrown = OtherException
       \/ input.program = "metadata_generator"
    /\ exit' = "aborted"
    /\ UNCHANGED <<input, queue, old_cat, directories, jobs, caches, reports, printed>>

JobStep(j) ==
    /\ exit = "running"
    /\ \/ RunCommand(j)
       \/ EndWalk(j)
       \/ Open(j)
       \/ WriteLine(j)
       \/ Close(j)
       \/ Catch(j)
       \/ Terminate(j)

----------------------------------------------------------------------------
(* instruo.                                                                *)

\* main up to the call of worker: where it ends before.
CommandLineEnds(options, repository) ==
    IF "unknown" \in options THEN "failure"             \* ArgsError
    ELSE IF "help" \in options THEN "success"           \* DoHelp
    ELSE IF {"generate-cache", "version"} \subseteq options THEN "failure"
    ELSE IF "version" \in options THEN "success"
    ELSE IF repository = "missing" THEN "failure"       \* paludis::Exception
    ELSE IF repository = "no location" THEN "success"
    ELSE "running"

StartInstruo ==
    LET ends == CommandLineEnds(input.options, input.repository) IN
    /\ exit = "starting"
    /\ input.program = "instruo"
    /\ exit' = ends
    /\ queue' = IF ends = "running" THEN input.ids ELSE <<>>
    /\ directories' = IF {"unknown", "help", "version"} \cap input.options = {}
                      THEN directories \cup {Empty} ELSE directories
    /\ UNCHANGED <<input, old_cat, jobs, caches, reports, printed>>

Busy == {j \in Packages : jobs[j].stage \notin {"none", "queued", "done"}}

\* Mutant: a package of the category of the one before gets no task.
Schedule_SkipsCategory ==
    LET id == Head(queue) IN
    /\ exit = "running" /\ input.program = "instruo"
    /\ queue # <<>> /\ Cardinality(Busy) < Threads
    /\ queue' = Tail(queue)
    /\ directories' = directories \cup {id.category}
    /\ old_cat' = id.category
    /\ jobs' = IF id.category = old_cat THEN jobs ELSE [jobs EXCEPT ![id].stage = "queued"]
    /\ UNCHANGED <<input, exit, caches, reports, printed>>

\* The single construct: one thread takes ids and makes tasks, as long as it
\* does not run a task itself.
Schedule ==
    LET id == Head(queue) IN
    /\ exit = "running"
    /\ input.program = "instruo"
    /\ queue # <<>>
    /\ Cardinality(Busy) < Threads
    /\ queue' = Tail(queue)
    /\ directories' = IF id.category = old_cat THEN directories
                      ELSE directories \cup {id.category}
    /\ old_cat' = id.category
    /\ jobs' = [jobs EXCEPT ![id].stage = "queued"]
    /\ UNCHANGED <<input, exit, caches, reports, printed>>

\* A thread that is free takes a task.
StartTask(id) ==
    /\ exit = "running"
    /\ jobs[id].stage = "queued"
    /\ Cardinality(Busy) < Threads
    /\ Becomes(id, Started(id))
    /\ UNCHANGED <<input, exit, queue, old_cat, directories, caches, reports, printed>>

\* Mutant: main does not wait for the tasks that were started.
Join_Early ==
    /\ exit = "running"
    /\ input.program = "instruo"
    /\ queue = <<>>
    /\ \A id \in Packages : jobs[id].stage # "queued"
    /\ exit' = "success"
    /\ UNCHANGED <<input, queue, old_cat, directories, jobs, caches, reports, printed>>

\* The barrier at the end of the parallel region; main returns.
Join ==
    /\ exit = "running"
    /\ input.program = "instruo"
    /\ queue = <<>>
    /\ \A id \in Packages : jobs[id].stage \in {"none", "done"}
    /\ exit' = "success"
    /\ UNCHANGED <<input, queue, old_cat, directories, jobs, caches, reports, printed>>

----------------------------------------------------------------------------
(* The other programs.                                                     *)

\* They take exactly one argument.
StartScript ==
    /\ exit = "starting"
    /\ input.program \in ScriptPrograms
    /\ IF input.argc # 2 THEN exit' = "failure" /\ UNCHANGED jobs
       ELSE exit' = "running" /\ Becomes(Main, Started(Main))
    /\ UNCHANGED <<input, queue, old_cat, directories, caches, reports, printed>>

special_variables == {IFS, Star, Zero, Dash}

\* variable_printer prints what is not special.
EndScript ==
    LET variables == jobs[Main].variables IN
    /\ exit = "running"
    /\ input.program \in ScriptPrograms
    /\ jobs[Main].stage = "done"
    /\ exit' = "success"
    /\ printed' = IF input.program # "variable_printer" THEN printed
                  ELSE [n \in DOMAIN variables \ special_variables |-> variables[n]]
    /\ UNCHANGED <<input, queue, old_cat, directories, jobs, caches, reports>>

StartAstPrinter ==
    LET ends == OptionsEnd(input.options) IN
    /\ exit = "starting"
    /\ input.program = "ast_printer"
    /\ exit' = ends
    /\ queue' = IF ends = "running" THEN Scripts(input.options, input.scripts) ELSE <<>>
    /\ UNCHANGED <<input, old_cat, directories, jobs, caches, reports, printed>>

\* One turn of print_files; an exception ends it.
PrintFile ==
    LET result == printer(Head(queue), input.states[Head(queue)], input.options) IN
    /\ exit = "running"
    /\ input.program = "ast_printer"
    /\ queue # <<>>
    /\ queue' = Tail(queue)
    /\ exit' = IF result.fails THEN "failure" ELSE exit
    /\ printed' = printed \o result.printed
    /\ UNCHANGED <<input, old_cat, directories, jobs, caches, reports>>

EndAstPrinter ==
    /\ exit = "running"
    /\ input.program = "ast_printer"
    /\ queue = <<>>
    /\ exit' = "success"
    /\ UNCHANGED <<input, queue, old_cat, directories, jobs, caches, reports, printed>>

----------------------------------------------------------------------------
Ended == {"success", "failure", "aborted"}

\* A program that has ended does nothing more.
Terminated == exit \in Ended /\ UNCHANGED vars

Init ==
    /\ input \in Inputs
    /\ exit = "starting"
    /\ queue = <<>>
    /\ old_cat = None
    /\ directories = {}
    /\ jobs = [j \in Jobs |-> NoJob]
    /\ caches = [p \in Outputs |-> EmptyFile(IF p \in input.old THEN "old" ELSE "none")]
    /\ reports = {}
    /\ printed = <<>>

MainStep ==
    \/ StartInstruo
    \/ Schedule
    \/ Join
    \/ StartScript
    \/ EndScript
    \/ StartAstPrinter
    \/ PrintFile
    \/ EndAstPrinter

Next ==
    \/ MainStep
    \/ \E id \in Packages : StartTask(id)
    \/ \E j \in Jobs : JobStep(j)
    \/ Terminated

Spec == Init /\ [][Next]_vars

\* A thread has something to do: JobStep is enabled.
Working(j) == exit = "running" /\ jobs[j].stage \notin {"none", "queued", "done"}

\* Weak fairness of the threads of the team and of the thread in main.  That of
\* JobStep is written out: Working(id) is ENABLED JobStep(id), which TLC would
\* compute from all that a command does.
Fairness ==
    /\ WF_vars(MainStep)
    /\ WF_vars(\E id \in Packages : StartTask(id))
    /\ \A id \in Packages : []<>~Working(id) \/ []<><<JobStep(id)>>_vars

FairSpec == Spec /\ Fairness

----------------------------------------------------------------------------
(* Properties.                                                             *)

Stages == {"none", "queued", "preload", "script", "open", "write", "thrown", "done"}

\* Types.  An interpreter lives while a script is walked, and a call of
\* libbash::interpret leaves nothing of it behind; the options of shopt stay
\* those of the constructor, whatever names a script gives.
TypeOK ==
    /\ exit \in Ended \cup {"starting", "running"}
    /\ input.program # "ast_printer" => queue \in Seq(Packages)
    /\ DOMAIN jobs = Jobs
    /\ \A j \in Jobs :
          /\ jobs[j].stage \in Stages
          /\ jobs[j].pc \in Nat
          /\ jobs[j].thrown \in {None, InterpreterException, OtherException}
          /\ IF jobs[j].stage \in {"preload", "script"}
             THEN jobs[j].walker \in Interpreter ELSE jobs[j].walker = None
    /\ DOMAIN caches = Outputs
    /\ reports \subseteq Packages
    /\ directories \subseteq {Empty} \cup {id.category : id \in Packages}

\* instruo comes to call worker.
Generates ==
    input.program = "instruo" /\ CommandLineEnds(input.options, input.repository) = "running"

Complete(file) == file.state = "new" /\ Len(file.lines) = LinesOfCache

Answered(id) == id \in reports \/ Complete(caches[output_path(id)])

\* When a program exits with success it has done its work: every package of the
\* repository has its whole cache file or a report (instruo.cpp waits for all
\* tasks of the parallel region, and a task that fails is reported; the output
\* directory has to be writable, since no stream is checked); the output of
\* metadata_generator is complete; ast_printer has printed every script.
SuccessMeansAnswered ==
    exit = "success" =>
        /\ Generates /\ input.writable => \A id \in ToSet(input.ids) : Answered(id)
        /\ input.program = "metadata_generator" => Complete(caches[output_path(Main)])
        /\ input.program = "ast_printer" /\ "silent" \notin input.options =>
              \A s \in ToSet(Scripts(input.options, input.scripts)) :
                  \E k \in DOMAIN printed : printed[k].script = s

\* The words that a script gives to a name: those of the last assignment.
LastWords(commands, name) ==
    LET of == {k \in DOMAIN commands :
                  commands[k].kind \in {"assign", "list"} /\ commands[k].name = name}
        c  == commands[Max(of)]
    IN IF of = {} THEN None ELSE IF c.kind = "list" THEN c.words ELSE <<c.value.word>>

\* What the scripts of a package say a name is: the ebuild, then the variables
\* of the task, then the preloaded script.
Said(id, name) ==
    LET ebuild == LastWords(input.files[path(id)], name) IN
    IF ebuild # None THEN ebuild
    ELSE IF name \in DOMAIN environment(id) THEN environment(id)[name]
    ELSE LastWords(input.files[Preload], name)

\* The runs of characters that are no separators: where they start, the one at i,
\* and all of them in their order.
RunStarts(word, seps) ==
    {i \in DOMAIN word : word[i] \notin seps /\ (i = 1 \/ word[i - 1] \in seps)}

RunAt(word, seps, i) ==
    SubSeq(word, i, Min({j \in i..Len(word) : word[j] \in seps} \cup {Len(word) + 1}) - 1)

Runs(word, seps) ==
    LET starts == RunStarts(word, seps)
    IN [k \in 1..Cardinality(starts) |-> RunAt(word, seps, Ascending(starts)[k])]

SaidWords(id, name) == IF Said(id, name) = None THEN <<>> ELSE Runs(Said(id, name)[1], Blanks)

\* RDEPEND is DEPEND when nothing is said about it, before EAPI 4.
Own(id, name) ==
    IF /\ name = RDEPEND
       /\ Said(id, RDEPEND) = None
       /\ Said(id, EAPI) = None \/ number(Said(id, EAPI)[1]) < 4
    THEN SaidWords(id, DEPEND) ELSE SaidWords(id, name)

\* A line for a name: the words of the ebuild in their order, then those of E_n
\* that are not yet part of the line; all of them are covered.
LineIsRight(id, name, words) ==
    LET own   == Own(id, name)
        extra == ToSet(SaidWords(id, Global[name]))
        line_words == IF words = <<Empty>> THEN <<>> ELSE words
    IN /\ ToSet(line_words) \subseteq extra \cup ToSet(own)
       /\ \A w \in extra \cup ToSet(own) : \E v \in ToSet(line_words) : find(v, w)
       /\ IF name = INHERITED
          THEN \A k \in 1..(Len(words) - 1) : ~Before(words[k + 1], words[k])
          ELSE /\ IsPrefix(own, line_words)
               /\ \A i, k \in DOMAIN line_words :
                     i < k /\ k > Len(own) => ~find(line_words[i], line_words[k])

DefinedBy(commands) ==
    {commands[k].name : k \in {i \in DOMAIN commands : commands[i].kind = "function"}}

\* What a script says of the metadata is written in it: no expansion, read or
\* printf -v gives it a value.
SaysPlainly(commands) ==
    \A c \in ToSet(commands) :
        /\ c.kind = "assign" /\ c.name \in MetadataVariables => c.index = 0 /\ c.value.how = "word"
        /\ c.kind = "printf" => c.name \notin MetadataVariables
        /\ c.kind = "read" => ToSet(c.names) \cap MetadataVariables = {}

\* A cache file that a task has begun holds the metadata of its own ebuild, line
\* by line, whatever the other tasks do (metadata.cpp; libbash.cpp copies the
\* variables and functions of an interpreter that belongs to the task).
CacheMatchesEbuild ==
    Generates => \A id \in Packages :
        LET file == caches[output_path(id)] IN
        (/\ file.state = "new"
         /\ SaysPlainly(input.files[path(id)])
         /\ SaysPlainly(input.files[Preload])) =>
            /\ \A k \in DOMAIN file.lines \cap DOMAIN metadata_names :
                  LineIsRight(id, metadata_names[k], file.lines[k])
            /\ LinesOfCache \in DOMAIN file.lines =>
                  ToSet(file.lines[LinesOfCache]) =
                      {phases[f] : f \in (DefinedBy(input.files[path(id)])
                                         \cup DefinedBy(input.files[Preload])) \cap DOMAIN phases}

\* A script that the handlers of interpreter_exception do not cover: it jumps
\* outside of loops and calls, or gives metadata without an element 0, or an EAPI
\* that is no number.
Escapes(commands) ==
    /\ commands # SyntaxError
    /\ \/ \E k \in DOMAIN commands :
              commands[k].kind = "jump" \/ (commands[k].kind = "list" /\ commands[k].words = <<>>)
       \/ LastWords(commands, EAPI) # None /\ ~IsNumber(LastWords(commands, EAPI)[1])

\* The process has ended in this way.
EscapeEnded ==
    LET files == IF Generates THEN {path(id) : id \in ToSet(input.ids)} \cup {Preload} ELSE {}
    IN exit = "aborted" /\ \E f \in files : Escapes(input.files[f])

\* Every package that worker was given gets its cache file or a report: no task is
\* lost between the loop and the team, and a task that fails gives its thread
\* back.  The only exception is a script that escapes the handler of the task
\* (instruo.cpp:123), which ends the process for all packages; the output
\* directory has to be writable.
EveryIdAnswered ==
    \A id \in Packages :
        (exit = "running" /\ Generates /\ input.writable /\ id \in ToSet(input.ids)) ~>
            \/ Answered(id)
            \/ EscapeEnded
=============================================================================
