----------------------------- MODULE TextProofs -----------------------------
(* Proofs about the jobs of Programs and the commands that they execute:   *)
(* types, what the last command has done, and what the first two do.       *)
EXTENDS TextProperties, ProgramsProofs, CommandsProofs

----------------------------------------------------------------------------
(* The jobs.                                                               *)

\* A script that is walked: bash_ast has parsed it, and pc is its next command or
\* its end.
Walks(s, pc) ==
    /\ s # SyntaxError /\ IsScript(s)
    /\ pc \in 1..(Len(s) + 1)

JobTypes(r) ==
    /\ IsJob(r)
    /\ r.stage \in Stages
    /\ r.pc \in Nat
    /\ r.thrown \in {None, InterpreterException, OtherException}
    /\ IF r.stage \in {"preload", "script"} THEN r.walker \in Interpreter ELSE r.walker = None

\* The variable of command c holds the part that c takes.
PartIsHeld(c, w) ==
    /\ Expansion(w, c.value) # InterpreterException
    /\ resolve(w.vars[c.name], 0, FALSE) = Expansion(w, c.value)

\* Command d changes neither the variable of c nor one that c reads.
LeavesAlone(d, c) ==
    d.kind = "assign" /\ d.name \notin {c.name, c.value.name, Zero, IFS}

\* The commands before pc whose part is still held: only assignments that leave it
\* alone came after them.
Remembers(s, pc, w) ==
    \A i \in 1..(pc - 1) :
        (TakesPart(s[i]) /\ \A m \in (i + 1)..(pc - 1) : LeavesAlone(s[m], s[i]))
            => PartIsHeld(s[i], w)

\* The positional parameters are the runs of the word that command c splits.
RunsAreHeld(c, w) ==
    LET runs == Runs(resolve(w.vars[c.args[2].name], 0, FALSE), ToSet(resolve(w.vars[IFS], 0, FALSE)))
    IN Len(runs) <= MaxIndex =>
           /\ Elements(w.vars[Star]) = 1..Len(runs)
           /\ \A k \in 1..Len(runs) : get_value(w.vars[Star], k) = runs[k]

\* What command c has done to interpreter w.
HasDone(c, w) ==
    /\ c.kind = "test" => Tells(c.test, w.status = 0)
    /\ IsRemoval(c) => Removes(c.value, resolve(w.vars[c.value.name], 0, FALSE),
                               resolve(w.vars[c.name], 0, FALSE))
    /\ IsSplit(c, resolve(w.vars[IFS], 0, FALSE)) => RunsAreHeld(c, w)
    /\ TakesPart(c) => PartIsHeld(c, w)

\* r is a state of job j: the program has the job, its script is parsed, until the
\* preloaded script is walked the variables are those the caller passed, and the
\* commands of the other one have done what they should.
JobIsRight(j, r) ==
    /\ JobTypes(r)
    /\ r.stage # "none" => j \in JobsOf(input.program)
    /\ r.stage = "preload" => Walks(preloaded, r.pc) /\ r.variables = Passed(j)
    /\ r.stage = "script" =>
          LET s == input.files[path(j)] IN
          /\ Walks(s, r.pc)
          /\ r.pc > 1 => HasDone(s[r.pc - 1], r.walker)
          /\ Remembers(s, r.pc, r.walker)

JobsAreRight ==
    /\ DOMAIN jobs = Jobs
    /\ \A j \in Jobs : JobIsRight(j, jobs[j])

PlacesAreRight ==
    /\ exit \in Ended \cup {"starting", "running"}
    /\ input.program # "ast_printer" => queue \in Seq(Packages)
    /\ DOMAIN caches = Outputs
    /\ reports \subseteq Packages
    /\ directories \subseteq {Empty} \cup {id.category : id \in Packages}

TInv == input \in Inputs /\ JobsAreRight /\ PlacesAreRight

LEMMA InvariantTypes ==
  ASSUME TInv
  PROVE  TypeOK
BY DEF TInv, JobsAreRight, JobIsRight, JobTypes, PlacesAreRight, TypeOK

LEMMA InitTypes ==
  ASSUME Init
  PROVE  TInv
<1>1. JobTypes(NoJob)
  BY DEF JobTypes, NoJob, IsJob, Stages
<1>2. \A j \in Jobs : JobIsRight(j, NoJob)
  BY <1>1 DEF JobIsRight, NoJob
<1>3. JobsAreRight
  BY <1>2 DEF JobsAreRight, Init
<1>4. PlacesAreRight
  BY DEF PlacesAreRight, Init
<1> QED
  BY <1>3, <1>4 DEF TInv, Init

\* Job j comes to a state that is right, the others stay as they are.
LEMMA JobBecomes ==
  ASSUME JobsAreRight, NEW j \in Jobs, NEW r, JobIsRight(j, r), Becomes(j, r), UNCHANGED input
  PROVE  JobsAreRight'
<1>1. DOMAIN jobs' = Jobs /\ jobs'[j] = r /\ \A i \in Jobs \ {j} : jobs'[i] = jobs[i]
  BY DEF Becomes, JobsAreRight
<1>2. ASSUME NEW i \in Jobs PROVE JobIsRight(i, jobs[i])'
  <2>1. JobIsRight(i, jobs'[i])
    BY <1>1 DEF JobsAreRight
  <2> QED
    BY <2>1 DEF JobIsRight, Passed, preloaded
<1> QED
  BY <1>1, <1>2 DEF JobsAreRight

LEMMA JobsStay ==
  ASSUME JobsAreRight, UNCHANGED <<input, jobs>>
  PROVE  JobsAreRight'
BY DEF JobsAreRight, JobIsRight, Passed, preloaded

LEMMA FailedTypes ==
  ASSUME NEW r, IsJob(r), r.pc \in Nat, NEW exception \in {InterpreterException, OtherException}
  PROVE  JobTypes(Failed(r, exception)) /\ Failed(r, exception).stage = "thrown"
BY DEF Failed, JobTypes, IsJob, Stages

\* A job that fails, or that is past the walks.
LEMMA LaterIsRight ==
  ASSUME NEW j \in Jobs, j \in JobsOf(input.program), NEW r, JobTypes(r),
         r.stage \notin {"preload", "script"}
  PROVE  JobIsRight(j, r)
BY DEF JobIsRight

\* Parsing a script of the input.
LEMMA ParsedIsRight ==
  ASSUME NEW j \in Jobs, j \in JobsOf(input.program), NEW r, JobTypes(r),
         NEW s, IsScript(s), r.pc = 1,
         \/ r.stage = "preload" /\ s = preloaded /\ r.variables = Passed(j)
         \/ r.stage = "script" /\ s = input.files[path(j)]
  PROVE  JobIsRight(j, Parsed(r, s))
<1>1. CASE s = SyntaxError
  <2>1. JobTypes(Failed(r, InterpreterException)) /\ Failed(r, InterpreterException).stage = "thrown"
    BY FailedTypes DEF JobTypes
  <2>2. Parsed(r, s) = Failed(r, InterpreterException)
    BY <1>1 DEF Parsed
  <2> QED
    BY <2>1, <2>2, LaterIsRight
<1>2. CASE s # SyntaxError
  <2>1. Len(s) \in Nat
    BY <1>2 DEF IsScript, IsList
  <2>2. Walks(s, r.pc)
    BY <1>2, <2>1 DEF Walks
  <2> QED
    <3>1. Remembers(s, r.pc, r.walker)
      BY DEF Remembers
    <3> QED
      BY <1>2, <2>2, <3>1 DEF Parsed, JobIsRight
<1> QED
  BY <1>1, <1>2

----------------------------------------------------------------------------
(* libbash::interpret.                                                     *)

\* What the job of a program meets.
LEMMA InputOfJob ==
  ASSUME TInv, NEW j \in JobsOf(input.program)
  PROVE  /\ input.stdin \in Seq(Seq(Nat))
         /\ IsScript(preloaded)
         /\ IsScript(input.files[path(j)])
<1>1. /\ JobsOf(input.program) # {} => input.stdin \in Seq(Words) /\ IsScript(input.files[Preload])
      /\ IsScript(input.files[path(j)])
  BY InputsAssumption DEF TInv
<1>2. JobsOf(input.program) # {}
  OBVIOUS
<1>3. IsScript(<<>>)
  BY EmptyIsList DEF IsScript, ToSet
<1> QED
  BY <1>1, <1>2, <1>3, WordsAreCodes DEF preloaded

LEMMA StartedIsRight ==
  ASSUME TInv, NEW j \in Jobs, j \in JobsOf(input.program)
  PROVE  JobIsRight(j, Started(j))
<1> DEFINE r == [NoJob EXCEPT !.stage = "preload", !.pc = 1, !.walker = interpreter(input.stdin),
                              !.variables = Passed(j)]
<1>1. interpreter(input.stdin) \in Interpreter
  BY InputOfJob, InterpreterType
<1>2. IsJob(r) /\ r.stage = "preload" /\ r.pc = 1 /\ r.variables = Passed(j) /\ r.thrown = None
        /\ r.walker = interpreter(input.stdin)
  BY DEF NoJob, IsJob
<1>3. Started(j) = Parsed(r, preloaded)
  BY DEF Started
<1> HIDE DEF r
<1>4. JobTypes(r)
  BY <1>1, <1>2 DEF JobTypes, Stages
<1>5. IsScript(preloaded)
  BY InputOfJob
<1> QED
  BY <1>2, <1>3, <1>4, <1>5, ParsedIsRight

\* The words of a package's variables.
LEMMA EnvironmentType ==
  ASSUME NEW id \in Packages, NEW n \in DOMAIN environment(id)
  PROVE  environment(id)[n][1] \in Words
<1>1. /\ id.package \in Words /\ id.version \in Words /\ id.revision \in Words
      /\ id.full \in Words /\ id.category \in Words
  BY PackagesAssumption
<1>2. ASSUME NEW v \in Words, NEW w \in Words PROVE Hyphen(v, w) \in Words
  BY <1>2, WordsAreCodes DEF Hyphen, Minus
<1>3. Hyphen(id.package, id.version) \in Words /\ Hyphen(id.package, id.full) \in Words
  BY <1>1, <1>2
<1>4. n \in {PN, PV, P, PR, PVR, PF, CATEGORY}
  BY DEF environment
<1>5. environment(id)[n] = CASE n = PN -> <<id.package>>
          [] n = PV -> <<id.version>>
          [] n = P -> <<Hyphen(id.package, id.version)>>
          [] n = PR -> <<id.revision>>
          [] n = PVR -> <<id.full>>
          [] n = PF -> <<Hyphen(id.package, id.full)>>
          [] n = CATEGORY -> <<id.category>>
  BY <1>4 DEF environment
<1> QED
  BY <1>1, <1>3, <1>4, <1>5

LEMMA PassedType ==
  ASSUME NEW j \in Jobs, NEW n \in DOMAIN Passed(j)
  PROVE  Passed(j)[n][1] \in Words
<1>1. CASE j # Main
  <2>1. j \in Packages /\ Passed(j) = environment(j)
    BY <1>1 DEF Jobs, Passed
  <2> QED
    BY <2>1, EnvironmentType
<1>2. CASE j = Main /\ input.program = "bash"
  <2>1. Passed(j) = [m \in {srcdir} |-> <<<<46>>>>]
    BY <1>2 DEF Passed
  <2>2. <<46>> \in Words
    BY WordsAreCodes
  <2> QED
    BY <2>1, <2>2
<1>3. CASE j = Main /\ input.program # "bash"
  <2>1. Passed(j) = <<>>
    BY <1>3 DEF Passed, NoVariables
  <2> QED
    BY <2>1
<1> QED
  BY <1>1, <1>2, <1>3

LEMMA PathWordType ==
  ASSUME NEW j \in Jobs
  PROVE  path_word(j) \in Words
<1>1. CASE j # Main
  <2>1. j \in Packages
    BY <1>1 DEF Jobs
  <2>2. j.package \in Words /\ j.full \in Words
    BY <2>1, PackagesAssumption
  <2> QED
    BY <1>1, <2>2, WordsAreCodes DEF path_word, Hyphen, Minus
<1>2. CASE j = Main
  BY <1>2, WordsAreCodes DEF path_word
<1> QED
  BY <1>1, <1>2

\* define for the variables of the caller and for $0.
LEMMA WithEnvironmentType ==
  ASSUME NEW w \in Interpreter, NEW j \in Jobs, NEW target \in Words
  PROVE  WithEnvironment(w, Passed(j), target) \in Interpreter
<1> DEFINE V == Passed(j)
           vs == [n \in Names |-> IF n \in DOMAIN V THEN Scalar(V[n][1], FALSE, 0)
                                  ELSE IF n = Zero THEN Scalar(target, TRUE, 0) ELSE w.vars[n]]
<1>1. w.vars \in [Names -> Variable \cup {None}]
  BY DEF Interpreter
<1>2. \A n \in DOMAIN V : V[n][1] \in Words
  BY PassedType
<1>3. 0 \in Indexes
  BY IndexAssumption DEF Indexes
<1>4. WithEnvironment(w, V, target) = [w EXCEPT !.vars = vs]
  BY DEF WithEnvironment
<1> HIDE DEF V
<1>5. ASSUME NEW n \in Names PROVE vs[n] \in Variable \cup {None}
  <2>1. CASE n \in DOMAIN V
    <3>1. Scalar(V[n][1], FALSE, 0) \in Variable
      BY <1>2, <1>3, <2>1, ScalarType
    <3> QED
      BY <2>1, <3>1
  <2>2. CASE n \notin DOMAIN V /\ n = Zero
    <3>1. Scalar(target, TRUE, 0) \in Variable
      BY <1>3, ScalarType
    <3> QED
      BY <2>2, <3>1
  <2>3. CASE n \notin DOMAIN V /\ n # Zero
    BY <1>1, <2>3
  <2> QED
    BY <2>1, <2>2, <2>3
<1>6. vs \in [Names -> Variable \cup {None}]
  BY <1>5
<1> HIDE DEF vs
<1> QED
  BY <1>4, <1>6, WithVars DEF V

\* What a command has to do, and to keep, as a hypothesis of the lemmas below.
CommandsDo ==
    \A w \in Interpreter : \A c : IsCommand(c) /\ Execute(w, c).thrown = None =>
        /\ HasDone(c, Execute(w, c).walker)
        /\ \A d : (IsCommand(d) /\ TakesPart(d) /\ PartIsHeld(d, w) /\ LeavesAlone(c, d)) =>
              PartIsHeld(d, Execute(w, c).walker)

\* The last command has been executed, or nothing is left of the interpreter.
LEMMA RunCommandIsRight ==
  ASSUME TInv, CommandsDo, NEW j \in Jobs, RunCommand(j)
  PROVE  JobsAreRight'
<1> DEFINE r == jobs[j]
           s == script(j)
           c == s[r.pc]
           outcome == Execute(r.walker, c)
           failed == Failed(r, outcome.thrown)
           next == [r EXCEPT !.walker = outcome.walker, !.pc = @ + 1]
<1>1. JobIsRight(j, r) /\ r.stage \in {"preload", "script"} /\ r.pc <= Len(s) /\ UNCHANGED input
  BY DEF TInv, JobsAreRight, RunCommand
<1>2. Becomes(j, IF outcome.thrown # None THEN failed ELSE next)
  BY DEF RunCommand
<1>3. JobTypes(r) /\ IsJob(r) /\ r.walker \in Interpreter /\ j \in JobsOf(input.program)
  BY <1>1 DEF JobIsRight, JobTypes
<1>4. Walks(s, r.pc)
  BY <1>1 DEF JobIsRight, script
<1>5. Len(s) \in Nat /\ r.pc \in 1..Len(s) /\ \A i \in 1..Len(s) : IsCommand(s[i])
  <2>1. s \in Seq(ToSet(s)) /\ \A e \in ToSet(s) : IsCommand(e)
    BY <1>4 DEF Walks, IsScript, IsList
  <2>2. Len(s) \in Nat /\ r.pc \in 1..Len(s)
    BY <1>1, <1>4, <2>1 DEF Walks
  <2>3. \A i \in 1..Len(s) : s[i] \in ToSet(s)
    BY <2>1, <2>2
  <2> QED
    BY <2>1, <2>2, <2>3
<1>9. IsCommand(c)
  BY <1>5
<1> HIDE DEF r, s, c
<1>6. Ends(outcome)
  BY <1>3, <1>9, CommandsEnd
<1>7. CASE outcome.thrown # None
  <2>1. outcome.thrown \in {InterpreterException, OtherException}
    BY <1>6, <1>7 DEF Ends
  <2> HIDE DEF outcome
  <2>2. JobTypes(failed) /\ failed.stage = "thrown"
    BY <1>3, <2>1, FailedTypes DEF JobTypes
  <2>3. JobIsRight(j, failed)
    BY <1>3, <2>2, LaterIsRight
  <2> HIDE DEF failed
  <2> QED
    BY <1>1, <1>2, <1>7, <2>3, JobBecomes DEF TInv
<1>8. CASE outcome.thrown = None
  <2>1. /\ outcome.walker \in Interpreter /\ HasDone(c, outcome.walker)
        /\ \A d : (IsCommand(d) /\ TakesPart(d) /\ PartIsHeld(d, r.walker) /\ LeavesAlone(c, d)) =>
              PartIsHeld(d, outcome.walker)
    BY <1>3, <1>6, <1>8, <1>9 DEF Ends, CommandsDo
  <2> HIDE DEF outcome
  <2>2. /\ IsJob(next) /\ next.stage = r.stage /\ next.pc = r.pc + 1 /\ next.walker = outcome.walker
        /\ next.variables = r.variables /\ next.thrown = r.thrown
    BY <1>3 DEF IsJob
  <2> HIDE DEF next
  <2>3. r.pc + 1 \in Nat /\ Walks(s, r.pc + 1) /\ r.pc + 1 - 1 = r.pc
    BY <1>4, <1>5 DEF Walks
  <2>4. JobTypes(next)
    BY <1>1, <1>3, <2>1, <2>2, <2>3 DEF JobTypes
  <2>5. CASE r.stage = "preload"
    <3>1. s = preloaded /\ r.variables = Passed(j)
      BY <1>1, <2>5 DEF JobIsRight, s, script, r
    <3>2. JobIsRight(j, next)
      BY <1>3, <2>2, <2>3, <2>4, <2>5, <3>1 DEF JobIsRight
    <3> QED
      BY <1>1, <1>2, <1>8, <3>2, JobBecomes DEF TInv
  <2>6. CASE r.stage = "script"
    <3>1. s = input.files[path(j)]
      BY <2>6 DEF s, script, r
    <3>4. next.pc - 1 = r.pc
      BY <1>5, <2>2
    <3>5. s[next.pc - 1] = c
      BY <3>4 DEF c
    <3>2. HasDone(s[next.pc - 1], next.walker)
      BY <2>1, <2>2, <3>5
    <3>6. Remembers(s, r.pc, r.walker)
      BY <1>1, <2>6, <3>1 DEF JobIsRight
    <3>7. ASSUME NEW i \in 1..r.pc, TakesPart(s[i]), \A m \in (i + 1)..r.pc : LeavesAlone(s[m], s[i])
          PROVE  PartIsHeld(s[i], outcome.walker)
      <4>1. CASE i = r.pc
        BY <2>1, <3>7, <4>1 DEF HasDone, c
      <4>2. CASE i # r.pc
        <5>1. i \in 1..(r.pc - 1) /\ i \in 1..Len(s) /\ r.pc \in (i + 1)..r.pc
              /\ (i + 1)..(r.pc - 1) \subseteq (i + 1)..r.pc
          BY <1>5, <4>2
        <5>2. PartIsHeld(s[i], r.walker)
          BY <3>6, <3>7, <5>1 DEF Remembers
        <5>3. IsCommand(s[i]) /\ LeavesAlone(c, s[i])
          BY <1>5, <3>7, <5>1 DEF c
        <5> QED
          BY <2>1, <3>7, <5>2, <5>3
      <4> QED
        BY <4>1, <4>2
    <3>8. Remembers(s, next.pc, next.walker)
      BY <2>2, <3>4, <3>7 DEF Remembers
    <3>3. JobIsRight(j, next)
      BY <1>3, <2>2, <2>3, <2>4, <2>6, <3>1, <3>2, <3>8 DEF JobIsRight
    <3> QED
      BY <1>1, <1>2, <1>8, <3>3, JobBecomes DEF TInv
  <2> QED
    BY <1>1, <2>5, <2>6
<1> QED
  BY <1>7, <1>8

\* The interpreter of the preloaded script goes on with the target, that of the
\* target is gone.
LEMMA EndWalkIsRight ==
  ASSUME TInv, NEW j \in Jobs, EndWalk(j)
  PROVE  JobsAreRight'
<1> DEFINE r == jobs[j]
<1>1. JobIsRight(j, r) /\ r.stage \in {"preload", "script"} /\ UNCHANGED input
  BY DEF TInv, JobsAreRight, EndWalk
<1>2. JobTypes(r) /\ IsJob(r) /\ r.walker \in Interpreter /\ j \in JobsOf(input.program)
  BY <1>1 DEF JobIsRight, JobTypes
<1>3. CASE r.stage = "preload"
  <2> DEFINE w == WithEnvironment(r.walker, r.variables, path_word(j))
             next == [r EXCEPT !.stage = "script", !.pc = 1, !.variables = NoVariables, !.walker = w]
  <2>1. w \in Interpreter
    <3>1. r.variables = Passed(j)
      BY <1>1, <1>3 DEF JobIsRight
    <3> QED
      BY <1>2, <3>1, PathWordType, WithEnvironmentType
  <2>2. Becomes(j, Parsed(next, input.files[path(j)]))
    BY <1>3 DEF EndWalk, Prepared
  <2> HIDE DEF w
  <2>3. IsJob(next) /\ next.stage = "script" /\ next.pc = 1 /\ next.walker = w /\ next.thrown = r.thrown
    BY <1>2 DEF IsJob
  <2> HIDE DEF r, next
  <2>4. JobTypes(next)
    BY <1>2, <2>1, <2>3 DEF JobTypes, Stages
  <2>5. JobIsRight(j, Parsed(next, input.files[path(j)]))
    BY <1>2, <2>3, <2>4, InputOfJob, ParsedIsRight
  <2> QED
    BY <1>1, <2>2, <2>5, JobBecomes DEF TInv
<1>4. CASE r.stage = "script"
  <2>1. Becomes(j, Collected(j))
    BY <1>4 DEF EndWalk
  <2>2. /\ IsJob(Collected(j)) /\ Collected(j).stage = "open" /\ Collected(j).walker = None
        /\ Collected(j).pc = r.pc /\ Collected(j).thrown = r.thrown
    BY <1>2 DEF Collected, IsJob
  <2>3. JobTypes(Collected(j))
    BY <1>2, <2>2 DEF JobTypes, Stages
  <2>4. JobIsRight(j, Collected(j))
    BY <1>2, <2>2, <2>3, LaterIsRight
  <2> QED
    BY <1>1, <2>1, <2>4, JobBecomes DEF TInv
<1> QED
  BY <1>1, <1>3, <1>4

----------------------------------------------------------------------------
(* The callers.                                                            *)

\* A step of job j that leaves it past the walks.
LEMMA CallerIsRight ==
  ASSUME TInv, NEW j \in Jobs, NEW stage \in Stages, NEW pc \in Nat,
         jobs[j].stage \notin {"none", "preload", "script"},
         stage \notin {"preload", "script"},
         Becomes(j, [jobs[j] EXCEPT !.stage = stage, !.pc = pc]), UNCHANGED input
  PROVE  JobsAreRight'
<1> DEFINE r == [jobs[j] EXCEPT !.stage = stage, !.pc = pc]
<1>1. JobIsRight(j, jobs[j])
  BY DEF TInv, JobsAreRight
<1>2. IsJob(jobs[j]) /\ JobTypes(jobs[j]) /\ j \in JobsOf(input.program)
  BY <1>1 DEF JobIsRight, JobTypes
<1>3. /\ IsJob(r) /\ r.stage = stage /\ r.pc = pc /\ r.walker = jobs[j].walker
      /\ r.thrown = jobs[j].thrown
  BY <1>2 DEF IsJob
<1>4. Becomes(j, r)
  OBVIOUS
<1> HIDE DEF r
<1>5. JobTypes(r)
  BY <1>2, <1>3 DEF JobTypes
<1>6. JobIsRight(j, r)
  BY <1>2, <1>3, <1>5, LaterIsRight
<1> QED
  BY <1>4, <1>6, JobBecomes DEF TInv

\* The same for a job that keeps its place in its file, or its stage.
LEMMA SamePlace ==
  ASSUME TInv, NEW j \in Jobs
  PROVE  /\ jobs[j].pc \in Nat /\ jobs[j].stage \in Stages
         /\ \A stage : [jobs[j] EXCEPT !.stage = stage]
                = [jobs[j] EXCEPT !.stage = stage, !.pc = jobs[j].pc]
         /\ \A pc : [jobs[j] EXCEPT !.pc = pc] = [jobs[j] EXCEPT !.stage = jobs[j].stage, !.pc = pc]
<1>1. IsJob(jobs[j]) /\ jobs[j].pc \in Nat /\ jobs[j].stage \in Stages
  BY DEF TInv, JobsAreRight, JobIsRight, JobTypes
<1> QED
  BY <1>1 DEF IsJob

LEMMA OpenIsRight ==
  ASSUME TInv, NEW j \in Jobs, Open(j), exit = "running"
  PROVE  TInv'
<1>1. /\ jobs[j].stage = "open"
      /\ UNCHANGED <<input, exit, queue, reports>>
  BY DEF Open
<1>2. JobsAreRight'
  <2>1. CASE input.program \in {"instruo", "metadata_generator"}
    <3>1. Becomes(j, [jobs[j] EXCEPT !.stage = "write", !.pc = 1])
      BY <2>1 DEF Open
    <3> QED
      BY <1>1, <3>1, CallerIsRight DEF Stages
  <2>2. CASE input.program \notin {"instruo", "metadata_generator"}
    <3>1. Becomes(j, [jobs[j] EXCEPT !.stage = "done"])
      BY <2>2 DEF Open
    <3>2. Becomes(j, [jobs[j] EXCEPT !.stage = "done", !.pc = jobs[j].pc]) /\ jobs[j].pc \in Nat
      BY <3>1, SamePlace
    <3> QED
      BY <1>1, <3>2, CallerIsRight DEF Stages
  <2> QED
    BY <2>1, <2>2
<1>3. PlacesAreRight'
  <2>1. \/ caches' = caches
        \/ caches' = [caches EXCEPT ![output_path(j)] = EmptyFile("new")]
    BY DEF Open
  <2>2. DOMAIN caches' = Outputs
    BY <2>1 DEF TInv, PlacesAreRight
  <2>3. directories' = directories \/ (j # Main /\ directories' = directories \cup {j.category})
    BY DEF Open
  <2>4. j # Main => j.category \in {id.category : id \in Packages}
    BY DEF Jobs
  <2>5. directories' \subseteq {Empty} \cup {id.category : id \in Packages}
    BY <2>3, <2>4 DEF TInv, PlacesAreRight
  <2> QED
    BY <1>1, <2>2, <2>5 DEF TInv, PlacesAreRight
<1> QED
  BY <1>1, <1>2, <1>3 DEF TInv

LEMMA WriteLineIsRight ==
  ASSUME TInv, NEW j \in Jobs, WriteLine(j)
  PROVE  TInv'
<1>1. jobs[j].stage = "write" /\ UNCHANGED <<input, exit, queue, directories, reports>>
  BY DEF WriteLine
<1>2. jobs[j].pc \in Nat /\ jobs[j].stage \in Stages /\ jobs[j].pc + 1 \in Nat
  <2>1. jobs[j].pc \in Nat /\ jobs[j].stage \in Stages
    BY SamePlace
  <2> QED
    BY <2>1
<1>3. JobsAreRight'
  <2>1. CASE EndsAt(jobs[j].variables, jobs[j].pc)
    <3>1. Becomes(j, Failed(jobs[j], OtherException))
      BY <2>1 DEF WriteLine
    <3>2. JobIsRight(j, jobs[j])
      BY DEF TInv, JobsAreRight
    <3>3. IsJob(jobs[j]) /\ j \in JobsOf(input.program)
      BY <1>1, <3>2 DEF JobIsRight, JobTypes
    <3>4. JobTypes(Failed(jobs[j], OtherException)) /\ Failed(jobs[j], OtherException).stage = "thrown"
      BY <1>2, <3>3, FailedTypes
    <3>5. JobIsRight(j, Failed(jobs[j], OtherException))
      BY <3>3, <3>4, LaterIsRight
    <3> QED
      BY <1>1, <3>1, <3>5, JobBecomes DEF TInv
  <2>2. CASE ~EndsAt(jobs[j].variables, jobs[j].pc)
    <3>1. Becomes(j, [jobs[j] EXCEPT !.pc = jobs[j].pc + 1])
      BY <2>2 DEF WriteLine
    <3>2. Becomes(j, [jobs[j] EXCEPT !.stage = jobs[j].stage, !.pc = jobs[j].pc + 1])
      BY <3>1, SamePlace
    <3> QED
      BY <1>1, <1>2, <3>2, CallerIsRight
  <2> QED
    BY <2>1, <2>2
<1>4. DOMAIN caches' = DOMAIN caches
  BY DEF WriteLine
<1>5. PlacesAreRight'
  BY <1>1, <1>4 DEF TInv, PlacesAreRight
<1> QED
  BY <1>1, <1>3, <1>5 DEF TInv

LEMMA CloseIsRight ==
  ASSUME TInv, NEW j \in Jobs, Close(j)
  PROVE  TInv'
<1>1. /\ jobs[j].stage = "write"
      /\ Becomes(j, [jobs[j] EXCEPT !.stage = "done"])
      /\ UNCHANGED <<input, exit, queue, caches, directories, reports>>
  BY DEF Close
<1>2. Becomes(j, [jobs[j] EXCEPT !.stage = "done", !.pc = jobs[j].pc]) /\ jobs[j].pc \in Nat
  BY <1>1, SamePlace
<1>3. JobsAreRight'
  BY <1>1, <1>2, CallerIsRight DEF Stages
<1>4. PlacesAreRight'
  BY <1>1 DEF TInv, PlacesAreRight
<1> QED
  BY <1>1, <1>3, <1>4 DEF TInv

LEMMA CatchIsRight ==
  ASSUME TInv, NEW j \in Jobs, Catch(j), exit = "running"
  PROVE  TInv'
<1>1. jobs[j].stage = "thrown" /\ UNCHANGED <<input, queue, caches, directories>>
  BY DEF Catch
<1>2. CASE input.program = "instruo"
  <2>1. /\ Becomes(j, [jobs[j] EXCEPT !.stage = "done"])
        /\ reports' = reports \cup {j}
        /\ UNCHANGED exit
    BY <1>2 DEF Catch
  <2>2. Becomes(j, [jobs[j] EXCEPT !.stage = "done", !.pc = jobs[j].pc]) /\ jobs[j].pc \in Nat
    BY <2>1, SamePlace
  <2>3. JobsAreRight'
    BY <1>1, <2>2, CallerIsRight DEF Stages
  <2>4. j \in Packages
    <3>1. j \in JobsOf(input.program)
      BY <1>1 DEF TInv, JobsAreRight, JobIsRight
    <3> QED
      BY <1>2, <3>1 DEF JobsOf
  <2>5. PlacesAreRight'
    BY <1>1, <2>1, <2>4 DEF TInv, PlacesAreRight
  <2> QED
    BY <1>1, <2>3, <2>5 DEF TInv
<1>3. CASE input.program # "instruo"
  <2>1. exit' = "failure" /\ UNCHANGED <<reports, jobs>>
    BY <1>3 DEF Catch
  <2>2. JobsAreRight'
    BY <1>1, <2>1, JobsStay DEF TInv
  <2>3. PlacesAreRight'
    BY <1>1, <2>1 DEF TInv, PlacesAreRight, Ended
  <2> QED
    BY <1>1, <2>2, <2>3 DEF TInv
<1> QED
  BY <1>2, <1>3

LEMMA TerminateIsRight ==
  ASSUME TInv, NEW j \in Jobs, Terminate(j)
  PROVE  TInv'
<1>1. exit' = "aborted" /\ UNCHANGED <<input, queue, jobs, caches, directories, reports>>
  BY DEF Terminate
<1>2. JobsAreRight'
  BY <1>1, JobsStay DEF TInv
<1>3. PlacesAreRight'
  BY <1>1 DEF TInv, PlacesAreRight, Ended
<1> QED
  BY <1>1, <1>2, <1>3 DEF TInv

LEMMA JobStepIsRight ==
  ASSUME TInv, CommandsDo, NEW j \in Jobs, JobStep(j)
  PROVE  TInv'
<1>1. exit = "running"
  BY DEF JobStep
<1>2. CASE RunCommand(j) \/ EndWalk(j)
  <2>1. UNCHANGED <<input, exit, queue, caches, directories, reports>>
    BY <1>2 DEF RunCommand, EndWalk
  <2>2. JobsAreRight'
    BY <1>2, RunCommandIsRight, EndWalkIsRight
  <2>3. PlacesAreRight'
    BY <2>1 DEF TInv, PlacesAreRight
  <2> QED
    BY <2>1, <2>2, <2>3 DEF TInv
<1> QED
  BY <1>1, <1>2, OpenIsRight, WriteLineIsRight, CloseIsRight, CatchIsRight, TerminateIsRight
     DEF JobStep

----------------------------------------------------------------------------
(* The programs.                                                           *)

\* A step of main that leaves the jobs alone.
LEMMA MainIsRight ==
  ASSUME TInv, UNCHANGED <<input, jobs, caches, reports>>,
         exit' \in Ended \cup {"running"},
         input.program # "ast_printer" => queue' \in Seq(Packages),
         directories' = directories \/ directories' = directories \cup {Empty}
  PROVE  TInv'
<1>1. JobsAreRight'
  BY JobsStay DEF TInv
<1>2. PlacesAreRight'
  BY DEF TInv, PlacesAreRight
<1> QED
  BY <1>1, <1>2 DEF TInv

LEMMA StartInstruoIsRight ==
  ASSUME TInv, StartInstruo
  PROVE  TInv'
<1>1. /\ input.program = "instruo"
      /\ exit' = CommandLineEnds(input.options, input.repository)
      /\ queue' = input.ids \/ queue' = <<>>
      /\ directories' = directories \/ directories' = directories \cup {Empty}
      /\ UNCHANGED <<input, jobs, caches, reports>>
  BY DEF StartInstruo
<1>2. exit' \in Ended \cup {"running"}
  BY <1>1 DEF CommandLineEnds, Ended
<1>3. input.ids \in Seq(Packages)
  BY <1>1, InputsAssumption DEF TInv
<1>4. <<>> \in Seq(Packages)
  OBVIOUS
<1>5. queue' \in Seq(Packages)
  BY <1>1, <1>3, <1>4
<1> QED
  BY <1>1, <1>2, <1>5, MainIsRight

\* A list without repetitions: its head is not in its tail.
LEMMA TailOfInjective ==
  ASSUME NEW S, NEW s \in Seq(S), s # <<>>, IsInjective(s)
  PROVE  IsInjective(Tail(s)) /\ \A k \in DOMAIN Tail(s) : Tail(s)[k] \in S /\ Tail(s)[k] # Head(s)
                                                          /\ \E i \in DOMAIN s : s[i] = Tail(s)[k]
<1>1. /\ Len(s) \in Nat \ {0} /\ DOMAIN s = 1..Len(s)
      /\ Head(s) = s[1]
      /\ Tail(s) \in Seq(S) /\ Len(Tail(s)) = Len(s) - 1
      /\ \A k \in 1..(Len(s) - 1) : Tail(s)[k] = s[k + 1]
  OBVIOUS
<1> DEFINE t == Tail(s)
<1>2. DOMAIN t = 1..(Len(s) - 1) /\ \A k \in DOMAIN t : t[k] = s[k + 1] /\ t[k] \in S
  BY <1>1
<1>3. \A k \in DOMAIN t : k + 1 \in DOMAIN s /\ k + 1 # 1
  BY <1>1, <1>2
<1>4. 1 \in DOMAIN s
  BY <1>1
<1>5. \A i, k \in DOMAIN t : i + 1 = k + 1 => i = k
  BY <1>2
<1> HIDE DEF t
<1>6. \A a, b \in DOMAIN s : s[a] = s[b] => a = b
  BY DEF IsInjective
<1>7. IsInjective(t)
  BY <1>2, <1>3, <1>5, <1>6 DEF IsInjective
<1>8. \A k \in DOMAIN t : t[k] # s[1]
  BY <1>2, <1>3, <1>4, <1>6
<1> QED
  BY <1>1, <1>2, <1>3, <1>7, <1>8 DEF t

\* The packages that worker has not come to have no job, and each comes once.
QueueIsFresh ==
    /\ exit = "starting" => \A j \in Jobs : jobs[j].stage = "none"
    /\ (exit = "running" /\ input.program = "instruo") =>
          IsInjective(queue) /\ \A k \in DOMAIN queue : jobs[queue[k]].stage = "none"

LEMMA ScheduleIsRight ==
  ASSUME TInv, QueueIsFresh, Schedule
  PROVE  TInv' /\ QueueIsFresh'
<1> DEFINE id == Head(queue)
           r == [jobs[id] EXCEPT !.stage = "queued"]
<1>1. /\ exit = "running" /\ input.program = "instruo" /\ queue # <<>>
      /\ queue' = Tail(queue)
      /\ directories' = directories \/ directories' = directories \cup {id.category}
      /\ jobs' = [jobs EXCEPT ![id].stage = "queued"]
      /\ UNCHANGED <<input, exit, caches, reports>>
  BY DEF Schedule
<1>2. queue \in Seq(Packages)
  BY <1>1 DEF TInv, PlacesAreRight
<1>3. id \in Packages /\ Tail(queue) \in Seq(Packages) /\ 1 \in DOMAIN queue /\ id = queue[1]
  BY <1>1, <1>2
<1>4. jobs[id].stage = "none"
  BY <1>1, <1>3 DEF QueueIsFresh
<1>5. /\ IsInjective(Tail(queue))
      /\ \A k \in DOMAIN Tail(queue) : Tail(queue)[k] \in Packages /\ Tail(queue)[k] # id
                                       /\ \E i \in DOMAIN queue : queue[i] = Tail(queue)[k]
  BY <1>1, <1>2, TailOfInjective DEF QueueIsFresh
<1>6. id \in Jobs /\ id \in JobsOf(input.program)
  BY <1>1, <1>3 DEF Jobs, JobsOf
<1>7. JobIsRight(id, jobs[id]) /\ DOMAIN jobs = Jobs
  BY <1>6 DEF TInv, JobsAreRight
<1> HIDE DEF id
<1>8. Becomes(id, r)
  BY <1>1, <1>6, <1>7 DEF Becomes
<1>9. JobTypes(jobs[id]) /\ IsJob(jobs[id])
  BY <1>7 DEF JobIsRight, JobTypes
<1>10. /\ IsJob(r) /\ r.stage = "queued" /\ r.pc = jobs[id].pc /\ r.walker = jobs[id].walker
       /\ r.thrown = jobs[id].thrown
  BY <1>9 DEF IsJob
<1>11. \A i \in Jobs \ {id} : jobs'[i] = jobs[i]
  BY <1>1
<1> HIDE DEF r
<1>12. JobTypes(r)
  BY <1>4, <1>9, <1>10 DEF JobTypes, Stages
<1>13. JobIsRight(id, r)
  BY <1>6, <1>10, <1>12, LaterIsRight
<1>14. JobsAreRight'
  BY <1>1, <1>6, <1>8, <1>13, JobBecomes DEF TInv
<1>15. PlacesAreRight'
  BY <1>1, <1>3 DEF TInv, PlacesAreRight
<1>16. ASSUME NEW k \in DOMAIN queue' PROVE jobs'[queue'[k]].stage = "none"
  <2>1. queue'[k] \in Packages /\ queue'[k] # id /\ \E i \in DOMAIN queue : queue[i] = queue'[k]
    BY <1>1, <1>5
  <2>2. jobs[queue'[k]].stage = "none"
    BY <1>1, <2>1 DEF QueueIsFresh
  <2> QED
    BY <1>11, <2>1, <2>2 DEF Jobs
<1>17. QueueIsFresh'
  BY <1>1, <1>5, <1>16 DEF QueueIsFresh
<1> QED
  BY <1>1, <1>14, <1>15, <1>17 DEF TInv

LEMMA StartTaskIsRight ==
  ASSUME TInv, NEW id \in Packages, StartTask(id)
  PROVE  TInv'
<1>1. /\ jobs[id].stage = "queued"
      /\ Becomes(id, Started(id))
      /\ UNCHANGED <<input, exit, queue, caches, directories, reports>>
  BY DEF StartTask
<1>2. id \in Jobs
  BY DEF Jobs
<1>3. id \in JobsOf(input.program)
  BY <1>1, <1>2 DEF TInv, JobsAreRight, JobIsRight
<1>4. JobsAreRight'
  BY <1>1, <1>2, <1>3, StartedIsRight, JobBecomes DEF TInv
<1>5. PlacesAreRight'
  BY <1>1 DEF TInv, PlacesAreRight
<1> QED
  BY <1>1, <1>4, <1>5 DEF TInv

LEMMA StartScriptIsRight ==
  ASSUME TInv, StartScript
  PROVE  TInv'
<1>1. /\ input.program \in ScriptPrograms
      /\ UNCHANGED <<input, queue, caches, directories, reports>>
  BY DEF StartScript
<1>2. Main \in Jobs /\ Main \in JobsOf(input.program)
  BY <1>1 DEF Jobs, JobsOf, ScriptPrograms
<1>3. CASE input.argc # 2
  <2>1. exit' = "failure" /\ UNCHANGED jobs
    BY <1>3 DEF StartScript
  <2>2. input.program # "ast_printer" => queue' \in Seq(Packages)
    BY <1>1 DEF TInv, PlacesAreRight
  <2> QED
    BY <1>1, <2>1, <2>2, MainIsRight DEF Ended
<1>4. CASE input.argc = 2
  <2>1. exit' = "running" /\ Becomes(Main, Started(Main))
    BY <1>4 DEF StartScript
  <2>2. JobsAreRight'
    BY <1>1, <1>2, <2>1, StartedIsRight, JobBecomes DEF TInv
  <2>3. PlacesAreRight'
    BY <1>1, <2>1 DEF TInv, PlacesAreRight
  <2> QED
    BY <1>1, <2>2, <2>3 DEF TInv
<1> QED
  BY <1>3, <1>4

LEMMA EndsAreRight ==
  ASSUME TInv, Join \/ EndScript \/ EndAstPrinter
  PROVE  TInv'
<1>1. exit' = "success" /\ UNCHANGED <<input, queue, jobs, caches, directories, reports>>
  BY DEF Join, EndScript, EndAstPrinter
<1>2. input.program # "ast_printer" => queue' \in Seq(Packages)
  BY <1>1 DEF TInv, PlacesAreRight
<1> QED
  BY <1>1, <1>2, MainIsRight DEF Ended

LEMMA AstPrinterIsRight ==
  ASSUME TInv, StartAstPrinter \/ PrintFile
  PROVE  TInv'
<1>1. input.program = "ast_printer" /\ UNCHANGED <<input, jobs, caches, directories, reports>>
  BY DEF StartAstPrinter, PrintFile
<1>2. exit' \in Ended \cup {"running"}
  BY DEF StartAstPrinter, PrintFile, OptionsEnd, Ended
<1> QED
  BY <1>1, <1>2, MainIsRight

----------------------------------------------------------------------------
(* The invariant.                                                          *)

LEMMA InitIsFresh ==
  ASSUME Init
  PROVE  QueueIsFresh
BY DEF Init, NoJob, QueueIsFresh

\* A job that has begun goes on, and the packages in the queue have none.
LEMMA FreshGoesOn ==
  ASSUME TInv, QueueIsFresh, exit = "running", NEW j \in Jobs, jobs[j].stage # "none",
         UNCHANGED <<input, queue>>, exit' # "starting",
         jobs' = jobs \/ \E r : Becomes(j, r)
  PROVE  QueueIsFresh'
<1>1. \A i \in Jobs \ {j} : jobs'[i] = jobs[i]
  <2>1. DOMAIN jobs = Jobs
    BY DEF TInv, JobsAreRight
  <2>2. ASSUME NEW r, Becomes(j, r) PROVE \A i \in Jobs \ {j} : jobs'[i] = jobs[i]
    BY <2>1, <2>2 DEF Becomes
  <2> QED
    BY <2>2
<1>2. ASSUME input.program = "instruo", NEW k \in DOMAIN queue PROVE jobs'[queue[k]].stage = "none"
  <2>1. queue[k] \in Packages
    BY <1>2 DEF TInv, PlacesAreRight
  <2>2. jobs[queue[k]].stage = "none"
    BY <1>2 DEF QueueIsFresh
  <2> QED
    BY <1>1, <2>1, <2>2 DEF Jobs
<1>3. input.program = "instruo" => IsInjective(queue)
  BY DEF QueueIsFresh
<1> QED
  BY <1>2, <1>3 DEF QueueIsFresh

LEMMA JobStepIsFresh ==
  ASSUME TInv, QueueIsFresh, NEW j \in Jobs, JobStep(j)
  PROVE  QueueIsFresh'
<1>1. exit = "running"
  BY DEF JobStep
<1>2. jobs[j].stage # "none" /\ UNCHANGED <<input, queue>>
  BY DEF JobStep, RunCommand, EndWalk, Open, WriteLine, Close, Catch, Terminate
<1>3. exit' \in {exit, "failure", "aborted"}
  BY DEF JobStep, RunCommand, EndWalk, Open, WriteLine, Close, Catch, Terminate
<1>4. jobs' = jobs \/ \E r : Becomes(j, r)
  BY DEF JobStep, RunCommand, EndWalk, Open, WriteLine, Close, Catch, Terminate
<1> QED
  BY <1>1, <1>2, <1>3, <1>4, FreshGoesOn

LEMMA StartInstruoIsFresh ==
  ASSUME TInv, QueueIsFresh, StartInstruo
  PROVE  QueueIsFresh'
<1>1. /\ exit = "starting" /\ input.program = "instruo"
      /\ exit' = CommandLineEnds(input.options, input.repository)
      /\ queue' = IF exit' = "running" THEN input.ids ELSE <<>>
      /\ UNCHANGED <<input, jobs>>
  BY DEF StartInstruo
<1>2. exit' # "starting"
  BY <1>1 DEF CommandLineEnds
<1>3. input.ids \in Seq(Packages) /\ IsInjective(input.ids)
  BY <1>1, InputsAssumption DEF TInv
<1>4. \A k \in DOMAIN input.ids : jobs[input.ids[k]].stage = "none"
  BY <1>1, <1>3 DEF QueueIsFresh, Jobs
<1> QED
  BY <1>1, <1>2, <1>3, <1>4 DEF QueueIsFresh

LEMMA MainStepIsRight ==
  ASSUME TInv, QueueIsFresh, MainStep
  PROVE  TInv' /\ QueueIsFresh'
<1>1. CASE StartInstruo
  BY <1>1, StartInstruoIsRight, StartInstruoIsFresh
<1>2. CASE Schedule
  BY <1>2, ScheduleIsRight
<1>3. CASE StartScript
  <2>1. input.program # "instruo" /\ exit' # "starting" /\ input' = input
    BY <1>3 DEF StartScript, ScriptPrograms
  <2> QED
    BY <1>3, <2>1, StartScriptIsRight DEF QueueIsFresh
<1>4. CASE Join \/ EndScript \/ EndAstPrinter
  <2>1. exit' = "success"
    BY <1>4 DEF Join, EndScript, EndAstPrinter
  <2> QED
    BY <1>4, <2>1, EndsAreRight DEF QueueIsFresh
<1>5. CASE StartAstPrinter \/ PrintFile
  <2>1. input.program = "ast_printer" /\ exit' # "starting" /\ input' = input
    BY <1>5 DEF StartAstPrinter, PrintFile, OptionsEnd
  <2> QED
    BY <1>5, <2>1, AstPrinterIsRight DEF QueueIsFresh
<1> QED
  BY <1>1, <1>2, <1>3, <1>4, <1>5 DEF MainStep

LEMMA NextIsRight ==
  ASSUME TInv, QueueIsFresh, CommandsDo, [Next]_vars
  PROVE  TInv' /\ QueueIsFresh'
<1>1. CASE UNCHANGED vars
  <2>1. UNCHANGED <<input, exit, queue, jobs, caches, directories, reports>>
    BY <1>1 DEF vars
  <2>2. JobsAreRight'
    BY <2>1, JobsStay DEF TInv
  <2>3. PlacesAreRight' /\ QueueIsFresh'
    BY <2>1 DEF TInv, PlacesAreRight, QueueIsFresh
  <2> QED
    BY <2>1, <2>2, <2>3 DEF TInv
<1>2. CASE MainStep
  BY <1>2, MainStepIsRight
<1>3. ASSUME NEW id \in Packages, StartTask(id) PROVE TInv' /\ QueueIsFresh'
  <2>1. /\ exit = "running" /\ jobs[id].stage = "queued" /\ Becomes(id, Started(id))
        /\ UNCHANGED <<input, queue, exit>> /\ id \in Jobs
    BY <1>3 DEF StartTask, Jobs
  <2> QED
    BY <1>3, <2>1, StartTaskIsRight, FreshGoesOn
<1>4. ASSUME NEW j \in Jobs, JobStep(j) PROVE TInv' /\ QueueIsFresh'
  BY <1>4, JobStepIsRight, JobStepIsFresh
<1> QED
  BY <1>1, <1>2, <1>3, <1>4 DEF Next, Terminated

----------------------------------------------------------------------------
(* What commands do: removals from words.                                  *)

LEMMA Associates ==
  ASSUME NEW a \in Seq(Nat), NEW b \in Seq(Nat), NEW c \in Seq(Nat)
  PROVE  (a \o b) \o c = a \o (b \o c)
BY ConcatAssociative

\* A function that copies the characters m to t - 1 in front of what it has at t.
LEMMA CopiesUpTo ==
  ASSUME NEW word \in Words, NEW f \in [1..(Len(word) + 1) -> Words],
         NEW t \in 1..(Len(word) + 1), NEW m \in 1..t,
         \A i \in m..(t - 1) : f[i] = <<word[i]>> \o f[i + 1]
  PROVE  f[m] = SubSeq(word, m, t - 1) \o f[t]
<1> DEFINE Copied(i) == SubSeq(word, i, t - 1) \o f[t]
           Differ == {i \in m..t : f[i] # Copied(i)}
<1> SUFFICES ASSUME Differ # {} PROVE FALSE
  <2>1. m \in m..t
    OBVIOUS
  <2> QED
    BY <2>1
<1>1. Len(word) \in Nat /\ word \in Seq(Nat) /\ t \in Nat /\ m \in Nat
  <2>1. word \in Seq(Nat)
    BY WordFacts
  <2>2. Len(word) \in Nat
    BY <2>1
  <2> QED
    BY <2>1, <2>2
<1>2. f[t] \in Seq(Nat)
  BY WordFacts
<1>3. f[t] = Copied(t)
  <2>1. SubSeq(word, t, t - 1) = <<>>
    BY <1>1, SubSeqEmpty
  <2> QED
    BY <1>2, <2>1, ConcatEmptySeq
<1>4. Differ \subseteq 0..t
  BY <1>1
<1>5. Max(Differ) \in Differ /\ \A i \in Differ : Max(Differ) >= i
  <2> HIDE DEF Differ
  <2> QED
    BY <1>1, <1>4, MaxFacts
<1>6. PICK k \in Differ : \A i \in Differ : k >= i
  BY <1>5
<1>7. k \in m..t /\ f[k] # Copied(k) /\ k # t
  BY <1>3
<1>8. k + 1 \notin Differ
  <2>1. ~(k >= k + 1)
    BY <1>1, <1>7
  <2> HIDE DEF Differ
  <2> QED
    BY <1>6, <2>1
<1>9. k \in m..(t - 1) /\ k + 1 \in m..t /\ k \in 1..Len(word) /\ t - 1 \in k..Len(word)
  BY <1>1, <1>7
<1>10. f[k + 1] = Copied(k + 1)
  BY <1>8, <1>9
<1>11. f[k] = <<word[k]>> \o f[k + 1]
  BY <1>9
<1>12. SubSeq(word, k, t - 1) = <<word[k]>> \o SubSeq(word, k + 1, t - 1)
  BY <1>1, <1>9, SubSeqRecursiveFirst
<1> DEFINE head == <<word[k]>>
           middle == SubSeq(word, k + 1, t - 1)
           rest == f[t]
<1>13. <<word[k]>> \in Seq(Nat) /\ SubSeq(word, k + 1, t - 1) \in Seq(Nat)
  <2> HIDE DEF Differ, Copied
  <2>1. k + 1 \in Nat \ {0} /\ t - 1 \in Int /\ t - 1 <= Len(word)
    BY <1>1, <1>9
  <2>2. SubSeq(word, k + 1, t - 1) \in Seq(Nat)
    BY <1>1, <2>1, SubSeqType
  <2>3. word[k] \in Nat
    BY <1>1, <1>9
  <2> QED
    BY <2>2, <2>3
<1>14. (head \o middle) \o rest = head \o (middle \o rest)
  <2>1. head \in Seq(Nat) /\ middle \in Seq(Nat) /\ rest \in Seq(Nat)
    BY <1>2, <1>13
  <2> HIDE DEF head, middle, rest
  <2> QED
    BY <2>1, Associates
<1>15. f[k] = Copied(k)
  BY <1>10, <1>11, <1>12, <1>14, Zenon
<1> QED
  BY <1>7, <1>15

\* The positions of a match at the end of a word, or at its start.
Heads(word, pattern) == {i \in 1..Len(word) : SubSeq(word, 1, i) \in pattern}
Tails(word, pattern) == {i \in 1..Len(word) : From(word, i) \in pattern}

LEMMA ExtremesFacts ==
  ASSUME NEW word \in Words, NEW S \in SUBSET (1..Len(word)), S # {}
  PROVE  /\ Min(S) \in S /\ \A i \in S : Min(S) <= i
         /\ Max(S) \in S /\ \A i \in S : Max(S) >= i
<1>1. Len(word) \in Nat /\ S \subseteq Nat /\ S \subseteq 0..Len(word)
  BY WordFacts
<1> QED
  BY <1>1, MinFacts, MaxFacts

\* A removal at the start that finds nothing, and one that does.
LEMMA ReplaceAtStart ==
  ASSUME NEW word \in Words, NEW pattern \in SUBSET Words, NEW greedy \in BOOLEAN,
         NEW replacement \in Words, NEW new,
         new = replace_all(word, pattern, greedy, TRUE, FALSE, replacement)
  PROVE  /\ Heads(word, pattern) = {} => new = word
         /\ Heads(word, pattern) # {} =>
               new = replacement \o From(word, Chosen(Heads(word, pattern), greedy) + 1)
<1> DEFINE n == Len(word)
           H == Heads(word, pattern)
           At(i) == MatchesAt(word, i, pattern, TRUE, FALSE)
<1>1. n \in Nat /\ word \in Seq(Nat)
  BY WordFacts
<1>2. PICK f : ReplaceComputes(word, pattern, greedy, TRUE, FALSE, replacement, f)
  BY ReplaceUnfolds
<1>3. f \in [1..(n + 1) -> Words] /\ f[n + 1] = Empty /\ new = f[1]
  BY <1>2 DEF ReplaceComputes
<1>4. At(1) = H
  BY <1>1 DEF MatchesAt, Heads
<1>5. \A i \in 2..n : At(i) = {}
  BY <1>1 DEF MatchesAt
<1>6. ASSUME NEW i \in 1..n, At(i) = {} PROVE f[i] = <<word[i]>> \o f[i + 1]
  BY <1>2, <1>6 DEF ReplaceComputes, ReplaceNext, ReplacePiece
<1>7. ASSUME NEW i \in 1..(n + 1), i > 1 \/ H = {} PROVE f[i] = From(word, i)
  <2> DEFINE t == n + 1
  <2>1. \A k \in i..n : f[k] = <<word[k]>> \o f[k + 1]
    <3>1. ASSUME NEW k \in i..n PROVE k \in 1..n /\ (k = 1 \/ k \in 2..n) /\ (k = 1 => H = {})
      BY <1>1, <1>7
    <3>2. ASSUME NEW k \in i..n PROVE At(k) = {}
      <4>1. CASE k = 1
        BY <1>4, <3>1, <4>1
      <4>2. CASE k \in 2..n
        BY <1>5, <4>2
      <4> HIDE DEF At, H
      <4> QED
        BY <3>1, <4>1, <4>2
    <3> HIDE DEF At, H
    <3> QED
      BY <1>6, <3>1, <3>2
  <2>2. t - 1 = n /\ t \in 1..(n + 1) /\ i \in 1..t
    BY <1>1
  <2>3. f[i] = SubSeq(word, i, t - 1) \o f[t]
    <3>1. \A k \in i..(t - 1) : f[k] = <<word[k]>> \o f[k + 1]
      BY <2>1, <2>2
    <3> HIDE DEF t
    <3> QED
      BY <1>3, <2>2, <3>1, CopiesUpTo
  <2>4. SubSeq(word, i, n) \in Seq(Nat)
    BY <1>1, SubSeqType
  <2>5. SubSeq(word, i, n) \o <<>> = SubSeq(word, i, n)
    BY <2>4, ConcatEmptySeq
  <2> QED
    BY <1>3, <2>2, <2>3, <2>5, WordsAreCodes DEF From
<1>8. CASE H = {}
  <2>1. 1 \in 1..(n + 1)
    BY <1>1
  <2>2. f[1] = From(word, 1)
    BY <1>7, <1>8, <2>1
  <2> QED
    BY <1>1, <1>3, <1>8, <2>2, SubSeqFull DEF From
<1>9. CASE H # {}
  <2> DEFINE c == Chosen(H, greedy)
  <2>1. H \in SUBSET (1..n)
    BY DEF Heads
  <2>2. c \in 1..n
    <3> HIDE DEF H
    <3> QED
      BY <1>9, <2>1, ExtremesFacts DEF Chosen
  <2> HIDE DEF H, c
  <2>3. 1 \in 1..n /\ 1 + c = c + 1 /\ c + 1 \in 1..(n + 1) /\ c + 1 > 1
    BY <1>1, <2>2
  <2>4. f[1] = replacement \o f[1 + c]
    <3>1. ReplaceNext(word, pattern, greedy, TRUE, FALSE, replacement, 1) = 1 + c
      BY <1>4, <1>9 DEF ReplaceNext, c
    <3>2. f[1] = ReplacePiece(word, pattern, greedy, TRUE, FALSE, replacement, 1, f[1 + c])
      BY <1>2, <2>3, <3>1 DEF ReplaceComputes
    <3> QED
      BY <1>4, <1>9, <3>2 DEF ReplacePiece
  <2>5. f[c + 1] = From(word, c + 1)
    BY <1>7, <2>3
  <2> QED
    BY <1>3, <1>9, <2>3, <2>4, <2>5 DEF H, c
<1> QED
  BY <1>8, <1>9

\* A removal at the end that takes the longest match.
LEMMA ReplaceAtEnd ==
  ASSUME NEW word \in Words, NEW pattern \in SUBSET Words, NEW replacement \in Words, NEW new,
         new = replace_all(word, pattern, TRUE, FALSE, TRUE, replacement)
  PROVE  /\ Tails(word, pattern) = {} => new = word
         /\ Tails(word, pattern) # {} => new = UpTo(word, Min(Tails(word, pattern))) \o replacement
<1> DEFINE n == Len(word)
           T == Tails(word, pattern)
           At(i) == MatchesAt(word, i, pattern, FALSE, TRUE)
<1>1. n \in Nat /\ word \in Seq(Nat)
  BY WordFacts
<1>2. PICK f : ReplaceComputes(word, pattern, TRUE, FALSE, TRUE, replacement, f)
  BY ReplaceUnfolds
<1>3. f \in [1..(n + 1) -> Words] /\ f[n + 1] = Empty /\ new = f[1]
  BY <1>2 DEF ReplaceComputes
<1>4. ASSUME NEW i \in 1..n, NEW l \in At(i) PROVE i + l = n + 1 /\ i \in T
  <2>1. l \in 1..(n - i + 1) /\ SubSeq(word, i, i + l - 1) \in pattern /\ i + l - 1 = n
    BY <1>4 DEF MatchesAt
  <2>2. i + l = n + 1
    BY <1>1, <2>1
  <2> QED
    BY <2>1, <2>2 DEF Tails, From
<1>5. ASSUME NEW i \in T PROVE i \in 1..n /\ At(i) # {}
  <2>1. i \in 1..n /\ SubSeq(word, i, n) \in pattern
    BY DEF Tails, From
  <2>2. n - i + 1 \in 1..(n - i + 1) /\ i + (n - i + 1) - 1 = n
    BY <1>1, <2>1
  <2>3. n - i + 1 \in At(i)
    BY <2>1, <2>2 DEF MatchesAt
  <2> QED
    BY <2>1, <2>3
<1>6. ASSUME NEW i \in (1..n) \ T PROVE f[i] = <<word[i]>> \o f[i + 1]
  <2>1. At(i) = {}
    BY <1>4, <1>6
  <2> QED
    BY <1>2, <1>6, <2>1 DEF ReplaceComputes, ReplaceNext, ReplacePiece
<1>7. ASSUME NEW i \in T PROVE f[i] = replacement
  <2>1. i \in 1..n /\ At(i) # {}
    BY <1>5
  <2> DEFINE c == Chosen(At(i), TRUE)
  <2>2. c \in At(i)
    <3>1. At(i) \in SUBSET (1..(n - i + 1))
      BY DEF MatchesAt
    <3> DEFINE last == n - i + 1
    <3>2. last \in Nat
      BY <1>1, <2>1
    <3> HIDE DEF At, last
    <3>3. At(i) \in SUBSET (1..last)
      BY <3>1 DEF last
    <3>4. At(i) \subseteq 0..last
      BY <3>2, <3>3
    <3> QED
      BY <2>1, <3>2, <3>4, MaxFacts DEF Chosen
  <2>3. i + c = n + 1
    BY <1>4, <2>1, <2>2
  <2> HIDE DEF c
  <2>4. ReplaceNext(word, pattern, TRUE, FALSE, TRUE, replacement, i) = i + c
    BY <2>1 DEF ReplaceNext, c
  <2>5. f[i] = ReplacePiece(word, pattern, TRUE, FALSE, TRUE, replacement, i, f[i + c])
    BY <1>2, <2>1, <2>4 DEF ReplaceComputes
  <2>6. f[i] = replacement \o f[n + 1]
    BY <2>1, <2>3, <2>5 DEF ReplacePiece
  <2>7. replacement \in Seq(Nat)
    BY WordFacts
  <2> QED
    BY <1>3, <2>6, <2>7, WordsAreCodes, ConcatEmptySeq
<1> HIDE DEF At
<1>8. ASSUME NEW t \in 1..(n + 1), \A i \in 1..(t - 1) : i \notin T
      PROVE  new = SubSeq(word, 1, t - 1) \o f[t]
  <2>1. 1 \in 1..t
    BY <1>8
  <2>2. \A i \in 1..(t - 1) : i \in (1..n) \ T
    BY <1>1, <1>8
  <2> HIDE DEF T
  <2>3. \A i \in 1..(t - 1) : f[i] = <<word[i]>> \o f[i + 1]
    BY <1>6, <2>2
  <2> QED
    BY <1>3, <2>1, <2>3, CopiesUpTo
<1>9. CASE T = {}
  <2> DEFINE t == n + 1
  <2>1. t \in 1..(n + 1) /\ t - 1 = n
    BY <1>1
  <2>2. new = SubSeq(word, 1, t - 1) \o f[t]
    <3> HIDE DEF t, T
    <3> QED
      BY <1>8, <1>9, <2>1
  <2>3. new = SubSeq(word, 1, n) \o <<>>
    BY <1>3, <2>1, <2>2, WordsAreCodes
  <2> QED
    BY <1>1, <1>9, <2>3, SubSeqFull, ConcatEmptySeq
<1>10. CASE T # {}
  <2> DEFINE t == Min(T)
  <2>1. T \in SUBSET (1..n)
    BY DEF Tails
  <2> HIDE DEF T
  <2>2. t \in T /\ \A i \in T : t <= i
    BY <1>10, <2>1, ExtremesFacts
  <2> HIDE DEF t
  <2>3. t \in 1..(n + 1) /\ \A i \in 1..(t - 1) : i \notin T
    BY <1>1, <2>1, <2>2
  <2>4. new = SubSeq(word, 1, t - 1) \o f[t]
    BY <1>8, <2>3
  <2>5. f[t] = replacement
    BY <1>7, <2>2
  <2> QED
    BY <1>10, <2>4, <2>5 DEF UpTo, T, t
<1> QED
  BY <1>9, <1>10

\* A removal at the end that takes the shortest match.
LEMMA LazyAtEnd ==
  ASSUME NEW word \in Words, NEW pattern \in SUBSET Words, Empty \notin pattern, NEW new,
         new = lazy_remove_at_end(word, pattern)
  PROVE  /\ Tails(word, pattern) = {} => new = word
         /\ Tails(word, pattern) # {} => new = UpTo(word, Max(Tails(word, pattern)))
<1> DEFINE n == Len(word)
           T == Tails(word, pattern)
           K == {k \in 0..Len(word) : SubSeq(word, k + 1, Len(word)) \in pattern}
<1>1. n \in Nat
  BY WordFacts
<1>2. new = IF K = {} THEN word ELSE SubSeq(word, 1, Max(K))
  BY DEF lazy_remove_at_end
<1>3. ASSUME NEW k \in K PROVE k + 1 \in T
  <2>1. k \in 0..n /\ SubSeq(word, k + 1, n) \in pattern
    OBVIOUS
  <2>2. k # n
    <3>1. SubSeq(word, n + 1, n) = <<>>
      BY <1>1, SubSeqEmpty
    <3> QED
      BY <2>1, <3>1, WordsAreCodes
  <2>3. k + 1 \in 1..n
    BY <1>1, <2>1, <2>2
  <2> QED
    BY <2>1, <2>3 DEF Tails, From
<1>4. ASSUME NEW i \in T PROVE i - 1 \in K
  <2>1. i \in 1..n /\ SubSeq(word, i, n) \in pattern
    BY DEF Tails, From
  <2>2. i - 1 \in 0..n /\ i - 1 + 1 = i
    BY <1>1, <2>1
  <2> QED
    BY <2>1, <2>2
<1>5. K \subseteq 0..n /\ T \in SUBSET (1..n)
  BY DEF Tails
<1> HIDE DEF K, T
<1>6. CASE T = {}
  BY <1>2, <1>3, <1>6 DEF T
<1>7. CASE T # {}
  <2> DEFINE t == Max(T)
             k == Max(K)
  <2>1. t \in T /\ \A i \in T : t >= i
    BY <1>5, <1>7, ExtremesFacts
  <2>2. K # {}
    BY <1>4, <1>7
  <2>3. k \in K /\ \A i \in K : k >= i
    BY <1>1, <1>5, <2>2, MaxFacts
  <2> HIDE DEF t, k
  <2>4. t >= k + 1 /\ k >= t - 1
    BY <1>3, <1>4, <2>1, <2>3
  <2>5. k = t - 1
    BY <1>1, <1>5, <2>1, <2>3, <2>4
  <2> QED
    BY <1>2, <1>7, <2>2, <2>5 DEF UpTo, T, t, k
<1> QED
  BY <1>6, <1>7

\* Every removal takes the match that it should.
LEMMA ReplacerRemoves ==
  ASSUME NEW e, IsExpansion(e), e.how = "replace", NEW old \in Words, NEW new,
         new = replacer(e.operator, old, e.pattern, e.word)
  PROVE  Removes(e, old, new)
<1>1. /\ e.word \in Words /\ e.operator \in Operators
      /\ e.pattern \in SUBSET Words /\ Empty \notin e.pattern
  BY DEF IsExpansion, Operators
<1> DEFINE pattern == e.pattern
           word == e.word
           heads == Heads(old, pattern)
           tails == Tails(old, pattern)
<1>7. word \in Words /\ pattern \in SUBSET Words /\ Empty \notin pattern
  BY <1>1
<1>8. new = replacer(e.operator, old, pattern, word)
  OBVIOUS
<1> HIDE DEF pattern, word
<1>2. ASSUME e.operator = "LAZY_REMOVE_AT_START", word = Empty
      PROVE  IF heads = {} THEN new = old ELSE new = From(old, Min(heads) + 1)
  <2>1. new = replace_all(old, pattern, FALSE, TRUE, FALSE, word)
    BY <1>2, <1>8 DEF replacer
  <2>2. /\ heads = {} => new = old
        /\ heads # {} => new = word \o From(old, Chosen(heads, FALSE) + 1)
    BY <1>7, <2>1, ReplaceAtStart
  <2>3. CASE heads # {}
    <3> DEFINE i == Min(heads) + 1
    <3>1. i \in Nat \ {0}
      <4>1. heads \in SUBSET (1..Len(old)) /\ Len(old) \in Nat
        BY WordFacts DEF Heads
      <4> HIDE DEF heads
      <4>2. Min(heads) \in 1..Len(old)
        BY <2>3, <4>1, ExtremesFacts
      <4> QED
        BY <4>1, <4>2
    <3> HIDE DEF i
    <3>2. From(old, i) \in Seq(Nat)
      <4>1. old \in Seq(Nat) /\ Len(old) \in Int /\ Len(old) <= Len(old)
        BY WordFacts
      <4> QED
        BY <3>1, <4>1, SubSeqType DEF From
    <3>3. <<>> \o From(old, i) = From(old, i)
      BY <3>2, ConcatEmptySeq
    <3>4. new = word \o From(old, i)
      BY <2>2, <2>3 DEF Chosen, i
    <3> QED
      BY <1>2, <2>3, <3>3, <3>4, WordsAreCodes DEF i
  <2> QED
    BY <2>2, <2>3
<1>3. ASSUME e.operator = "REPLACE_AT_START"
      PROVE  IF heads = {} THEN new = old ELSE new = word \o From(old, Max(heads) + 1)
  <2>1. new = replace_all(old, pattern, TRUE, TRUE, FALSE, word)
    BY <1>3, <1>8 DEF replacer
  <2>2. /\ heads = {} => new = old
        /\ heads # {} => new = word \o From(old, Chosen(heads, TRUE) + 1)
    BY <1>7, <2>1, ReplaceAtStart
  <2> QED
    BY <2>2 DEF Chosen
<1>4. ASSUME e.operator = "LAZY_REMOVE_AT_END"
      PROVE  IF tails = {} THEN new = old ELSE new = UpTo(old, Max(tails))
  <2>1. new = lazy_remove_at_end(old, pattern)
    BY <1>4, <1>8 DEF replacer
  <2> QED
    BY <1>7, <2>1, LazyAtEnd
<1>5. ASSUME e.operator = "REPLACE_AT_END"
      PROVE  IF tails = {} THEN new = old ELSE new = UpTo(old, Min(tails)) \o word
  <2>1. new = replace_all(old, pattern, TRUE, FALSE, TRUE, word)
    BY <1>5, <1>8 DEF replacer
  <2> QED
    BY <1>7, <2>1, ReplaceAtEnd
<1> HIDE DEF heads, tails
<1>6. /\ heads = {i \in 1..Len(old) : SubSeq(old, 1, i) \in pattern}
      /\ tails = {i \in 1..Len(old) : From(old, i) \in pattern}
  BY DEF Heads, Tails, heads, tails
<1> QED
  BY <1>2, <1>3, <1>4, <1>5, <1>6 DEF Removes, pattern, word

----------------------------------------------------------------------------
(* The order in which a set of numbers is iterated over.                   *)

\* How many of them come no later than i.
Rank(S, i) == Cardinality({j \in S : j <= i})

LEMMA RankFacts ==
  ASSUME NEW n \in Nat, NEW S \in SUBSET (0..n)
  PROVE  /\ IsFiniteSet(S) /\ Cardinality(S) \in Nat
         /\ \A i \in Nat : Rank(S, i) \in 0..Cardinality(S)
         /\ \A i \in S : Rank(S, i) \in 1..Cardinality(S)
         /\ \A i, j \in S : i < j => Rank(S, i) < Rank(S, j)
         /\ \A i \in Nat : Rank(S, i + 1) = IF i + 1 \in S THEN Rank(S, i) + 1 ELSE Rank(S, i)
<1> DEFINE Upto(i) == {j \in S : j <= i}
<1>0. \A j \in S : j \in Nat
  OBVIOUS
<1>1. IsFiniteSet(S) /\ Cardinality(S) \in Nat
  <2>1. IsFiniteSet(0..n)
    BY FS_Interval
  <2> QED
    BY <2>1, FS_Subset, FS_CardinalityType
<1>2. \A i \in Nat : /\ Upto(i) \subseteq S /\ IsFiniteSet(Upto(i))
                     /\ Cardinality(Upto(i)) \in Nat /\ Cardinality(Upto(i)) <= Cardinality(S)
  <2>1. \A i \in Nat : Upto(i) \in SUBSET S
    OBVIOUS
  <2> HIDE DEF Upto
  <2> QED
    BY <1>1, <2>1, FS_Subset, FS_CardinalityType
<1>3. \A i \in Nat : Rank(S, i) = Cardinality(Upto(i))
  BY DEF Rank
<1>4. \A i \in Nat : Rank(S, i) \in 0..Cardinality(S)
  <2> HIDE DEF Upto
  <2> QED
    BY <1>1, <1>2, <1>3
<1>5. ASSUME NEW i \in S PROVE Rank(S, i) \in 1..Cardinality(S)
  <2>1. Upto(i) # {} /\ i \in Nat
    BY <1>0
  <2> HIDE DEF Upto
  <2>2. Cardinality(Upto(i)) # 0
    BY <1>2, <2>1, FS_EmptySet
  <2> QED
    BY <1>1, <1>2, <1>3, <2>1, <2>2
<1>6. ASSUME NEW i \in S, NEW j \in S, i < j PROVE Rank(S, i) < Rank(S, j)
  <2>0. i \in Nat /\ j \in Nat
    BY <1>0
  <2>1. Upto(i) \in SUBSET Upto(j)
    <3>1. \A x \in Upto(i) : x \in S /\ x <= j
      BY <1>0, <1>6, <2>0
    <3> QED
      BY <3>1
  <2>2. Upto(i) # Upto(j)
    <3>1. ~(j <= i) /\ j <= j
      BY <1>6, <2>0
    <3>2. j \notin Upto(i) /\ j \in Upto(j)
      BY <3>1
    <3> QED
      BY <3>2
  <2> HIDE DEF Upto
  <2>3. /\ Cardinality(Upto(i)) <= Cardinality(Upto(j))
        /\ Cardinality(Upto(i)) # Cardinality(Upto(j))
    BY <1>2, <2>0, <2>1, <2>2, FS_Subset
  <2> QED
    BY <1>2, <1>3, <2>0, <2>3
<1>7. ASSUME NEW i \in Nat
      PROVE  Rank(S, i + 1) = IF i + 1 \in S THEN Rank(S, i) + 1 ELSE Rank(S, i)
  <2>1. i + 1 \in Nat
    OBVIOUS
  <2>2. CASE i + 1 \in S
    <3>1. Upto(i + 1) = Upto(i) \cup {i + 1} /\ i + 1 \notin Upto(i)
      <4>1. \A j \in S : (j <= i + 1) <=> (j <= i \/ j = i + 1)
        BY <1>0
      <4>2. ~(i + 1 <= i)
        OBVIOUS
      <4> QED
        BY <2>2, <4>1, <4>2
    <3> HIDE DEF Upto
    <3>2. Cardinality(Upto(i + 1)) = Cardinality(Upto(i)) + 1
      BY <1>2, <3>1, FS_AddElement
    <3> QED
      BY <1>3, <2>1, <2>2, <3>2
  <2>3. CASE i + 1 \notin S
    <3>1. Upto(i + 1) = Upto(i)
      <4>1. \A j \in S : (j <= i + 1) <=> (j <= i)
        BY <1>0, <2>3
      <4> QED
        BY <4>1
    <3> QED
      BY <1>3, <2>1, <2>3, <3>1
  <2> QED
    BY <2>2, <2>3
<1> QED
  BY <1>1, <1>4, <1>5, <1>6, <1>7

LEMMA AscendingRank ==
  ASSUME NEW n \in Nat, NEW S \in SUBSET (0..n)
  PROVE  /\ Ascending(S) \in [1..Cardinality(S) -> S]
         /\ \A k \in 1..Cardinality(S) : Rank(S, Ascending(S)[k]) = k
BY AscendingType DEF Rank

----------------------------------------------------------------------------
(* Splitting: words that become the runs of characters between separators. *)

\* The words that split has made of the characters of word from a on, behind each of
\* them; a and b are what trim_if leaves.
Splitting(f, word, seps, a, b) ==
    /\ a \in 1..Len(word) /\ b \in a..Len(word)
    /\ word[a] \notin seps /\ word[b] \notin seps
    /\ \A i \in 1..Len(word) : i < a \/ i > b => word[i] \in seps
    /\ f \in [a..b -> Seq(Words)]
    /\ f[a] = <<<<word[a]>>>>
    /\ \A i \in a..(b - 1) :
          f[i + 1] = IF word[i + 1] \notin seps
                     THEN Append(Front(f[i]), Append(Last(f[i]), word[i + 1]))
                     ELSE IF word[i] \in seps THEN f[i] ELSE Append(f[i], Empty)

\* chars are the characters of a run from i to e, the last one up to p.
EndsRun(chars, word, seps, i, e, p) ==
    /\ chars = SubSeq(word, i, e)
    /\ \A m \in i..e : word[m] \notin seps
    /\ e < p => word[e + 1] \in seps

\* words are the runs that start up to p, cut behind p, and an empty word behind a separator.
Chopped(words, word, seps, p) ==
    LET starts == RunStarts(word, seps) IN
    /\ Len(words) = Rank(starts, p) + (IF word[p] \in seps THEN 1 ELSE 0)
    /\ word[p] \in seps => words[Len(words)] = Empty
    /\ \A i \in starts : i <= p =>
          \E e \in i..p : EndsRun(words[Rank(starts, i)], word, seps, i, e, p)

LEMMA StartsFacts ==
  ASSUME NEW word \in Words, NEW seps
  PROVE  /\ Len(word) \in Nat /\ \A i \in 1..Len(word) : word[i] \in Nat
         /\ RunStarts(word, seps) \in SUBSET (0..Len(word))
         /\ \A i \in RunStarts(word, seps) :
               i \in 1..Len(word) /\ word[i] \notin seps /\ (i # 1 => word[i - 1] \in seps)
         /\ \A i \in 1..Len(word) :
               word[i] \notin seps /\ (i # 1 => word[i - 1] \in seps) => i \in RunStarts(word, seps)
<1>1. Len(word) \in Nat /\ DOMAIN word = 1..Len(word) /\ word \in Seq(Nat)
  BY WordFacts
<1> QED
  BY <1>1 DEF RunStarts

LEMMA RanksOfStarts ==
  ASSUME NEW word \in Words, NEW seps
  PROVE  LET starts == RunStarts(word, seps) IN
         /\ IsFiniteSet(starts) /\ Cardinality(starts) \in Nat
         /\ \A i \in Nat : Rank(starts, i) \in Nat
         /\ \A i \in starts : Rank(starts, i) \in 1..Cardinality(starts)
         /\ \A i, j \in starts : i < j => Rank(starts, i) < Rank(starts, j)
         /\ \A i \in Nat : Rank(starts, i + 1) = IF i + 1 \in starts THEN Rank(starts, i) + 1
                                                ELSE Rank(starts, i)
<1> DEFINE starts == RunStarts(word, seps)
           n == Len(word)
<1>1. n \in Nat /\ starts \in SUBSET (0..n)
  BY StartsFacts
<1> HIDE DEF starts, n
<1>2. /\ IsFiniteSet(starts) /\ Cardinality(starts) \in Nat
      /\ \A i \in Nat : Rank(starts, i) \in 0..Cardinality(starts)
      /\ \A i \in starts : Rank(starts, i) \in 1..Cardinality(starts)
      /\ \A i, j \in starts : i < j => Rank(starts, i) < Rank(starts, j)
      /\ \A i \in Nat : Rank(starts, i + 1) = IF i + 1 \in starts THEN Rank(starts, i) + 1
                                             ELSE Rank(starts, i)
  BY <1>1, RankFacts
<1>3. \A i \in Nat : Rank(starts, i) \in Nat
  BY <1>2
<1> QED
  BY <1>2, <1>3 DEF starts

\* The run to which character p belongs is the last one that has started.
LEMMA CurrentRun ==
  ASSUME NEW word \in Words, NEW seps, NEW p \in 1..Len(word), word[p] \notin seps
  PROVE  \E c \in RunStarts(word, seps) :
            /\ c <= p
            /\ \A i \in RunStarts(word, seps) : i <= p => i <= c
            /\ \A m \in c..p : word[m] \notin seps
            /\ Rank(RunStarts(word, seps), c) = Rank(RunStarts(word, seps), p)
<1> DEFINE starts == RunStarts(word, seps)
           Free == {c \in 1..p : \A m \in c..p : word[m] \notin seps}
<1>1. Len(word) \in Nat /\ p \in Nat
  BY StartsFacts
<1>2. Free \subseteq Nat /\ Free # {}
  <2>1. p \in Free
    BY <1>1
  <2> QED
    BY <2>1
<1>3. PICK c \in Free : \A d \in Free : c <= d
  <2> HIDE DEF Free
  <2> QED
    BY <1>2, LeastExists
<1>4. c \in 1..p /\ c \in 1..Len(word) /\ \A m \in c..p : word[m] \notin seps
  BY <1>1
<1>5. c # 1 => word[c - 1] \in seps
  <2> SUFFICES ASSUME c # 1, word[c - 1] \notin seps PROVE FALSE
    OBVIOUS
  <2>1. \A m \in (c - 1)..p : m = c - 1 \/ m \in c..p
    BY <1>1, <1>4
  <2>2. c - 1 \in Free
    BY <1>1, <1>4, <2>1
  <2> QED
    BY <1>3, <1>4, <2>2
<1>6. c \in starts
  <2>1. word[c] \notin seps
    BY <1>1, <1>4
  <2> QED
    BY <1>4, <1>5, <2>1, StartsFacts
<1>7. ASSUME NEW i \in starts, i <= p PROVE i <= c
  <2> SUFFICES ASSUME i > c PROVE FALSE
    BY <1>4, StartsFacts
  <2>1. i \in 1..Len(word) /\ (i # 1 => word[i - 1] \in seps)
    BY StartsFacts
  <2>2. i # 1 /\ i - 1 \in c..p
    BY <1>1, <1>4, <1>7, <2>1
  <2> QED
    BY <1>4, <2>1, <2>2
<1>8. Rank(starts, c) = Rank(starts, p)
  <2>1. \A j \in starts : j \in Nat
    BY StartsFacts
  <2> HIDE DEF starts
  <2>2. {j \in starts : j <= c} = {j \in starts : j <= p}
    BY <1>1, <1>4, <1>7, <2>1
  <2> QED
    BY <2>2 DEF Rank
<1> QED
  BY <1>4, <1>6, <1>7, <1>8

LEMMA ReplaceLast ==
  ASSUME NEW words \in Seq(Words), words # <<>>, NEW x \in Words
  PROVE  LET new == Append(Front(words), x) IN
         /\ Len(new) = Len(words)
         /\ new[Len(words)] = x
         /\ \A j \in 1..(Len(words) - 1) : new[j] = words[j]
<1> DEFINE front == Front(words)
           n == Len(words)
<1>1. n \in Nat /\ n >= 1 /\ \A j \in 1..n : words[j] \in Words
  OBVIOUS
<1>2. front \in Seq(Words) /\ Len(front) = n - 1
  BY FrontLast
<1>3. \A j \in 1..(n - 1) : front[j] = words[j]
  <2>1. front = SubSeq(words, 1, n - 1)
    BY DEF Front
  <2>2. \A j \in 1..(n - 1) : words[j] \in Words
    BY <1>1
  <2> HIDE DEF front
  <2>3. \A j \in 1..((n - 1) - 1 + 1) : front[j] = words[1 + j - 1]
    BY <1>1, <2>1, <2>2, SubSeqProperties
  <2> QED
    BY <1>1, <2>3
<1> HIDE DEF front
<1>4. Len(Append(front, x)) = n /\ Append(front, x)[n] = x
  BY <1>1, <1>2
<1>5. \A j \in 1..(n - 1) : Append(front, x)[j] = front[j]
  BY <1>1, <1>2
<1> QED
  BY <1>3, <1>4, <1>5 DEF front

LEMMA OneMore ==
  ASSUME NEW word \in Words, NEW c \in 1..Len(word), NEW p \in c..Len(word), p + 1 <= Len(word)
  PROVE  Append(SubSeq(word, c, p), word[p + 1]) = SubSeq(word, c, p + 1)
<1> DEFINE q == p + 1
           s == SubSeq(word, c, p)
<1>1. word \in Seq(Nat) /\ Len(word) \in Nat
  BY WordFacts
<1>2. c \in 1..Len(word) /\ q \in c..Len(word) /\ q - 1 = p
  BY <1>1
<1> HIDE DEF q
<1>3. SubSeq(word, c, q) = SubSeq(word, c, q - 1) \o <<word[q]>>
  BY <1>1, <1>2, SubSeqRecursiveSecond
<1>4. s \in Seq(Nat) /\ word[q] \in Nat
  <2>1. c \in Nat \ {0} /\ p \in Int /\ p <= Len(word)
    BY <1>1
  <2> QED
    BY <1>1, <1>2, <2>1, SubSeqType
<1> HIDE DEF s
<1>5. \A x \in Nat : Append(s, x) = s \o <<x>>
  BY <1>4
<1> QED
  BY <1>2, <1>3, <1>4, <1>5 DEF s, q

LEMMA OneCharacter ==
  ASSUME NEW word \in Words, NEW c \in 1..Len(word)
  PROVE  SubSeq(word, c, c) = <<word[c]>>
<1>1. word \in Seq(Nat) /\ Len(word) \in Nat
  BY WordFacts
<1>2. \A i \in c..c : word[i] \in Nat
  BY <1>1
<1>3. /\ SubSeq(word, c, c) \in Seq(Nat) /\ Len(SubSeq(word, c, c)) = 1
      /\ SubSeq(word, c, c)[1] = word[c]
  <2>1. c \in Int /\ c - c + 1 = 1 /\ c <= c /\ c + 1 - 1 = c /\ 1 \in 1..1
    BY <1>1
  <2> QED
    BY <1>1, <1>2, <2>1, SubSeqProperties
<1> DEFINE s == SubSeq(word, c, c)
<1> HIDE DEF s
<1>4. \A t \in Seq(Nat) : Len(t) = 1 => t = <<t[1]>>
  OBVIOUS
<1> QED
  BY <1>3, <1>4

\* A run that a separator has ended stays.
LEMMA EndedRun ==
  ASSUME NEW word \in Words, NEW seps, NEW p \in 1..Len(word), NEW i \in 1..p,
         NEW e \in i..p, NEW chars, EndsRun(chars, word, seps, i, e, p), e # p
  PROVE  e \in i..(p + 1) /\ EndsRun(chars, word, seps, i, e, p + 1)
<1>1. Len(word) \in Nat
  BY StartsFacts
<1> QED
  BY <1>1 DEF EndsRun

\* What holds of a word and its pieces at p, for the next lemmas.
AtCharacter(words, new, word, seps, p) ==
    /\ word \in Words /\ words \in Seq(Words) /\ new \in Seq(Words)
    /\ p \in 1..Len(word) /\ p + 1 <= Len(word)
    /\ Chopped(words, word, seps, p)

LEMMA ChopInRun ==
  ASSUME NEW words, NEW new, NEW word, NEW seps, NEW p, AtCharacter(words, new, word, seps, p),
         word[p] \notin seps, word[p + 1] \notin seps,
         new = Append(Front(words), Append(Last(words), word[p + 1]))
  PROVE  Chopped(new, word, seps, p + 1)
<1> DEFINE starts == RunStarts(word, seps)
           n == Rank(starts, p)
           q == p + 1
<1>0. word \in Words /\ words \in Seq(Words) /\ p \in 1..Len(word) /\ p + 1 <= Len(word)
  BY DEF AtCharacter
<1>1. Len(word) \in Nat /\ p \in Nat /\ q \in 1..Len(word) /\ q \in Nat /\ q - 1 = p /\ q # 1
  BY <1>0, StartsFacts
<1>2. starts \in SUBSET (0..Len(word))
      /\ \A i \in starts : i \in 1..Len(word) /\ (i # 1 => word[i - 1] \in seps)
  BY <1>0, StartsFacts
<1>3. q \notin starts
  BY <1>1, <1>2
<1>4. Rank(starts, q) = n
  BY <1>0, <1>1, <1>2, <1>3, RanksOfStarts
<1>5. /\ Len(words) = n
      /\ \A i \in starts : i <= p =>
            \E e \in i..p : EndsRun(words[Rank(starts, i)], word, seps, i, e, p)
  <2>1. Len(words) = n + 0
    BY DEF AtCharacter, Chopped
  <2>2. Len(words) \in Nat
    BY <1>0
  <2>3. n \in Nat
    BY <1>0, <1>1, <1>2, RanksOfStarts
  <2> HIDE DEF n
  <2>4. Len(words) = n
    BY <2>1, <2>3
  <2> QED
    BY <2>4 DEF AtCharacter, Chopped
<1>6. PICK c \in starts : /\ c <= p
                          /\ \A i \in starts : i <= p => i <= c
                          /\ \A m \in c..p : word[m] \notin seps
                          /\ Rank(starts, c) = n
  BY <1>0, CurrentRun
<1>7. PICK e \in c..p : EndsRun(words[n], word, seps, c, e, p)
  BY <1>5, <1>6
<1>8. c \in 1..Len(word) /\ c \in Nat /\ n \in Nat /\ n >= 1 /\ words # <<>>
  <2>1. c \in 1..Len(word)
    BY <1>2
  <2>2. n \in 1..Cardinality(starts) /\ Cardinality(starts) \in Nat
    BY <1>0, <1>1, <1>2, <1>6, RanksOfStarts
  <2> HIDE DEF starts, n
  <2>3. Len(words) >= 1
    BY <1>5, <2>2
  <2> QED
    BY <1>0, <1>1, <2>1, <2>2, <2>3
<1>9. words[n] = SubSeq(word, c, p)
  <2>1. e < p => e + 1 \in c..p
    BY <1>1, <1>8
  <2>2. ~(e < p)
    BY <1>6, <1>7, <2>1 DEF EndsRun
  <2>3. e = p
    BY <1>1, <1>8, <2>2
  <2> QED
    BY <1>7, <2>3 DEF EndsRun
<1> DEFINE x == Append(Last(words), word[q])
<1>10. x = SubSeq(word, c, q) /\ x \in Words
  <2>1. Last(words) = words[n]
    BY <1>5, <1>8 DEF Last
  <2>2. p \in c..Len(word)
    BY <1>0, <1>1, <1>6, <1>8
  <2>3. Append(SubSeq(word, c, p), word[p + 1]) = SubSeq(word, c, p + 1)
    BY <1>0, <1>8, <2>2, OneMore
  <2>4. x = SubSeq(word, c, q)
    BY <1>9, <2>1, <2>3
  <2>5. x \in Words
    <3>1. words[n] \in Words /\ word[q] \in Nat
      BY <1>0, <1>1, <1>5, <1>8, StartsFacts
    <3> HIDE DEF q, n
    <3> QED
      BY <2>1, <3>1, AppendType, WordFacts
  <2> QED
    BY <2>4, <2>5
<1> HIDE DEF x
<1>11. Len(new) = n /\ new[n] = x /\ \A j \in 1..(n - 1) : new[j] = words[j]
  <2>1. new = Append(Front(words), x)
    BY DEF x
  <2>2. Len(words) = n
    BY <1>5
  <2>3. words # <<>>
    BY <1>8
  <2>5. x \in Words /\ words \in Seq(Words)
    BY <1>0, <1>10
  <2> HIDE DEF starts, n, q
  <2>4. /\ Len(new) = Len(words)
        /\ new[Len(words)] = x
        /\ \A j \in 1..(Len(words) - 1) : new[j] = words[j]
    BY <2>1, <2>3, <2>5, ReplaceLast
  <2> QED
    BY <2>2, <2>4
<1>12. ASSUME NEW i \in starts, i <= q
       PROVE  \E d \in i..q : EndsRun(new[Rank(starts, i)], word, seps, i, d, q)
  <2>1. i \in 1..Len(word) /\ i <= p /\ i <= c
    <3>1. i \in 1..Len(word) /\ i # q
      BY <1>2, <1>3
    <3>2. i <= p
      BY <1>1, <1>12, <3>1
    <3> QED
      BY <1>6, <3>1, <3>2
  <2>2. CASE i = c
    <3>1. \A m \in c..q : m = q \/ m \in c..p
      BY <1>1, <1>8
    <3>2. EndsRun(new[n], word, seps, c, q, q)
      <4>1. ~(q < q)
        BY <1>1
      <4> QED
        BY <1>6, <1>10, <1>11, <3>1, <4>1 DEF EndsRun
    <3>3. q \in c..q
      BY <1>1, <1>6, <1>8
    <3> QED
      BY <1>6, <2>2, <3>2, <3>3
  <2>3. CASE i # c
    <3>1. i < c /\ c # 1 /\ c - 1 \in i..p
      BY <1>1, <1>6, <1>8, <2>1, <2>3
    <3>2. Rank(starts, i) \in 1..(n - 1)
      <4>1. Rank(starts, i) < Rank(starts, c) /\ Rank(starts, i) \in 1..Cardinality(starts)
        BY <1>0, <1>1, <1>2, <3>1, RanksOfStarts
      <4>2. Cardinality(starts) \in Nat
        BY <1>0, <1>1, <1>2, RanksOfStarts
      <4> HIDE DEF starts, n
      <4> QED
        BY <1>6, <1>8, <4>1, <4>2
    <3>3. PICK d \in i..p : EndsRun(words[Rank(starts, i)], word, seps, i, d, p)
      BY <1>5, <2>1
    <3>4. d # p
      BY <1>2, <3>1, <3>3 DEF EndsRun
    <3>5. i \in 1..p
      BY <1>1, <2>1
    <3>6. d \in i..q /\ EndsRun(words[Rank(starts, i)], word, seps, i, d, q)
      BY <1>0, <3>3, <3>4, <3>5, EndedRun
    <3>7. new[Rank(starts, i)] = words[Rank(starts, i)]
      BY <1>11, <3>2
    <3> QED
      BY <3>6, <3>7
  <2> QED
    BY <2>2, <2>3
<1>13. Len(new) = Rank(starts, q) + (IF word[q] \in seps THEN 1 ELSE 0)
  <2> HIDE DEF starts, n
  <2> QED
    BY <1>4, <1>8, <1>11
<1> QED
  BY <1>12, <1>13 DEF Chopped

LEMMA ChopNewRun ==
  ASSUME NEW words, NEW new, NEW word, NEW seps, NEW p, AtCharacter(words, new, word, seps, p),
         word[p] \in seps, word[p + 1] \notin seps,
         new = Append(Front(words), Append(Last(words), word[p + 1]))
  PROVE  Chopped(new, word, seps, p + 1)
<1> DEFINE starts == RunStarts(word, seps)
           n == Rank(starts, p)
           q == p + 1
<1>0. word \in Words /\ words \in Seq(Words) /\ p \in 1..Len(word) /\ p + 1 <= Len(word)
  BY DEF AtCharacter
<1>1. Len(word) \in Nat /\ p \in Nat /\ q \in 1..Len(word) /\ q \in Nat /\ q - 1 = p /\ q # 1
  BY <1>0, StartsFacts
<1>2. /\ starts \in SUBSET (0..Len(word))
      /\ \A i \in starts : i \in 1..Len(word)
      /\ q \in starts
  BY <1>0, <1>1, StartsFacts
<1>3. n \in Nat /\ Rank(starts, q) = n + 1
  BY <1>0, <1>1, <1>2, RanksOfStarts
<1>4. /\ Len(words) = n + 1
      /\ words[n + 1] = Empty
      /\ \A i \in starts : i <= p =>
            \E e \in i..p : EndsRun(words[Rank(starts, i)], word, seps, i, e, p)
  BY DEF AtCharacter, Chopped
<1> HIDE DEF n
<1>5. words # <<>>
  <2>1. Len(words) # 0
    BY <1>3, <1>4
  <2> QED
    BY <1>0, <2>1
<1> DEFINE x == Append(Last(words), word[q])
<1>6. x = <<word[q]>> /\ x \in Words
  <2>1. Last(words) = <<>>
    BY <1>4, WordsAreCodes DEF Last
  <2>2. word[q] \in Nat
    BY <1>0, <1>1, StartsFacts
  <2> HIDE DEF q
  <2>3. Append(<<>>, word[q]) = <<word[q]>> /\ <<word[q]>> \in Seq(Nat)
    BY <2>2
  <2> QED
    BY <2>1, <2>3, WordsAreCodes
<1>7. x = SubSeq(word, q, q)
  BY <1>0, <1>1, <1>6, OneCharacter
<1> HIDE DEF x
<1>8. Len(new) = n + 1 /\ new[n + 1] = x /\ \A j \in 1..((n + 1) - 1) : new[j] = words[j]
  <2>1. new = Append(Front(words), x)
    BY DEF x
  <2> QED
    BY <1>0, <1>4, <1>5, <1>6, <2>1, ReplaceLast
<1>9. ASSUME NEW i \in starts, i <= q
      PROVE  \E d \in i..q : EndsRun(new[Rank(starts, i)], word, seps, i, d, q)
  <2>1. i \in 1..Len(word)
    BY <1>2
  <2>2. CASE i = q
    <3>1. \A m \in q..q : m = q
      BY <1>1
    <3>2. ~(q < q) /\ q \in q..q
      BY <1>1
    <3>3. EndsRun(new[n + 1], word, seps, q, q, q)
      BY <1>7, <1>8, <3>1, <3>2 DEF EndsRun
    <3> QED
      BY <1>3, <2>2, <3>2, <3>3
  <2>3. CASE i # q
    <3>1. i < q /\ i <= p /\ i \in 1..p
      BY <1>1, <1>9, <2>1, <2>3
    <3>2. Rank(starts, i) \in 1..((n + 1) - 1)
      <4>1. Rank(starts, i) < Rank(starts, q) /\ Rank(starts, i) \in 1..Cardinality(starts)
        BY <1>0, <1>1, <1>2, <3>1, RanksOfStarts
      <4>2. Cardinality(starts) \in Nat
        BY <1>0, <1>1, <1>2, RanksOfStarts
      <4> HIDE DEF starts, q
      <4> QED
        BY <1>3, <4>1, <4>2
    <3>3. PICK d \in i..p : EndsRun(words[Rank(starts, i)], word, seps, i, d, p)
      BY <1>4, <3>1
    <3>4. d # p
      <4>1. d \in i..d
        BY <1>1, <3>1
      <4> QED
        BY <3>3, <4>1 DEF EndsRun
    <3>6. d \in i..q /\ EndsRun(words[Rank(starts, i)], word, seps, i, d, q)
      BY <1>0, <3>1, <3>3, <3>4, EndedRun
    <3>7. new[Rank(starts, i)] = words[Rank(starts, i)]
      BY <1>8, <3>2
    <3> QED
      BY <3>6, <3>7
  <2> QED
    BY <2>2, <2>3
<1>10. Len(new) = Rank(starts, q) + (IF word[q] \in seps THEN 1 ELSE 0)
  <2> HIDE DEF starts
  <2> QED
    BY <1>3, <1>8
<1> QED
  BY <1>9, <1>10 DEF Chopped

LEMMA ChopSeparator ==
  ASSUME NEW words, NEW new, NEW word, NEW seps, NEW p, AtCharacter(words, new, word, seps, p),
         word[p + 1] \in seps,
         new = IF word[p] \in seps THEN words ELSE Append(words, Empty)
  PROVE  Chopped(new, word, seps, p + 1)
<1> DEFINE starts == RunStarts(word, seps)
           n == Rank(starts, p)
           q == p + 1
<1>0. word \in Words /\ words \in Seq(Words) /\ p \in 1..Len(word) /\ p + 1 <= Len(word)
  BY DEF AtCharacter
<1>1. Len(word) \in Nat /\ p \in Nat /\ q \in 1..Len(word) /\ q \in Nat
  BY <1>0, StartsFacts
<1>2. /\ starts \in SUBSET (0..Len(word))
      /\ \A i \in starts : i \in 1..Len(word)
      /\ q \notin starts
  BY <1>0, <1>1, StartsFacts
<1>3. n \in Nat /\ Rank(starts, q) = n
  BY <1>0, <1>1, <1>2, RanksOfStarts
<1>4. /\ Len(words) = n + (IF word[p] \in seps THEN 1 ELSE 0)
      /\ word[p] \in seps => words[Len(words)] = Empty
      /\ \A i \in starts : i <= p =>
            \E e \in i..p : EndsRun(words[Rank(starts, i)], word, seps, i, e, p)
  BY DEF AtCharacter, Chopped
<1>5. \A i \in starts : i <= p => Rank(starts, i) \in 1..n
  <2> SUFFICES ASSUME NEW i \in starts, i <= p PROVE Rank(starts, i) \in 1..n
    OBVIOUS
  <2>1. i \in Nat
    BY <1>2
  <2>2. {j \in starts : j <= i} \in SUBSET {j \in starts : j <= p}
    <3>1. \A j \in starts : j \in Nat
      BY <1>2
    <3> HIDE DEF starts
    <3>2. \A j \in starts : j <= i => j <= p
      BY <1>1, <2>1, <3>1
    <3> QED
      BY <3>2
  <2>3. IsFiniteSet({j \in starts : j <= p})
    <3>1. IsFiniteSet(starts)
      BY <1>0, <1>1, <1>2, RanksOfStarts
    <3> HIDE DEF starts
    <3> QED
      BY <3>1, FS_Subset
  <2>4. Rank(starts, i) <= Rank(starts, p)
    BY <2>2, <2>3, FS_Subset DEF Rank
  <2>5. Rank(starts, i) \in 1..Cardinality(starts) /\ Cardinality(starts) \in Nat
    BY <1>0, <1>1, <1>2, RanksOfStarts
  <2> HIDE DEF starts
  <2> QED
    BY <1>3, <2>4, <2>5
<1> HIDE DEF n
<1>6. /\ Len(new) = n + 1
      /\ new[n + 1] = Empty
      /\ \A j \in 1..n : new[j] = words[j]
  <2>1. CASE word[p] \in seps
    BY <1>3, <1>4, <2>1
  <2>2. CASE word[p] \notin seps
    <3>1. Len(words) = n
      BY <1>3, <1>4, <2>2
    <3>2. new = Append(words, Empty) /\ Empty \in Words
      BY <2>2, WordsAssumption
    <3> QED
      BY <1>0, <1>3, <3>1, <3>2
  <2> QED
    BY <2>1, <2>2
<1>7. ASSUME NEW i \in starts, i <= q
      PROVE  \E d \in i..q : EndsRun(new[Rank(starts, i)], word, seps, i, d, q)
  <2>1. i \in 1..Len(word) /\ i <= p /\ i \in 1..p
    <3>1. i \in 1..Len(word) /\ i # q
      BY <1>2
    <3> QED
      BY <1>1, <1>7, <3>1
  <2>2. PICK d \in i..p : EndsRun(words[Rank(starts, i)], word, seps, i, d, p)
    BY <1>4, <2>1
  <2>3. new[Rank(starts, i)] = words[Rank(starts, i)]
    BY <1>5, <1>6, <2>1
  <2>4. CASE d # p
    <3>1. d \in i..q /\ EndsRun(words[Rank(starts, i)], word, seps, i, d, q)
      BY <1>0, <2>1, <2>2, <2>4, EndedRun
    <3> QED
      BY <2>3, <3>1
  <2>5. CASE d = p
    <3>1. d \in i..q
      BY <1>1, <2>1, <2>2
    <3>2. EndsRun(words[Rank(starts, i)], word, seps, i, d, q)
      BY <2>2, <2>5 DEF EndsRun
    <3> QED
      BY <2>3, <3>1, <3>2
  <2> QED
    BY <2>4, <2>5
<1>8. /\ Len(new) = Rank(starts, q) + (IF word[q] \in seps THEN 1 ELSE 0)
      /\ new[Len(new)] = Empty
  <2> HIDE DEF starts
  <2> QED
    BY <1>3, <1>6
<1> QED
  BY <1>7, <1>8 DEF Chopped
LEMMA ChopStarts ==
  ASSUME NEW word \in Words, NEW seps, NEW a \in 1..Len(word), word[a] \notin seps,
         \A i \in 1..Len(word) : i < a => word[i] \in seps
  PROVE  Chopped(<<<<word[a]>>>>, word, seps, a)
<1> DEFINE starts == RunStarts(word, seps)
           words == <<<<word[a]>>>>
<1>1. Len(word) \in Nat /\ a \in Nat
  BY StartsFacts
<1>2. a \in starts
  <2>1. a # 1 => word[a - 1] \in seps
    BY <1>1
  <2> QED
    BY <2>1, StartsFacts
<1>3. \A i \in starts : i <= a <=> i = a
  <2>1. \A i \in starts : i \in 1..Len(word) /\ word[i] \notin seps
    BY StartsFacts
  <2> HIDE DEF starts
  <2> QED
    BY <1>1, <2>1
<1>4. Rank(starts, a) = 1
  <2> HIDE DEF starts
  <2>1. {j \in starts : j <= a} = {a}
    BY <1>2, <1>3
  <2> QED
    BY <2>1, FS_Singleton DEF Rank
<1>5. Len(words) = 1 /\ words[1] = <<word[a]>>
  OBVIOUS
<1>6. EndsRun(words[1], word, seps, a, a, a)
  <2>1. \A m \in a..a : m = a
    BY <1>1
  <2>2. ~(a < a)
    BY <1>1
  <2>3. SubSeq(word, a, a) = <<word[a]>>
    BY OneCharacter
  <2> QED
    BY <1>5, <2>1, <2>2, <2>3 DEF EndsRun
<1> HIDE DEF words
<1>7. ASSUME NEW i \in starts, i <= a
      PROVE  \E e \in i..a : EndsRun(words[Rank(starts, i)], word, seps, i, e, a)
  <2>1. i = a /\ a \in a..a
    BY <1>1, <1>3, <1>7
  <2> QED
    BY <1>4, <1>6, <2>1
<1>8. Chopped(words, word, seps, a)
  <2>1. Len(words) = Rank(starts, a) + (IF word[a] \in seps THEN 1 ELSE 0)
    BY <1>4, <1>5
  <2> QED
    BY <1>7, <2>1 DEF Chopped
<1> QED
  BY <1>8 DEF words

\* From the first character to the last.
LEMMA SplittingChops ==
  ASSUME NEW word \in Words, NEW seps, NEW a, NEW b, NEW f, Splitting(f, word, seps, a, b)
  PROVE  Chopped(f[b], word, seps, b)
<1> USE DEF Splitting
<1>1. Len(word) \in Nat /\ a \in Nat /\ b \in Nat /\ a <= b /\ a >= 1 /\ b <= Len(word)
  BY StartsFacts
<1> DEFINE n == b - a
           Q == {k \in 0..n : Chopped(f[a + k], word, seps, a + k)}
<1>2. n \in Nat
  BY <1>1
<1>3. 0 \in Q
  <2>1. Chopped(f[a], word, seps, a)
    BY ChopStarts
  <2>2. a + 0 = a /\ 0 \in 0..n
    BY <1>1
  <2> QED
    BY <2>1, <2>2
<1>4. ASSUME NEW k \in 0..n, k \in Q, k < n PROVE k + 1 \in Q
  <2> DEFINE p == a + k
             q == p + 1
  <2>1. p \in a..(b - 1) /\ p \in 1..Len(word) /\ q \in a..b /\ q <= Len(word)
        /\ a + (k + 1) = q /\ k + 1 \in 0..n
    BY <1>1, <1>4
  <2>2. Chopped(f[p], word, seps, p)
    BY <1>4
  <2> HIDE DEF p, Q
  <2>3. f[q] = IF word[q] \notin seps THEN Append(Front(f[p]), Append(Last(f[p]), word[q]))
               ELSE IF word[p] \in seps THEN f[p] ELSE Append(f[p], Empty)
    BY <2>1
  <2>4. AtCharacter(f[p], f[q], word, seps, p)
    <3>1. p \in a..b
      BY <1>1, <2>1
    <3>2. f[p] \in Seq(Words) /\ f[q] \in Seq(Words)
      BY <2>1, <3>1
    <3> QED
      BY <2>1, <2>2, <3>2 DEF AtCharacter
  <2>5. Chopped(f[q], word, seps, q)
    BY <2>3, <2>4, ChopInRun, ChopNewRun, ChopSeparator
  <2> QED
    BY <2>1, <2>5 DEF Q
<1>5. n \in Q
  <2> HIDE DEF n, Q
  <2> QED
    BY <1>2, <1>3, <1>4, CountUp
<1> QED
  BY <1>1, <1>5

\* Behind the last character of the last run, nothing is cut any more.
LEMMA ChoppedIsRuns ==
  ASSUME NEW word \in Words, NEW seps, NEW words \in Seq(Words), NEW b \in 1..Len(word),
         word[b] \notin seps, \A i \in 1..Len(word) : i > b => word[i] \in seps,
         Chopped(words, word, seps, b)
  PROVE  words = Runs(word, seps)
<1> DEFINE starts == RunStarts(word, seps)
           n == Cardinality(starts)
           end == Len(word)
<1>1. end \in Nat /\ b \in Nat /\ starts \in SUBSET (0..end)
      /\ \A i \in starts : i \in 1..end /\ word[i] \notin seps
  BY StartsFacts
<1>2. n \in Nat /\ IsFiniteSet(starts) /\ \A i \in starts : Rank(starts, i) \in 1..n
  BY RanksOfStarts
<1>3. \A i \in starts : i <= b
  BY <1>1
<1>4. Len(words) = n
  <2> HIDE DEF starts
  <2>1. {j \in starts : j <= b} = starts
    BY <1>3
  <2>2. Rank(starts, b) = n
    BY <2>1 DEF Rank
  <2>3. Len(words) = Rank(starts, b) + 0
    BY DEF Chopped, starts
  <2> QED
    BY <1>2, <2>2, <2>3
<1>5. ASSUME NEW i \in starts PROVE words[Rank(starts, i)] = RunAt(word, seps, i)
  <2>1. PICK e \in i..b : EndsRun(words[Rank(starts, i)], word, seps, i, e, b)
    BY <1>3 DEF Chopped
  <2> DEFINE ends == {j \in i..end : word[j] \in seps} \cup {end + 1}
             m == Min(ends)
  <2>2. ends \subseteq Nat /\ ends # {}
    BY <1>1
  <2>3. m \in ends /\ \A y \in ends : m <= y
    <3> HIDE DEF ends
    <3> QED
      BY <2>2, MinFacts
  <2>4. i \in 1..end /\ e \in 1..end /\ e >= i
    BY <1>1, <2>1
  <2>5. e + 1 \in ends
    <3>1. CASE e = end
      BY <3>1
    <3>2. CASE e # end
      <4>1. e + 1 \in i..end
        BY <1>1, <2>4, <3>2
      <4>2. word[e + 1] \in seps
        <5>1. CASE e < b
          BY <2>1, <5>1 DEF EndsRun
        <5>2. CASE ~(e < b)
          <6>1. e + 1 > b /\ e + 1 \in 1..end
            BY <1>1, <2>4, <4>1, <5>2
          <6> QED
            BY <6>1
        <5> QED
          BY <5>1, <5>2
      <4> QED
        BY <4>1, <4>2
    <3> QED
      BY <3>1, <3>2
  <2>6. \A y \in ends : e + 1 <= y
    <3>1. \A y \in i..end : word[y] \in seps => ~(y <= e)
      <4> SUFFICES ASSUME NEW y \in i..end, word[y] \in seps, y <= e PROVE FALSE
        OBVIOUS
      <4>1. y \in i..e
        BY <1>1, <2>4
      <4> QED
        BY <2>1, <4>1 DEF EndsRun
    <3> QED
      BY <1>1, <2>4, <3>1
  <2>7. m = e + 1
    <3>1. m <= e + 1 /\ e + 1 <= m /\ m \in Nat
      BY <2>2, <2>3, <2>5, <2>6
    <3> HIDE DEF m
    <3> QED
      BY <2>4, <3>1
  <2>8. RunAt(word, seps, i) = SubSeq(word, i, m - 1)
    BY DEF RunAt
  <2> HIDE DEF m
  <2>9. m - 1 = e
    BY <2>4, <2>7
  <2> QED
    BY <2>1, <2>8, <2>9 DEF EndsRun
<1>6. Ascending(starts) \in [1..n -> starts] /\ \A k \in 1..n : Rank(starts, Ascending(starts)[k]) = k
  <2> HIDE DEF starts, end
  <2> QED
    BY <1>1, AscendingRank
<1> DEFINE A == Ascending(starts)
           runs == [k \in 1..n |-> RunAt(word, seps, A[k])]
<1>7. Runs(word, seps) = runs
  BY DEF Runs
<1> HIDE DEF starts, n, A
<1>8. \A k \in 1..n : words[k] = runs[k]
  BY <1>5, <1>6 DEF A
<1>9. words = runs
  <2>1. DOMAIN words = 1..n /\ words = [k \in 1..n |-> words[k]]
    BY <1>4
  <2> HIDE DEF runs
  <2>2. [k \in 1..n |-> words[k]] = [k \in 1..n |-> runs[k]]
    BY <1>8
  <2> QED
    BY <2>1, <2>2 DEF runs
<1> QED
  BY <1>7, <1>9

\* split_word yields the runs of characters that are no separators.
LEMMA SplitWordRuns ==
  ASSUME NEW word \in Words, NEW delimeter \in Words
  PROVE  split_word(word, delimeter) = Runs(word, ToSet(delimeter))
<1> DEFINE seps == ToSet(delimeter)
           kept == {i \in DOMAIN word : word[i] \notin seps}
           result == split_word(word, delimeter)
           trimmed == trim_if(word, seps)
<1>1. Len(word) \in Nat /\ DOMAIN word = 1..Len(word) /\ word \in Seq(Nat) /\ Empty = <<>>
  BY WordFacts, WordsAreCodes
<1>2. result = IF trimmed = Empty THEN <<>> ELSE split(trimmed, seps, TRUE)
  BY DEF split_word
<1> HIDE DEF seps
<1>3. CASE kept = {}
  <2>1. result = <<>>
    BY <1>2, <1>3 DEF trim_if
  <2>2. RunStarts(word, seps) = {}
    BY <1>3 DEF RunStarts
  <2>3. Cardinality(RunStarts(word, seps)) = 0
    BY <2>2, FS_EmptySet
  <2>4. Runs(word, seps) = [k \in 1..0 |-> RunAt(word, seps, Ascending(RunStarts(word, seps))[k])]
    BY <2>3 DEF Runs
  <2>5. 1..0 = {}
    OBVIOUS
  <2>6. Runs(word, seps) = <<>>
    BY <2>4, <2>5
  <2> QED
    BY <2>1, <2>6 DEF seps
<1>4. CASE kept # {}
  <2> DEFINE a == Min(kept)
             b == Max(kept)
             t == SubSeq(word, a, b)
             n == b - a + 1
  <2>1. kept \subseteq Nat /\ kept \subseteq 0..Len(word)
    BY <1>1
  <2>2. trimmed = t
    BY <1>4 DEF trim_if
  <2>3. a \in kept /\ b \in kept /\ \A y \in kept : a <= y /\ b >= y
    <3> HIDE DEF kept
    <3> QED
      BY <1>1, <1>4, <2>1, MinFacts, MaxFacts
  <2> HIDE DEF a, b
  <2>4. /\ a \in 1..Len(word) /\ b \in a..Len(word)
        /\ word[a] \notin seps /\ word[b] \notin seps
        /\ \A i \in 1..Len(word) : i < a \/ i > b => word[i] \in seps
    BY <1>1, <2>3
  <2>5. a \in Nat /\ b \in Nat /\ a <= b /\ n \in Nat /\ n >= 1
    BY <1>1, <2>4
  <2>6. t \in Words /\ Len(t) = n /\ \A k \in 1..n : t[k] = word[a + k - 1]
    <3>1. \A i \in a..b : word[i] \in Nat
      BY <1>1, <2>4
    <3>2. /\ SubSeq(word, a, b) \in Seq(Nat)
          /\ Len(SubSeq(word, a, b)) = IF a <= b THEN b - a + 1 ELSE 0
          /\ \A i \in 1..(b - a + 1) : SubSeq(word, a, b)[i] = word[a + i - 1]
      BY <2>5, <3>1, SubSeqProperties
    <3> QED
      BY <2>5, <3>2, WordsAreCodes
  <2> HIDE DEF t, n, kept
  <2>7. t # Empty
    <3>1. Len(t) # 0 /\ Len(<<>>) = 0
      BY <2>5, <2>6
    <3> QED
      BY <1>1, <3>1
  <2>8. PICK acc \in [0..n -> Seq(Words) \ {<<>>}] :
           /\ acc[0] = <<Empty>>
           /\ \A i \in 1..n : acc[i] = SplitStep(t, seps, TRUE, acc[i - 1], i)
           /\ acc[n] = split(t, seps, TRUE)
    BY <2>6, SplitUnfolds
  <2> DEFINE f == [p \in a..b |-> acc[p - a + 1]]
  <2>9. \A p \in a..b : p - a + 1 \in 1..n /\ p - a + 1 \in 0..n
    BY <2>5 DEF n
  <2>10. f \in [a..b -> Seq(Words)]
    BY <2>8, <2>9
  <2>11. f[a] = <<<<word[a]>>>>
    <3>1. f[a] = acc[1]
      <4>1. a \in a..b /\ a - a + 1 = 1
        BY <2>5
      <4> QED
        BY <4>1
    <3>2. acc[1] = SplitStep(t, seps, TRUE, acc[0], 1)
      <4>1. 1 \in 1..n /\ 1 - 1 = 0
        BY <2>5
      <4> QED
        BY <2>8, <4>1
    <3>3. t[1] = word[a] /\ word[a] \in Nat
      <4>1. 1 \in 1..n /\ a + 1 - 1 = a
        BY <2>5
      <4> QED
        BY <1>1, <2>4, <2>6, <4>1
    <3>4. Front(<<Empty>>) = <<>> /\ Last(<<Empty>>) = <<>>
      <4>1. Len(<<Empty>>) = 1 /\ <<Empty>>[1] = Empty
        OBVIOUS
      <4>2. SubSeq(<<Empty>>, 1, 0) = <<>>
        BY SubSeqEmpty
      <4> QED
        BY <1>1, <4>1, <4>2 DEF Front, Last
    <3>5. acc[1] = Append(<<>>, Append(<<>>, word[a]))
      BY <2>4, <2>8, <3>2, <3>3, <3>4 DEF SplitStep
    <3>6. Append(<<>>, word[a]) = <<word[a]>> /\ <<word[a]>> \in Words
      BY <3>3, WordsAreCodes
    <3> DEFINE x == <<word[a]>>
    <3> HIDE DEF x
    <3>7. Append(<<>>, x) = <<x>>
      OBVIOUS
    <3> QED
      BY <3>1, <3>5, <3>6, <3>7 DEF x
  <2>12. ASSUME NEW p \in a..(b - 1)
         PROVE  f[p + 1] = IF word[p + 1] \notin seps
                           THEN Append(Front(f[p]), Append(Last(f[p]), word[p + 1]))
                           ELSE IF word[p] \in seps THEN f[p] ELSE Append(f[p], Empty)
    <3> DEFINE k == p - a + 2
    <3>1. /\ p \in a..b /\ p + 1 \in a..b /\ (p + 1) - a + 1 = k /\ k - 1 = p - a + 1
          /\ k \in 1..n /\ k - 1 \in 1..n /\ k > 1
          /\ a + k - 1 = p + 1 /\ a + (k - 1) - 1 = p
      BY <2>5 DEF n
    <3> HIDE DEF k
    <3>2. f[p + 1] = acc[k] /\ f[p] = acc[k - 1]
      BY <3>1
    <3>3. t[k] = word[p + 1] /\ t[k - 1] = word[p]
      BY <2>6, <3>1
    <3>4. acc[k] = SplitStep(t, seps, TRUE, acc[k - 1], k)
      BY <2>8, <3>1
    <3> HIDE DEF f
    <3> QED
      BY <3>1, <3>2, <3>3, <3>4 DEF SplitStep
  <2>13. f[b] = result
    <3>1. b \in a..b /\ b - a + 1 = n
      BY <2>5 DEF n
    <3> QED
      BY <1>2, <2>2, <2>7, <2>8, <3>1
  <2> HIDE DEF f
  <2>14. Splitting(f, word, seps, a, b)
    BY <2>4, <2>10, <2>11, <2>12 DEF Splitting
  <2>15. Chopped(f[b], word, seps, b)
    BY <2>14, SplittingChops
  <2>16. f[b] \in Seq(Words) /\ b \in 1..Len(word)
    <3>1. b \in a..b
      BY <2>5
    <3> QED
      BY <1>1, <2>4, <2>10, <3>1
  <2>17. f[b] = Runs(word, seps)
    <3>1. \A i \in 1..Len(word) : i > b => word[i] \in seps
      BY <2>4
    <3> QED
      BY <2>4, <2>15, <2>16, <3>1, ChoppedIsRuns
  <2> QED
    BY <2>13, <2>17 DEF seps
<1> QED
  BY <1>3, <1>4

\* The words of an array are those that it was given.
\* A word without separators is one run.
LEMMA OneRun ==
  ASSUME NEW word \in Words, NEW seps, word # Empty, ToSet(word) \cap seps = {}
  PROVE  Runs(word, seps) = <<word>>
<1> DEFINE n == Len(word)
           starts == RunStarts(word, seps)
           A == Ascending(starts)
<1>1. word \in Seq(Nat) /\ n \in Nat /\ n >= 1 /\ DOMAIN word = 1..n /\ \A i \in 1..n : word[i] \notin seps
  <2>1. word \in Seq(Nat) /\ word # <<>>
    BY WordsAreCodes
  <2>2. \A i \in DOMAIN word : word[i] \in ToSet(word)
    BY DEF ToSet
  <2> QED
    BY <2>1, <2>2
<1>2. starts = {1}
  <2>1. \A i \in 2..n : i - 1 \in 1..n
    BY <1>1
  <2>2. \A i \in 1..n : i = 1 \/ i \in 2..n
    BY <1>1
  <2> QED
    BY <1>1, <2>1, <2>2 DEF RunStarts
<1> HIDE DEF starts, A, n
<1>3. Cardinality(starts) = 1
  BY <1>2, FS_Singleton
<1>4. starts \in SUBSET (0..1)
  BY <1>2
<1>5. A \in [1..1 -> starts]
  BY <1>3, <1>4, AscendingRank DEF A
<1>6. A[1] = 1
  BY <1>2, <1>5
<1>7. {j \in 1..n : word[j] \in seps} = {}
  BY <1>1
<1>8. Min({n + 1}) = n + 1
  BY <1>1, MinFacts
<1>9. RunAt(word, seps, 1) = SubSeq(word, 1, (n + 1) - 1)
  <2>1. RunAt(word, seps, 1) = SubSeq(word, 1, Min({} \cup {n + 1}) - 1)
    BY <1>7 DEF RunAt, n
  <2>2. {} \cup {n + 1} = {n + 1}
    OBVIOUS
  <2> QED
    BY <1>8, <2>1, <2>2
<1>10. SubSeq(word, 1, (n + 1) - 1) = word
  <2>1. (n + 1) - 1 = n
    BY <1>1
  <2>2. SubSeq(word, 1, n) = word
    BY <1>1 DEF n
  <2> QED
    BY <2>1, <2>2
<1>11. Runs(word, seps) = [k \in 1..1 |-> RunAt(word, seps, A[k])]
  BY <1>3 DEF Runs, starts, A
<1>12. \A k \in 1..1 : RunAt(word, seps, A[k]) = word
  <2>1. \A k \in 1..1 : k = 1
    OBVIOUS
  <2> QED
    BY <1>6, <1>9, <1>10, <2>1
<1>13. <<word>> = [k \in 1..1 |-> word]
  OBVIOUS
<1> QED
  BY <1>11, <1>12, <1>13

\* The words of a list that starts at 1.
LEMMA ListFromOne ==
  ASSUME NEW words \in Seq(Words), Len(words) <= MaxIndex
  PROVE  /\ Elements(ListFrom(1, words)) = 1..Len(words)
         /\ \A k \in 1..Len(words) : get_value(ListFrom(1, words), k) = words[k]
<1> DEFINE n == Len(words)
           var == ListFrom(1, words)
<1>1. n \in Nat /\ MaxIndex \in Nat /\ n <= MaxIndex /\ DOMAIN words = 1..n
      /\ \A k \in 1..n : words[k] \in Words
  BY IndexAssumption
<1>2. var.value = [i \in Indexes |-> IF i - 1 + 1 \in DOMAIN words THEN words[i - 1 + 1] ELSE Absent]
  BY DEF ListFrom, ArrayOf
<1> HIDE DEF var, n
<1>3. \A i \in Indexes : i - 1 + 1 = i
  BY <1>1 DEF Indexes
<1>4. \A i \in Indexes : var.value[i] = IF i \in 1..n THEN words[i] ELSE Absent
  BY <1>1, <1>2, <1>3
<1>5. \A i \in 1..n : i \in Indexes
  BY <1>1 DEF Indexes
<1>6. \A i \in 1..n : words[i] # Absent
  BY <1>1, WordsAssumption
<1>7. Elements(var) = 1..n
  BY <1>4, <1>5, <1>6 DEF Elements
<1>8. \A k \in 1..n : get_value(var, k) = words[k]
  BY <1>4, <1>5, <1>7 DEF get_value
<1> QED
  BY <1>7, <1>8 DEF var, n

----------------------------------------------------------------------------
(* Parts of lists, and their elements as one word.                         *)

LEMMA SubSeqsJoin ==
  ASSUME NEW S, NEW list \in Seq(S), NEW i \in 1..Len(list), NEW k \in (i - 1)..Len(list)
  PROVE  SubSeq(list, i, k) \o SubSeq(list, k + 1, Len(list)) = SubSeq(list, i, Len(list))
<1> DEFINE n == Len(list)
<1>1. n \in Nat /\ i \in 1..(n + 1) /\ k \in (i - 1)..n /\ n \in k..n
  OBVIOUS
<1>2. n = Len(list)
  OBVIOUS
<1> HIDE DEF n
<1> QED
  BY <1>1, <1>2, ConcatAdjacentSubSeq

\* What is in front of an offset and what is behind it.
Apart(list, o, l) ==
    /\ o \in Int /\ l \in Nat /\ l # Whole
    /\ -o <= Len(list)
    /\ (o < 0) <=> (o + l < 0)

LEMMA PartsOfList ==
  ASSUME NEW S, NEW list \in Seq(S), NEW o, NEW l, Apart(list, o, l)
  PROVE  /\ part(list, o, l) \in Seq(S) /\ part(list, o + l, Whole) \in Seq(S)
         /\ part(list, o, l) \o part(list, o + l, Whole) = part(list, o, Whole)
         /\ (part(list, o, l) # <<>> /\ part(list, o + l, Whole) # <<>>)
              <=> (l > 0 /\ o + l < Len(list))
<1> DEFINE n == Len(list)
           s == real_offset(o, n)
           m == o + l
           front == part(list, o, l)
           back == part(list, m, Whole)
           both == part(list, o, Whole)
<1> USE DEF Apart
<1>1. n \in Nat /\ s \in Int /\ m \in Int /\ o \in Int /\ l \in Int
  BY DEF real_offset
<1>2. front \in Seq(S) /\ back \in Seq(S)
  <2>1. ~Negative(l) /\ ~Negative(Whole)
    BY DEF Negative
  <2> HIDE DEF m
  <2> QED
    BY <1>1, <2>1, PartType
<1>3. CASE ~in_range(o, n)
  <2>1. o >= n
    BY <1>1, <1>3 DEF in_range, real_offset
  <2>2. ~in_range(m, n) /\ ~(m < n)
    BY <1>1, <2>1 DEF in_range, real_offset
  <2>3. front = <<>> /\ back = <<>> /\ both = <<>>
    BY <1>3, <2>2 DEF part
  <2>4. <<>> \o <<>> = <<>>
    OBVIOUS
  <2> QED
    BY <1>1, <1>2, <2>2, <2>3, <2>4
<1>4. CASE in_range(o, n)
  <2> DEFINE i == s + 1
  <2>1. s \in 0..(n - 1) /\ i \in 1..n
    BY <1>1, <1>4 DEF in_range
  <2>2. real_offset(m, n) = s + l
    BY <1>1 DEF real_offset
  <2>3. in_range(m, n) <=> s + l < n
    BY <1>1, <2>1, <2>2 DEF in_range
  <2>4. both = SubSeq(list, i, n)
    BY <1>4 DEF part
  <2>5. front = SubSeq(list, i, Min({s + l, n}))
    BY <1>4 DEF part
  <2>6. s + l < n <=> m < n
    <3>1. CASE o >= 0
      BY <1>1, <3>1 DEF real_offset
    <3>2. CASE o < 0
      <4>1. m < 0 /\ s = n + o
        BY <1>1, <3>2 DEF real_offset
      <4>2. s + l = n + m
        BY <1>1, <4>1
      <4> QED
        BY <1>1, <4>1, <4>2
    <3> QED
      BY <1>1, <3>1, <3>2
  <2> HIDE DEF s, front, both
  <2>7. CASE s + l < n
    <3> DEFINE k == s + l
    <3>1. k \in (i - 1)..n /\ k \in Nat /\ k < n
      BY <1>1, <2>1, <2>7
    <3>2. Min({k, n}) = k
      <4>1. Min({k, n}) \in {k, n} /\ Min({k, n}) <= k
        <5>1. {k, n} \subseteq Nat /\ {k, n} # {}
          BY <1>1, <3>1
        <5> HIDE DEF k, n
        <5> QED
          BY <5>1, MinFacts
      <4> HIDE DEF k
      <4> QED
        BY <1>1, <3>1, <4>1
    <3>3. back = SubSeq(list, k + 1, n)
      BY <2>2, <2>3, <2>7 DEF part
    <3>4. front = SubSeq(list, i, k)
      BY <2>5, <3>2
    <3> HIDE DEF k, i, back
    <3>5. SubSeq(list, i, k) \o SubSeq(list, k + 1, n) = SubSeq(list, i, n)
      BY <2>1, <3>1, SubSeqsJoin
    <3>6. back # <<>>
      <4> DEFINE g == k + 1
      <4>1. g \in 1..n
        BY <1>1, <3>1
      <4> HIDE DEF g
      <4>2. Len(SubSeq(list, g, n)) = IF g <= n THEN n - g + 1 ELSE 0
        <5>1. \A j \in g..n : list[j] \in S
          BY <4>1
        <5>2. g \in Int
          BY <4>1
        <5> HIDE DEF n
        <5> QED
          BY <1>1, <5>1, <5>2, SubSeqProperties
      <4>3. Len(SubSeq(list, g, n)) # 0
        BY <1>1, <4>1, <4>2
      <4>4. back # <<>>
        <5>1. back = SubSeq(list, g, n) /\ Len(<<>>) = 0
          BY <3>3 DEF g
        <5> QED
          BY <4>3, <5>1
      <4> QED
        BY <4>4
    <3>7. front # <<>> <=> l > 0
      <4>1. Len(SubSeq(list, i, k)) = IF i <= k THEN k - i + 1 ELSE 0
        <5>1. \A j \in i..k : list[j] \in S
          BY <1>1, <2>1, <3>1
        <5>2. i \in Int /\ k \in Int
          BY <2>1, <3>1
        <5> QED
          BY <5>1, <5>2, SubSeqProperties
      <4>2. i <= k <=> l > 0
        BY <1>1, <2>1 DEF i, k
      <4>3. Len(front) # 0 <=> l > 0
        BY <1>1, <2>1, <3>1, <3>4, <4>1, <4>2
      <4> HIDE DEF n
      <4> QED
        BY <1>2, <4>3
    <3> HIDE DEF n, m
    <3> QED
      BY <1>2, <2>4, <2>6, <2>7, <3>3, <3>4, <3>5, <3>6, <3>7 DEF front, back, both, m, n
  <2>8. CASE ~(s + l < n)
    <3> DEFINE k == s + l
    <3>1. k \in Nat /\ k >= n
      BY <1>1, <2>1, <2>8
    <3>2. Min({k, n}) = n
      <4>1. Min({k, n}) \in {k, n} /\ Min({k, n}) <= n
        <5>1. {k, n} \subseteq Nat /\ {k, n} # {}
          BY <1>1, <3>1
        <5> HIDE DEF k, n
        <5> QED
          BY <5>1, MinFacts
      <4> HIDE DEF k
      <4> QED
        BY <1>1, <3>1, <4>1
    <3>3. back = <<>>
      BY <2>3, <2>8 DEF part
    <3>4. front = both
      BY <2>4, <2>5, <3>2
    <3>5. front \o <<>> = front
      <4> HIDE DEF n
      <4> QED
        BY <1>2
    <3> QED
      BY <1>2, <2>6, <2>8, <3>3, <3>4, <3>5 DEF front, both
  <2> QED
    BY <2>7, <2>8
<1> QED
  BY <1>3, <1>4

LEMMA JoinNothing ==
  ASSUME NEW delim \in Words
  PROVE  join(<<>>, delim) = Empty
<1>1. <<>> \in Seq(Words) /\ Len(<<>>) = 0
  OBVIOUS
<1> QED
  BY <1>1, JoinUnfolds

LEMMA JoinConcat ==
  ASSUME NEW x \in Seq(Words), NEW y \in Seq(Words), NEW d \in Words
  PROVE  join(x \o y, d) = IF x # <<>> /\ y # <<>> THEN (join(x, d) \o d) \o join(y, d)
                           ELSE join(x, d) \o join(y, d)
<1> DEFINE xy == x \o y
           n == Len(x)
           m == Len(y)
<1>1. n \in Nat /\ m \in Nat /\ xy \in Seq(Words) /\ Len(xy) = n + m
  OBVIOUS
<1>2. /\ \A k \in 1..n : xy[k] = x[k] /\ x[k] \in Words
      /\ \A k \in 1..m : xy[n + k] = y[k] /\ y[k] \in Words
  BY <1>1
<1>3. join(x, d) \in Seq(Nat) /\ join(y, d) \in Seq(Nat) /\ d \in Seq(Nat)
  BY JoinType, WordsAreCodes
<1>4. CASE x = <<>>
  <2>1. xy = y
    BY <1>4
  <2>2. join(x, d) = <<>>
    BY <1>4, JoinNothing, WordsAreCodes
  <2>3. <<>> \o join(y, d) = join(y, d)
    BY <1>3
  <2> QED
    BY <1>4, <2>1, <2>2, <2>3
<1>5. CASE y = <<>>
  <2>1. xy = x
    BY <1>5
  <2>2. join(y, d) = <<>>
    BY <1>5, JoinNothing, WordsAreCodes
  <2>3. join(x, d) \o <<>> = join(x, d)
    BY <1>3
  <2> QED
    BY <1>5, <2>1, <2>2, <2>3
<1>6. CASE x # <<>> /\ y # <<>>
  <2>1. n >= 1 /\ m >= 1
    BY <1>6
  <2> HIDE DEF xy, n, m
  <2>2. PICK acc \in [0..(n + m) -> Words] :
           /\ acc[0] = Empty
           /\ \A i \in 1..(n + m) : acc[i] = JoinStep(xy, d, acc[i - 1], i)
           /\ acc[n + m] = join(xy, d)
    <3> DEFINE nm == n + m
    <3>1. Len(xy) = nm /\ xy \in Seq(Words)
      BY <1>1
    <3> HIDE DEF nm
    <3>2. \E acc \in [0..nm -> Words] :
             /\ acc[0] = Empty
             /\ \A i \in 1..nm : acc[i] = JoinStep(xy, d, acc[i - 1], i)
             /\ acc[nm] = join(xy, d)
      BY <3>1, JoinUnfolds
    <3> QED
      BY <3>2 DEF nm
  <2>3. PICK acx \in [0..n -> Words] :
           /\ acx[0] = Empty
           /\ \A i \in 1..n : acx[i] = JoinStep(x, d, acx[i - 1], i)
           /\ acx[n] = join(x, d)
    BY JoinUnfolds DEF n
  <2>4. PICK acy \in [0..m -> Words] :
           /\ acy[0] = Empty
           /\ \A i \in 1..m : acy[i] = JoinStep(y, d, acy[i - 1], i)
           /\ acy[m] = join(y, d)
    BY JoinUnfolds DEF m
  <2> DEFINE A == {k \in 0..n : acc[k] = acx[k]}
  <2>5. n \in A
    <3>1. 0 \in A
      BY <1>1, <2>2, <2>3
    <3>2. ASSUME NEW k \in 0..n, k \in A, k < n PROVE k + 1 \in A
      <4> DEFINE i == k + 1
      <4>1. i \in 1..n /\ i \in 1..(n + m) /\ i - 1 = k /\ i \in 0..n
        BY <1>1, <3>2
      <4>2. acc[k] = acx[k]
        BY <3>2
      <4> HIDE DEF A, i
      <4>3. acc[i] = JoinStep(xy, d, acc[k], i) /\ acx[i] = JoinStep(x, d, acx[k], i)
        BY <2>2, <2>3, <4>1
      <4>4. xy[i] = x[i]
        BY <1>2, <4>1
      <4>5. acc[i] = acx[i]
        BY <4>2, <4>3, <4>4 DEF JoinStep
      <4> QED
        BY <4>1, <4>5 DEF A, i
    <3> HIDE DEF A
    <3> QED
      BY <1>1, <3>1, <3>2, CountUp
  <2> DEFINE X == acx[n] \o d
             Q == {k \in 0..m : k = 0 \/ acc[n + k] = X \o acy[k]}
  <2>6. X \in Seq(Nat) /\ \A k \in 0..m : acy[k] \in Seq(Nat)
    <3>1. acx[n] \in Seq(Nat)
      BY <1>3, <2>3
    <3>2. X \in Seq(Nat)
      BY <1>3, <3>1
    <3>3. \A k \in 0..m : acy[k] \in Seq(Nat)
      BY <2>4, WordsAreCodes
    <3> QED
      BY <3>2, <3>3
  <2>7. m \in Q
    <3>1. 0 \in Q
      BY <1>1
    <3>2. ASSUME NEW k \in 0..m, k \in Q, k < m PROVE k + 1 \in Q
      <4> DEFINE i == k + 1
                 j == n + i
      <4>1. /\ i \in 1..m /\ j \in 1..(n + m) /\ i - 1 = k /\ j - 1 = n + k /\ i \in 0..m
            /\ j # 1
        BY <1>1, <2>1, <3>2
      <4>2. k = 0 \/ acc[n + k] = X \o acy[k]
        BY <3>2
      <4>7. i = 1 <=> k = 0
        OBVIOUS
      <4>8. j = n + i
        OBVIOUS
      <4> HIDE DEF Q, i, j
      <4>3. acc[j] = JoinStep(xy, d, acc[n + k], j) /\ acy[i] = JoinStep(y, d, acy[k], i)
        BY <2>2, <2>4, <4>1
      <4>4. xy[j] = y[i] /\ y[i] \in Seq(Nat)
        BY <1>2, <4>1, <4>8, WordsAreCodes
      <4>5. CASE k = 0
        <5>1. n + k = n /\ n \in 0..n
          BY <1>1, <4>5
        <5>2. acc[n] = acx[n]
          BY <2>5
        <5>3. acc[j] = X \o y[i]
          BY <4>1, <4>3, <4>4, <5>1, <5>2 DEF JoinStep
        <5>4. acy[i] = <<>> \o y[i]
          BY <2>4, <4>3, <4>5, <4>7, WordsAreCodes DEF JoinStep
        <5>5. acy[i] = y[i]
          BY <4>4, <5>4
        <5> QED
          BY <4>1, <4>8, <5>3, <5>5 DEF Q, i
      <4>6. CASE k # 0
        <5> DEFINE before == acy[k]
                   more == y[i]
        <5>1. acc[j] = ((X \o before) \o d) \o more
          BY <4>1, <4>2, <4>3, <4>4, <4>6 DEF JoinStep
        <5>2. acy[i] = (before \o d) \o more
          BY <4>3, <4>6, <4>7 DEF JoinStep
        <5>3. before \in Seq(Nat) /\ more \in Seq(Nat)
          BY <2>6, <4>4
        <5>4. before \o d \in Seq(Nat)
          BY <1>3, <5>3
        <5>7. X \in Seq(Nat) /\ before \in Seq(Nat) /\ more \in Seq(Nat) /\ d \in Seq(Nat)
          BY <1>3, <2>6, <5>3
        <5> HIDE DEF before, more, X
        <5>5. (X \o before) \o d = X \o (before \o d)
          BY <5>7, Associates
        <5>6. (X \o (before \o d)) \o more = X \o ((before \o d) \o more)
          BY <5>4, <5>7, Associates, ZenonT(40)
        <5> QED
          BY <4>1, <4>8, <5>1, <5>2, <5>5, <5>6 DEF Q, i
      <4> QED
        BY <4>5, <4>6
    <3> HIDE DEF Q, X
    <3> QED
      BY <1>1, <3>1, <3>2, CountUp
  <2>8. acc[n + m] = X \o acy[m]
    BY <2>1, <2>7
  <2>9. join(xy, d) = (join(x, d) \o d) \o join(y, d)
    BY <2>2, <2>3, <2>4, <2>8
  <2> QED
    BY <1>6, <2>9 DEF xy
<1> QED
  BY <1>4, <1>5, <1>6

\* The elements in front of an offset and those behind it, joined.
LEMMA JoinedParts ==
  ASSUME NEW list \in Seq(Words), NEW o, NEW l, Apart(list, o, l), NEW d \in Words
  PROVE  (join(part(list, o, l), d) \o (IF l > 0 /\ o + l < Len(list) THEN d ELSE Empty))
           \o join(part(list, o + l, Whole), d)
         = join(part(list, o, Whole), d)
<1> DEFINE front == part(list, o, l)
           back == part(list, o + l, Whole)
           both == part(list, o, Whole)
<1>1. /\ front \in Seq(Words) /\ back \in Seq(Words) /\ both = front \o back
      /\ (front # <<>> /\ back # <<>>) <=> (l > 0 /\ o + l < Len(list))
  BY PartsOfList
<1> HIDE DEF front, back, both
<1>2. join(front, d) \in Seq(Nat) /\ join(back, d) \in Seq(Nat)
  BY <1>1, JoinType, WordsAreCodes
<1>3. join(front, d) \o <<>> = join(front, d)
  BY <1>2
<1>4. join(both, d) = IF front # <<>> /\ back # <<>> THEN (join(front, d) \o d) \o join(back, d)
                      ELSE join(front, d) \o join(back, d)
  BY <1>1, JoinConcat
<1> QED
  BY <1>1, <1>3, <1>4, WordsAreCodes DEF front, back, both

----------------------------------------------------------------------------
(* Parts of variables.                                                     *)

\* The list of positional parameters with $0 in front of it.
LEMMA PartBehindFirst ==
  ASSUME NEW S, NEW list \in Seq(S), NEW z \in S, NEW o \in Nat \ {0},
         NEW l \in Nat \cup {Whole}
  PROVE  /\ <<z>> \o list \in Seq(S) /\ Len(<<z>> \o list) = Len(list) + 1
         /\ in_range(o, Len(<<z>> \o list)) <=> in_range(o - 1, Len(list))
         /\ part(<<z>> \o list, o, l) = part(list, o - 1, l)
<1> DEFINE longer == <<z>> \o list
           n == Len(list)
<1>1. n \in Nat /\ longer \in Seq(S) /\ Len(longer) = n + 1
      /\ \A i \in 1..n : longer[i + 1] = list[i]
  OBVIOUS
<1> HIDE DEF longer
<1>2. in_range(o, n + 1) <=> in_range(o - 1, n)
  BY <1>1 DEF in_range, real_offset
<1>3. CASE ~in_range(o - 1, n)
  BY <1>1, <1>2, <1>3 DEF part, longer
<1>4. CASE in_range(o - 1, n)
  <2>1. o - 1 \in 0..(n - 1) /\ real_offset(o, n + 1) = o /\ real_offset(o - 1, n) = o - 1
    BY <1>1, <1>4 DEF in_range, real_offset
  <2> DEFINE last == IF l = Whole THEN n ELSE Min({o - 1 + l, n})
             last2 == IF l = Whole THEN n + 1 ELSE Min({o + l, n + 1})
  <2>2. last \in Nat /\ last <= n /\ last2 = last + 1
    <3>1. CASE l = Whole
      BY <1>1, <3>1
    <3>2. CASE l # Whole
      <4> DEFINE k == o - 1 + l
      <4>1. k \in Nat /\ o + l = k + 1
        BY <2>1, <3>2
      <4> HIDE DEF k
      <4>2. Min({k, n}) \in {k, n} /\ \A y \in {k, n} : Min({k, n}) <= y
        BY <1>1, <4>1, MinFacts
      <4>5. {k + 1, n + 1} \subseteq Nat /\ {k + 1, n + 1} # {}
        BY <1>1, <4>1
      <4>3. Min({k + 1, n + 1}) \in {k + 1, n + 1} /\ \A y \in {k + 1, n + 1} : Min({k + 1, n + 1}) <= y
        BY <4>5, MinFacts
      <4>4. Min({k + 1, n + 1}) = Min({k, n}) + 1 /\ Min({k, n}) \in Nat /\ Min({k, n}) <= n
        BY <1>1, <4>1, <4>2, <4>3
      <4> QED
        BY <3>2, <4>1, <4>4 DEF k
    <3> QED
      BY <3>1, <3>2
  <2>3. part(list, o - 1, l) = SubSeq(list, o, last)
    <3>1. part(list, o - 1, l) = SubSeq(list, o - 1 + 1, last)
      BY <1>4, <2>1 DEF part
    <3> HIDE DEF last
    <3> QED
      BY <3>1
  <2>4. part(longer, o, l) = SubSeq(longer, o + 1, last + 1)
    <3>1. part(longer, o, l) = SubSeq(longer, o + 1, last2)
      BY <1>1, <1>2, <1>4, <2>1 DEF part
    <3> HIDE DEF last, last2
    <3> QED
      BY <2>2, <3>1
  <2> HIDE DEF last, last2
  <2>5. SubSeq(longer, o + 1, last + 1) = SubSeq(list, o, last)
    <3> DEFINE A == SubSeq(longer, o + 1, last + 1)
               B == SubSeq(list, o, last)
               a == o + 1
               b == last + 1
               size == IF o <= last THEN last - o + 1 ELSE 0
    <3>1. \A i \in a..b : longer[i] \in S
      BY <1>1, <2>2
    <3>2. \A i \in o..last : list[i] \in S
      BY <1>1, <2>2
    <3>3. a \in Int /\ b \in Int /\ o \in Int /\ last \in Int
      BY <2>2
    <3>4. /\ SubSeq(longer, a, b) \in Seq(S)
          /\ Len(SubSeq(longer, a, b)) = IF a <= b THEN b - a + 1 ELSE 0
          /\ \A i \in 1..(b - a + 1) : SubSeq(longer, a, b)[i] = longer[a + i - 1]
      <4> HIDE DEF a, b
      <4> QED
        BY <3>1, <3>3, SubSeqProperties
    <3>5. /\ SubSeq(list, o, last) \in Seq(S)
          /\ Len(SubSeq(list, o, last)) = IF o <= last THEN last - o + 1 ELSE 0
          /\ \A i \in 1..(last - o + 1) : SubSeq(list, o, last)[i] = list[o + i - 1]
      BY <3>2, <3>3, SubSeqProperties
    <3>6. Len(A) = size /\ Len(B) = size /\ size \in Nat
      BY <3>3, <3>4, <3>5
    <3>7. ASSUME NEW i \in 1..size PROVE A[i] = B[i]
      <4>1. i \in 1..(b - a + 1) /\ i \in 1..(last - o + 1) /\ o + i - 1 \in 1..n
            /\ a + i - 1 = (o + i - 1) + 1
        BY <1>1, <2>2, <3>3, SMTT(30)
      <4>2. longer[(o + i - 1) + 1] = list[o + i - 1]
        BY <1>1, <4>1
      <4> HIDE DEF size
      <4> QED
        BY <3>4, <3>5, <4>1, <4>2
    <3>8. A \in Seq(S) /\ B \in Seq(S)
      BY <3>4, <3>5
    <3> HIDE DEF A, B, size
    <3>9. A = B
      BY <3>6, <3>7, <3>8
    <3> QED
      BY <3>9 DEF A, B
  <2> QED
    BY <1>1, <1>2, <2>3, <2>4, <2>5 DEF longer
<1> QED
  BY <1>3, <1>4

\* The offsets and the length of two parts that lie side by side, of n in all.
AreAdjacent(o, l, m, n) ==
    /\ o \in Int /\ m \in Int /\ l \in Int \cup {Whole} /\ l # Whole
    /\ m = o + l
    /\ (o < 0) <=> (m < 0)
    /\ -o <= n

\* Three substring expansions that do not throw.
AreSubstrings(a, b, c, var, u_, o, l, m) ==
    /\ InterpreterException \notin {a, b, c}
    /\ a = do_substring_expansion(var, o, l, 0, u_)
    /\ b = do_substring_expansion(var, m, Whole, 0, u_)
    /\ c = do_substring_expansion(var, o, Whole, 0, u_)

LEMMA SubstringsMakeTheWhole ==
  ASSUME NEW var \in Variable \cup {None}, NEW u_ \in BOOLEAN, NEW o, NEW l, NEW m, NEW n,
         AreAdjacent(o, l, m, n), n = (IF var = None THEN 0 ELSE Len(get_value(var, 0))),
         NEW a, NEW b, NEW c, AreSubstrings(a, b, c, var, u_, o, l, m)
  PROVE  (a \o Empty) \o b = c
<1> USE DEF AreAdjacent, AreSubstrings
<1> DEFINE value == resolve(var, 0, u_)
<1>1. value \in Words \cup {InterpreterException}
  BY ResolveType
<1>2. ~Negative(l) /\ l \in Nat /\ ~Negative(Whole)
  BY DEF do_substring_expansion, Negative
<1>3. value # InterpreterException
  BY <1>2 DEF do_substring_expansion, IfRead
<1>4. a = part(value, o, l) /\ b = part(value, m, Whole) /\ c = part(value, o, Whole)
  BY <1>2, <1>3 DEF do_substring_expansion, IfRead
<1>5. Len(value) = n
  BY <1>3, WordsAreCodes DEF resolve
<1> HIDE DEF value
<1>6. value \in Seq(Nat)
  BY <1>1, <1>3, WordsAreCodes
<1>7. Apart(value, o, l)
  BY <1>2, <1>5 DEF Apart
<1>10. /\ part(value, o, l) \in Seq(Nat)
       /\ part(value, o, l) \o part(value, o + l, Whole) = part(value, o, Whole)
  BY <1>6, <1>7, PartsOfList
<1>8. a \in Seq(Nat) /\ a \o b = c
  BY <1>4, <1>10
<1>9. a \o <<>> = a
  BY <1>8
<1> QED
  BY <1>8, <1>9, WordsAreCodes

\* A subarray expansion that does not throw, as a part of one list: with $0 in
\* front of the positional parameters unless it counts from the end.
PartOfArray(value, list, start, length, delim) ==
    value = IF in_range(start, Len(list)) THEN join(part(list, start, length), delim) ELSE Empty

SlicedList(var, zero, starred, first) ==
    IF starred /\ first >= 0
    THEN <<IF zero = InterpreterException THEN Empty ELSE zero>> \o ArrayValues(var)
    ELSE ArrayValues(var)

LEMMA SubarrayIsPart ==
  ASSUME NEW var \in Variable, NEW zero \in Read, NEW delim \in Read, NEW starred \in BOOLEAN,
         NEW o \in Int, NEW l \in Int \cup {Whole}, NEW u_ \in BOOLEAN,
         NEW first \in Int, (first >= 0) <=> (o >= 0),
         NEW value, value # InterpreterException,
         value = do_subarray_expansion(var, zero, delim, starred, o, l, u_)
  PROVE  LET list == SlicedList(var, zero, starred, first) IN
         /\ l \in Nat \cup {Whole}
         /\ in_range(o, Len(list)) => delim \in Words \ {InterpreterException}
         /\ PartOfArray(value, list, o, l, delim)
<1> DEFINE list == SlicedList(var, zero, starred, first)
           sliced == Sliced(var, zero, starred, o)
           start == SliceOffset(starred, o)
           values == ArrayValues(var)
           z == IF zero = InterpreterException THEN Empty ELSE zero
<1>1. l \in Nat \cup {Whole} /\ ~(starred /\ o = 0 /\ zero = InterpreterException)
  BY DEF do_subarray_expansion, Negative
<1>2. var # None
  BY NoneIsNoVariable
<1>3. value = IF in_range(start, Len(sliced)) THEN IfRead(delim, LAMBDA d : join(part(sliced, start, l), d))
              ELSE Empty
  BY <1>1, <1>2 DEF do_subarray_expansion, Negative, Throws
<1>4. values \in Seq(Words) /\ z \in Words
  BY ArrayValuesType, WordFacts DEF Read
<1>5. /\ in_range(start, Len(sliced)) <=> in_range(o, Len(list))
      /\ part(sliced, start, l) = part(list, o, l)
  <2>1. CASE ~starred \/ o < 0
    <3>1. sliced = values /\ start = o /\ list = values
      BY <2>1 DEF Sliced, SliceOffset, SlicedList
    <3> HIDE DEF sliced, start, list, values
    <3> QED
      BY <3>1
  <2>2. CASE starred /\ o = 0
    <3>1. sliced = <<zero>> \o values /\ start = o /\ list = <<zero>> \o values
      BY <1>1, <2>2 DEF Sliced, SliceOffset, SlicedList
    <3> HIDE DEF sliced, start, list, values
    <3> QED
      BY <3>1
  <2>3. CASE starred /\ o > 0
    <3>1. sliced = values /\ start = o - 1 /\ list = <<z>> \o values /\ o \in Nat \ {0}
      BY <2>3 DEF Sliced, SliceOffset, SlicedList
    <3> HIDE DEF sliced, start, list, values, z
    <3>2. /\ in_range(o, Len(<<z>> \o values)) <=> in_range(o - 1, Len(values))
          /\ part(<<z>> \o values, o, l) = part(values, o - 1, l)
      BY <1>1, <1>4, <3>1, PartBehindFirst
    <3> QED
      BY <3>1, <3>2
  <2> QED
    BY <2>1, <2>2, <2>3
<1> HIDE DEF list, sliced, start, values, z
<1>6. CASE ~in_range(o, Len(list))
  BY <1>1, <1>3, <1>5, <1>6 DEF PartOfArray, list
<1>7. CASE in_range(o, Len(list))
  <2>1. value = IfRead(delim, LAMBDA d : join(part(sliced, start, l), d))
    BY <1>3, <1>5, <1>7
  <2>2. delim # InterpreterException
    BY <2>1 DEF IfRead
  <2>3. value = join(part(list, o, l), delim)
    BY <1>5, <2>1, <2>2 DEF IfRead
  <2> QED
    BY <1>1, <1>7, <2>2, <2>3 DEF PartOfArray, Read, list
<1> QED
  BY <1>6, <1>7

\* Three subarray expansions that do not throw.
AreSubarrays(a, b, c, var, zero, delim, starred, u_, o, l, m) ==
    /\ InterpreterException \notin {a, b, c}
    /\ a = do_subarray_expansion(var, zero, delim, starred, o, l, u_)
    /\ b = do_subarray_expansion(var, zero, delim, starred, m, Whole, u_)
    /\ c = do_subarray_expansion(var, zero, delim, starred, o, Whole, u_)

\* What is between the first two of them.
Separator(starred, l, m, n, first) ==
    IF l > 0 /\ m < n + (IF starred THEN 1 ELSE 0) THEN first ELSE Empty

\* The variable and what else is read; first is the delimiter if it can be read.
IsArrayRead(var, zero, delim, starred, u_, n, first) ==
    /\ var \in Variable \cup {None} /\ zero \in Read /\ delim \in Read
    /\ starred \in BOOLEAN /\ u_ \in BOOLEAN
    /\ n = IF var = None THEN 0 ELSE get_array_length(var)
    /\ delim # InterpreterException => first = delim

LEMMA SubarraysMakeTheWhole ==
  ASSUME NEW var, NEW zero, NEW delim, NEW starred, NEW u_, NEW n, NEW first,
         IsArrayRead(var, zero, delim, starred, u_, n, first),
         NEW o, NEW l, NEW m, AreAdjacent(o, l, m, n),
         NEW a, NEW b, NEW c, AreSubarrays(a, b, c, var, zero, delim, starred, u_, o, l, m)
  PROVE  (a \o Separator(starred, l, m, n, first)) \o b = c
<1> USE DEF IsArrayRead, AreAdjacent, AreSubarrays, Separator
<1> DEFINE between == IF l > 0 /\ m < n + (IF starred THEN 1 ELSE 0) THEN first ELSE Empty
<1>1. CASE var = None
  <2>1. a = Empty /\ b = Empty /\ c = Empty
    BY <1>1 DEF do_subarray_expansion
  <2>2. l \in Int /\ n = 0 /\ 0 <= o
    BY <1>1
  <2>3. ~(l > 0 /\ m < n + (IF starred THEN 1 ELSE 0))
    BY <2>2
  <2>4. between = Empty
    BY <2>3
  <2> HIDE DEF between
  <2>5. (<<>> \o <<>>) \o <<>> = <<>>
    OBVIOUS
  <2> QED
    BY <2>1, <2>4, <2>5, WordsAreCodes DEF between
<1>2. CASE var # None
  <2> DEFINE list == SlicedList(var, zero, starred, o)
             d == IF delim = InterpreterException THEN Empty ELSE delim
             size == Len(list)
  <2>1. var \in Variable
    BY <1>2
  <2>2. /\ l \in Nat \cup {Whole}
        /\ in_range(o, size) => delim \in Words \ {InterpreterException}
        /\ PartOfArray(a, list, o, l, delim)
    BY <2>1, SubarrayIsPart
  <2>3. PartOfArray(b, list, m, Whole, delim) /\ (in_range(m, size) => delim \in Words \ {InterpreterException})
    <3>1. (o >= 0) <=> (m >= 0)
      OBVIOUS
    <3> QED
      <4> DEFINE whole == Whole
      <4>1. whole \in Int \cup {Whole} /\ b # InterpreterException
            /\ b = do_subarray_expansion(var, zero, delim, starred, m, whole, u_)
        OBVIOUS
      <4> HIDE DEF whole, list
      <4>2. PartOfArray(b, SlicedList(var, zero, starred, o), m, whole, delim)
            /\ (in_range(m, Len(SlicedList(var, zero, starred, o))) => delim \in Words \ {InterpreterException})
        BY <2>1, <3>1, <4>1, SubarrayIsPart, SMTT(60)
      <4> QED
        BY <4>2 DEF whole, list
  <2>4. PartOfArray(c, list, o, Whole, delim)
    BY <2>1, SubarrayIsPart
  <2>5. list \in Seq(Words) /\ size = IF starred /\ o >= 0 THEN n + 1 ELSE n
    <3> DEFINE values == ArrayValues(var)
               z == IF zero = InterpreterException THEN Empty ELSE zero
    <3>1. values \in Seq(Words) /\ z \in Words
      BY ArrayValuesType, WordFacts DEF Read
    <3>2. Len(values) = n
      <4>1. values = [k \in 1..n |-> var.value[Ascending(Elements(var))[k]]]
        BY <1>2 DEF ArrayValues, get_all_values
      <4>2. n \in Nat
        BY <1>2, <2>1, GetAllValuesType
      <4> HIDE DEF values
      <4> QED
        BY <3>1, <4>1, <4>2
    <3>3. list = IF starred /\ o >= 0 THEN <<z>> \o values ELSE values
      BY DEF SlicedList
    <3> HIDE DEF list, values, z
    <3>4. <<z>> \o values \in Seq(Words) /\ Len(<<z>> \o values) = n + 1
      BY <3>1, <3>2
    <3> QED
      BY <3>1, <3>2, <3>3, <3>4
  <2>6. n \in Nat /\ l \in Nat /\ size \in Nat
    BY <1>2, <2>1, <2>2, <2>5, GetAllValuesType
  <2> HIDE DEF list
  <2>7. Apart(list, o, l)
    BY <2>5, <2>6 DEF Apart
  <2>8. d \in Words
    BY WordFacts DEF Read
  <2>9. ASSUME NEW value, NEW s \in Int, NEW length \in Nat \cup {Whole},
               PartOfArray(value, list, s, length, delim), in_range(s, size) => delim \in Words \ {InterpreterException}
        PROVE  value = join(part(list, s, length), d)
    <3>1. CASE in_range(s, size)
      <4>1. d = delim
        BY <2>9, <3>1 DEF d
      <4> QED
        BY <2>9, <3>1, <4>1 DEF PartOfArray
    <3>2. CASE ~in_range(s, size)
      <4>1. part(list, s, length) = <<>>
        BY <3>2 DEF part
      <4> QED
        BY <2>8, <2>9, <3>2, <4>1, JoinNothing DEF PartOfArray
    <3> QED
      BY <3>1, <3>2
  <2>10. /\ a = join(part(list, o, l), d) /\ b = join(part(list, m, Whole), d)
         /\ c = join(part(list, o, Whole), d)
    <3>1. a = join(part(list, o, l), d)
      BY <2>2, <2>6, <2>9
    <3>2. b = join(part(list, m, Whole), d)
      BY <2>3, <2>9
    <3>3. c = join(part(list, o, Whole), d)
      BY <2>2, <2>4, <2>9
    <3> QED
      BY <3>1, <3>2, <3>3
  <2>11. l > 0 /\ o + l < size <=> l > 0 /\ m < n + (IF starred THEN 1 ELSE 0)
    BY <2>5, <2>6
  <2>12. between = IF l > 0 /\ o + l < size THEN d ELSE Empty
    <3>1. CASE delim # InterpreterException
      BY <2>11, <3>1
    <3>2. CASE delim = InterpreterException
      <4>1. ~in_range(o, size)
        BY <2>2, <3>2
      <4>2. part(list, o, l) = <<>>
        BY <4>1 DEF part
      <4>3. ~(l > 0 /\ o + l < size)
        BY <2>5, <2>7, <4>2, PartsOfList
      <4> QED
        BY <2>11, <4>3
    <3> QED
      BY <3>1, <3>2
  <2> HIDE DEF d, size, between
  <2>13. (join(part(list, o, l), d) \o (IF l > 0 /\ o + l < Len(list) THEN d ELSE Empty))
           \o join(part(list, o + l, Whole), d)
         = join(part(list, o, Whole), d)
    BY <2>5, <2>7, <2>8, JoinedParts
  <2>14. (a \o between) \o b = c
    BY <2>10, <2>12, <2>13 DEF size
  <2> QED
    BY <2>14 DEF between
<1> QED
  BY <1>1, <1>2

----------------------------------------------------------------------------
(* What commands do: assignments and tests.                                *)

\* The variables after an assignment.
WasAssigned(w, name, value, after) ==
    /\ \A n \in Names \ {name} : after[n] = w.vars[n]
    /\ resolve(after[name], 0, FALSE) = value

LEMMA AssignedVars ==
  ASSUME NEW w \in Interpreter, NEW name \in Names, NEW value \in Words, NEW status \in {0, 1}
  PROVE  WasAssigned(w, name, value, Done(Assigned(w, name, value, 0), status).walker.vars)
<1> DEFINE after == Done(Assigned(w, name, value, 0), status).walker.vars
           vars_ == w.vars
           new == IF vars_[name] = None THEN Scalar(value, FALSE, 0)
                  ELSE WithValue(vars_[name], value, 0)
           x == Assigned(w, name, value, 0)
<1>1. vars_ \in [Names -> Variable \cup {None}]
  BY DEF Interpreter
<1>2. 0 \in Indexes
  BY IndexAssumption DEF Indexes
<1>3. x = [w EXCEPT !.vars[name] = new]
  BY DEF Assigned
<1>4. x.vars = [vars_ EXCEPT ![name] = new]
  <2> HIDE DEF new
  <2> QED
    BY <1>3 DEF Interpreter
<1>5. after = x.vars
  <2>1. "status" \in DOMAIN x
    <3> HIDE DEF new
    <3> QED
      BY <1>3 DEF Interpreter
  <2>2. Done(x, status).walker = [x EXCEPT !.status = status]
    BY DEF Done
  <2>3. "vars" \in DOMAIN x
    <3> HIDE DEF new
    <3> QED
      BY <1>3 DEF Interpreter
  <2> HIDE DEF x
  <2> QED
    BY <2>2, <2>3 DEF x
<1>6. after[name] = new /\ \A n \in Names \ {name} : after[n] = vars_[n]
  <2> HIDE DEF new, x, vars_, after
  <2> QED
    BY <1>1, <1>4, <1>5
<1>7. new \in Variable /\ new.value[0] = value
  <2>1. Scalar(value, FALSE, 0).value[0] = value /\ Scalar(value, FALSE, 0) \in Variable
    BY <1>2, ScalarType DEF Scalar, NoElements
  <2>2. ASSUME NEW var \in Variable
        PROVE  WithValue(var, value, 0).value[0] = value /\ WithValue(var, value, 0) \in Variable
    BY <1>2, WithValueType DEF WithValue, Variable, ValueMap
  <2> HIDE DEF vars_
  <2> QED
    BY <1>1, <2>1, <2>2
<1> HIDE DEF new
<1>8. new # None /\ value # Absent
  BY <1>7, NoneIsNoVariable, WordsAssumption
<1>9. resolve(new, 0, FALSE) = value
  BY <1>2, <1>7, <1>8 DEF resolve, Throws, get_value, Elements
<1> HIDE DEF after
<1>10. WasAssigned(w, name, value, after)
  BY <1>6, <1>9 DEF WasAssigned, vars_
<1> QED
  BY <1>10 DEF after

\* The assignment name=${from...}.
LEMMA AssignRemoves ==
  ASSUME NEW w \in Interpreter, NEW e, IsExpansion(e), e.how = "replace", e.index = 0,
         NEW from \in Names, from = e.name, NEW name \in Names, name # from,
         NEW outcome, outcome = assign(w, name, 0, e), outcome.thrown = None
  PROVE  Removes(e, resolve(outcome.walker.vars[from], 0, FALSE),
                 resolve(outcome.walker.vars[name], 0, FALSE))
<1> DEFINE var == w.vars[from]
           value == Expansion(w, e)
           old == resolve(var, 0, u(w))
           after == outcome.walker.vars
<1>1. var \in Variable \cup {None} /\ u(w) \in BOOLEAN
  BY InterpreterFacts
<1>2. value # InterpreterException /\ outcome = Done(Assigned(w, name, value, 0), w.status)
  BY ExceptionsAssumption DEF assign, Thrown
<1>3. value \in Words
  BY <1>2, ExpansionType DEF Read
<1>4. value = IF old = InterpreterException THEN old
              ELSE replacer(e.operator, old, e.pattern, e.word)
  BY DEF Expansion, do_replace_expansion, IfRead
<1>5. old # InterpreterException /\ old = resolve(var, 0, FALSE) /\ old \in Words
  <2>1. old # InterpreterException
    BY <1>2, <1>4
  <2>2. old \in Words
    BY <1>1, <2>1, ResolveType
  <2> QED
    BY <2>1, <2>2 DEF resolve, Throws
<1>6. Removes(e, old, value)
  <2> HIDE DEF old, value
  <2> QED
    BY <1>4, <1>5, ReplacerRemoves
<1>7. after[from] = var /\ resolve(after[name], 0, FALSE) = value
  <2> DEFINE status == w.status
  <2>1. status \in {0, 1}
    BY InterpreterFacts
  <2>2. after = Done(Assigned(w, name, value, 0), status).walker.vars
    BY <1>2
  <2> HIDE DEF value, after, status
  <2>3. WasAssigned(w, name, value, Done(Assigned(w, name, value, 0), status).walker.vars)
    BY <1>3, <2>1, AssignedVars
  <2>4. WasAssigned(w, name, value, after)
    BY <2>2, <2>3
  <2> QED
    BY <2>4 DEF WasAssigned
<1> HIDE DEF after, var, value, old
<1> QED
  BY <1>5, <1>6, <1>7 DEF after

\* An assignment changes one variable, and option u stays.
LEMMA AssignChanges ==
  ASSUME NEW w \in Interpreter, NEW name \in Names, NEW index, NEW e,
         NEW outcome, outcome = assign(w, name, index, e), outcome.thrown = None
  PROVE  /\ Expansion(w, e) # InterpreterException
         /\ outcome = Done(Assigned(w, name, Expansion(w, e), index), w.status)
         /\ u(outcome.walker) = u(w)
         /\ \A n \in Names \ {name} : outcome.walker.vars[n] = w.vars[n]
<1> DEFINE value == Expansion(w, e)
           x == Assigned(w, name, value, index)
           vars_ == w.vars
           new == IF vars_[name] = None THEN Scalar(value, FALSE, index)
                  ELSE WithValue(vars_[name], value, index)
           status == w.status
<1>1. value # InterpreterException /\ outcome = Done(x, status)
  BY ExceptionsAssumption DEF assign, Thrown
<1>2. x = [w EXCEPT !.vars[name] = new]
  BY DEF Assigned
<1>3. vars_ \in [Names -> Variable \cup {None}]
  BY DEF Interpreter
<1> HIDE DEF value, new
<1>4. x.vars = [vars_ EXCEPT ![name] = new] /\ x.options = w.options
      /\ {"vars", "options", "status"} \subseteq DOMAIN x
  BY <1>2 DEF Interpreter
<1>5. outcome.walker = [x EXCEPT !.status = status]
  BY <1>1 DEF Done
<1> HIDE DEF x, vars_, status
<1>6. outcome.walker.vars = [vars_ EXCEPT ![name] = new] /\ outcome.walker.options = w.options
  BY <1>4, <1>5
<1>7. \A n \in Names \ {name} : outcome.walker.vars[n] = vars_[n]
  BY <1>3, <1>6
<1> QED
  BY <1>1, <1>6, <1>7 DEF u, value, x, vars_, status

\* What a part depends on.
LEMMA SamePart ==
  ASSUME NEW w, NEW v, NEW c, IsCommand(c), TakesPart(c), u(v) = u(w),
         \A n \in {c.value.name, Zero, IFS} : v.vars[n] = w.vars[n]
  PROVE  Expansion(v, c.value) = Expansion(w, c.value)
<1>1. c.value.how \in {"substring", "subarray"}
  BY DEF TakesPart
<1>2. v.vars[c.value.name] = w.vars[c.value.name] /\ v.vars[Zero] = w.vars[Zero] /\ v.vars[IFS] = w.vars[IFS]
  OBVIOUS
<1>3. Delimiter(v) = Delimiter(w)
  BY <1>2 DEF Delimiter
<1>4. CASE c.value.how = "substring"
  BY <1>2, <1>4 DEF Expansion
<1>5. CASE c.value.how = "subarray"
  BY <1>2, <1>3, <1>5 DEF Expansion
<1> QED
  BY <1>1, <1>4, <1>5

\* name=${from:...}, and later assignments.
LEMMA AssignHolds ==
  ASSUME NEW w \in Interpreter, NEW c, IsCommand(c), TakesPart(c), Execute(w, c).thrown = None
  PROVE  PartIsHeld(c, Execute(w, c).walker)
<1> DEFINE outcome == Execute(w, c)
           e == c.value
           name == c.name
           value == Expansion(w, e)
           status == w.status
<1>1. outcome = assign(w, name, 0, e) /\ name \in Names /\ IsExpansion(e)
      /\ {e.name, Zero, IFS} \subseteq Names \ {name}
  BY SpecialNamesAssumption DEF TakesPart, IsCommand, IsExpansion, Execute
<1>2. outcome.thrown = None
  OBVIOUS
<1> HIDE DEF outcome
<1>3. /\ value # InterpreterException /\ outcome = Done(Assigned(w, name, value, 0), status)
      /\ u(outcome.walker) = u(w)
      /\ \A n \in Names \ {name} : outcome.walker.vars[n] = w.vars[n]
  BY <1>1, <1>2, AssignChanges
<1>4. Expansion(outcome.walker, e) = value
  <2>1. \A n \in {c.value.name, Zero, IFS} : outcome.walker.vars[n] = w.vars[n]
    BY <1>1, <1>3
  <2> QED
    BY <1>3, <2>1, SamePart
<1>5. value \in Words
  BY <1>1, <1>3, ExpansionType DEF Read
<1>6. resolve(outcome.walker.vars[name], 0, FALSE) = value
  <2>1. status \in {0, 1}
    BY InterpreterFacts
  <2> HIDE DEF value, name, status
  <2>2. WasAssigned(w, name, value, Done(Assigned(w, name, value, 0), status).walker.vars)
    BY <1>1, <1>5, <2>1, AssignedVars
  <2> QED
    BY <1>3, <2>2 DEF WasAssigned
<1> QED
  BY <1>3, <1>4, <1>6 DEF PartIsHeld, outcome

LEMMA AssignKeeps ==
  ASSUME NEW w \in Interpreter, NEW c, IsCommand(c), NEW d, IsCommand(d), TakesPart(d),
         PartIsHeld(d, w), LeavesAlone(c, d), Execute(w, c).thrown = None
  PROVE  PartIsHeld(d, Execute(w, c).walker)
<1> DEFINE outcome == Execute(w, c)
           name == c.name
           index == c.index
           e == c.value
<1>1. outcome = assign(w, name, index, e) /\ name \in Names
      /\ {d.name, d.value.name, Zero, IFS} \subseteq Names \ {name}
  BY SpecialNamesAssumption DEF LeavesAlone, TakesPart, IsCommand, IsExpansion, Execute
<1>2. outcome.thrown = None
  OBVIOUS
<1> HIDE DEF outcome
<1>3. /\ u(outcome.walker) = u(w)
      /\ \A n \in Names \ {name} : outcome.walker.vars[n] = w.vars[n]
  BY <1>1, <1>2, AssignChanges
<1>4. /\ \A n \in {d.value.name, Zero, IFS} : outcome.walker.vars[n] = w.vars[n]
      /\ outcome.walker.vars[d.name] = w.vars[d.name]
  BY <1>1, <1>3
<1>5. Expansion(outcome.walker, d.value) = Expansion(w, d.value)
  BY <1>3, <1>4, SamePart
<1> QED
  BY <1>4, <1>5 DEF PartIsHeld, outcome

\* set with two arguments, and nothing of them is an exception.
LEMMA SetTwo ==
  ASSUME NEW w \in Interpreter, NEW es, AreArguments(es), Len(es) = 2,
         set_builtin(w, es).thrown = None
  PROVE  /\ argument(w, es[1]) \in Seq(Words) /\ argument(w, es[2]) \in Seq(Words)
         /\ set_builtin(w, es) = set(w, argument(w, es[1]) \o argument(w, es[2]))
<1> DEFINE args == [k \in DOMAIN es |-> argument(w, es[k])]
           T == Seq(Words)
<1>1. DOMAIN es = 1..2
  BY DEF AreArguments, IsList
<1>2. \A k \in 1..2 : args[k] \in T \cup {InterpreterException}
  <2> SUFFICES ASSUME NEW k \in 1..2 PROVE args[k] \in T \cup {InterpreterException}
    OBVIOUS
  <2>1. IsExpansion(es[k])
    BY <1>1 DEF AreArguments, ToSet
  <2>2. argument(w, es[k]) \in Seq(Words) \cup {InterpreterException}
    BY <2>1, ArgumentType
  <2> QED
    BY <1>1, <2>2
<1>3. args[1] = argument(w, es[1]) /\ args[2] = argument(w, es[2]) /\ DOMAIN args = 1..2
  BY <1>1
<1>4. Arguments(w, es) = IF \E k \in 1..2 : args[k] = InterpreterException
                         THEN InterpreterException ELSE FlattenSeq(args)
  BY <1>1 DEF Arguments
<1>8. args = [k \in 1..2 |-> args[k]]
  BY <1>1
<1> HIDE DEF args, T
<1>5. Arguments(w, es) # InterpreterException
  BY ExceptionsAssumption DEF set_builtin, Thrown
<1>6. \A k \in 1..2 : args[k] \in T
  BY <1>2, <1>4, <1>5
<1>7. args \in Seq(T) /\ Len(args) = 2
  <2>1. args \in [1..2 -> T]
    BY <1>6, <1>8
  <2>2. args \in Seq(T)
    BY <2>1, SeqDef
  <2>3. DOMAIN args = 1..2 /\ 2 \in Nat
    BY <2>1
  <2> QED
    BY <2>2, <2>3
<1>9. FlattenSeq(args) = args[1] \o args[2]
  BY <1>7, FlattenTwo DEF T
<1>10. Arguments(w, es) = args[1] \o args[2]
  BY <1>4, <1>5, <1>9
<1>11. set_builtin(w, es) = set(w, Arguments(w, es))
  BY <1>5 DEF set_builtin
<1> QED
  BY <1>3, <1>6, <1>10, <1>11 DEF T

\* set changes $* and no other variable.
LEMMA SetLeaves ==
  ASSUME NEW w \in Interpreter, NEW args, set(w, args).thrown = None
  PROVE  \A n \in Names \ {Star} : set(w, args).walker.vars[n] = w.vars[n]
<1> DEFINE sign == args[1][1]
           letter == args[1][2]
           rest == ListFrom(1, Tail(args))
           v == [w EXCEPT !.vars[Star] = rest]
           options == IF sign = Minus THEN w.options \cup {Letter_u} ELSE w.options \ {Letter_u}
           x == [w EXCEPT !.options = options]
           outcome == set(w, args)
<1>1. outcome
        = IF args = <<>> THEN Thrown(w, InterpreterException)
          ELSE IF Len(args[1]) < 2 \/ sign \notin {Minus, 43} THEN Thrown(w, InterpreterException)
          ELSE IF letter = Minus /\ sign = Minus THEN Done(v, 0)
          ELSE IF letter \in {97, 98, 101, 102, 104, 107, 109, 110, 112, 116, Letter_u} THEN Done(x, 0)
          ELSE Thrown(w, InterpreterException)
  BY DEF set
<1>2. outcome.thrown = None
  OBVIOUS
<1> HIDE DEF rest, options, sign, letter
<1>3. /\ {"vars", "status"} \subseteq DOMAIN v /\ {"vars", "status"} \subseteq DOMAIN x
      /\ x.vars = w.vars /\ \A n \in Names \ {Star} : v.vars[n] = w.vars[n]
  BY DEF Interpreter
<1> HIDE DEF v, x, outcome
<1>4. Thrown(w, InterpreterException).thrown # None
  BY ExceptionsAssumption DEF Thrown
<1>5. Done(v, 0).walker.vars = v.vars /\ Done(x, 0).walker.vars = x.vars
  BY <1>3 DEF Done
<1>6. outcome \in {Done(v, 0), Done(x, 0)}
  BY <1>1, <1>2, <1>4, Zenon
<1> QED
  BY <1>3, <1>5, <1>6 DEF outcome

\* set -- words
LEMMA SetDashes ==
  ASSUME NEW w, NEW rest \in Seq(Words)
  PROVE  set(w, <<<<Minus, Minus>>>> \o rest) = Done([w EXCEPT !.vars[Star] = ListFrom(1, rest)], 0)
<1> DEFINE dashes == <<Minus, Minus>>
           args == <<dashes>> \o rest
<1>1. dashes \in Words /\ Len(dashes) = 2 /\ dashes[1] = Minus /\ dashes[2] = Minus
  BY WordsAreCodes DEF Minus
<1> HIDE DEF dashes
<1>2. args # <<>> /\ args[1] = dashes /\ Tail(args) = rest
  <2>1. <<dashes>> \in Seq(Words) /\ Len(<<dashes>>) = 1 /\ <<dashes>>[1] = dashes
    BY <1>1
  <2>2. /\ args \in Seq(Words) /\ Len(args) = 1 + Len(rest)
        /\ \A i \in 1..(1 + Len(rest)) : args[i] = IF i <= 1 THEN <<dashes>>[i] ELSE rest[i - 1]
    BY <2>1, ConcatProperties
  <2>3. Len(rest) \in Nat
    OBVIOUS
  <2> HIDE DEF args
  <2>4. args # <<>> /\ args[1] = dashes
    BY <2>1, <2>2, <2>3
  <2>5. Tail(args) \in Seq(Words) /\ Len(Tail(args)) = Len(rest)
    BY <2>2, <2>3, <2>4
  <2>6. ASSUME NEW i \in 1..Len(rest) PROVE Tail(args)[i] = rest[i]
    <3> DEFINE k == i + 1
    <3>1. Tail(args)[i] = args[k]
      BY <2>2, <2>3, <2>4, <2>5
    <3>2. k \in 1..(1 + Len(rest)) /\ ~(k <= 1) /\ k - 1 = i
      BY <2>3
    <3> HIDE DEF k
    <3> QED
      BY <2>2, <3>1, <3>2
  <2> QED
    BY <2>4, <2>5, <2>6, SeqEqual
<1> HIDE DEF args
<1> DEFINE sign == args[1][1]
           letter == args[1][2]
           v == [w EXCEPT !.vars[Star] = ListFrom(1, Tail(args))]
           options == [w EXCEPT !.options = IF sign = Minus THEN @ \cup {Letter_u} ELSE @ \ {Letter_u}]
<1>3. set(w, args)
        = IF args = <<>> THEN Thrown(w, InterpreterException)
          ELSE IF Len(args[1]) < 2 \/ sign \notin {Minus, 43} THEN Thrown(w, InterpreterException)
          ELSE IF letter = Minus /\ sign = Minus THEN Done(v, 0)
          ELSE IF letter \in {97, 98, 101, 102, 104, 107, 109, 110, 112, 116, Letter_u}
          THEN Done(options, 0)
          ELSE Thrown(w, InterpreterException)
  BY DEF set
<1>4. sign = Minus /\ letter = Minus /\ ~(Len(args[1]) < 2) /\ args # <<>>
  <2>1. ~(Len(dashes) < 2)
    BY <1>1
  <2> QED
    BY <1>1, <1>2, <2>1, Zenon
<1> HIDE DEF sign, letter, v, options
<1>5. sign \in {Minus, 43}
  BY <1>4
<1>6. set(w, args) = Done(v, 0)
  BY <1>3, <1>4, <1>5, Zenon
<1> QED
  BY <1>2, <1>6 DEF args, dashes, v

\* The argument -- in front of others.
LEMMA DashesArgument ==
  ASSUME NEW w \in Interpreter, NEW e, IsExpansion(e), e.how = "word", e.word = <<Minus, Minus>>,
         e.quoted \in BOOLEAN, e.quoted \/ Minus \notin ToSet(resolve(w.vars[IFS], 0, FALSE)),
         argument(w, e) # InterpreterException
  PROVE  argument(w, e) = <<<<Minus, Minus>>>>
<1> DEFINE dashes == <<Minus, Minus>>
           d == resolve(w.vars[IFS], 0, u(w))
           delimeter == resolve(w.vars[IFS], 0, FALSE)
<1>1. dashes \in Words /\ dashes # Empty /\ ToSet(dashes) = {Minus}
  <2>1. dashes \in Words
    BY WordsAreCodes DEF Minus
  <2>2. dashes # Empty
    BY WordsAreCodes
  <2>3. ToSet(dashes) = {Minus}
    BY DEF ToSet
  <2> QED
    BY <2>1, <2>2, <2>3
<1>2. dashes # InterpreterException /\ Expansion(w, e) = dashes
  <2>1. Expansion(w, e) = dashes
    BY DEF Expansion
  <2>2. dashes # InterpreterException
    BY <2>1 DEF argument
  <2> QED
    BY <2>1, <2>2
<1>3. d \in Read
  BY ReadVariable, SpecialNamesAssumption
<1>4. argument(w, e) = IF e.quoted THEN <<dashes>>
                       ELSE IF d = InterpreterException THEN d ELSE split_word(dashes, d)
  BY <1>1, <1>2 DEF argument, IfRead
<1>5. CASE e.quoted
  BY <1>4, <1>5
<1>6. CASE ~e.quoted
  <2>1. d # InterpreterException /\ argument(w, e) = split_word(dashes, d)
    BY <1>4, <1>6
  <2>2. d = delimeter
    BY <2>1 DEF resolve, Throws
  <2>3. d \in Words
    BY <1>3, <2>1 DEF Read
  <2>4. Minus \notin ToSet(d)
    BY <1>6, <2>2
  <2> HIDE DEF d, delimeter, dashes
  <2>5. ToSet(dashes) \cap ToSet(d) = {}
    BY <1>1, <2>4
  <2>6. split_word(dashes, d) = Runs(dashes, ToSet(d))
    BY <1>1, <2>3, SplitWordRuns
  <2>7. Runs(dashes, ToSet(d)) = <<dashes>>
    BY <1>1, <2>5, OneRun
  <2> QED
    BY <2>1, <2>6, <2>7 DEF dashes
<1> QED
  BY <1>5, <1>6

\* An unquoted value is split into its runs, an empty one into none.
LEMMA SplitArgument ==
  ASSUME NEW w \in Interpreter, NEW e, IsExpansion(e), e.how = "value", e.index = 0,
         e.quoted = FALSE, argument(w, e) # InterpreterException
  PROVE  argument(w, e) = Runs(resolve(w.vars[e.name], 0, FALSE), ToSet(resolve(w.vars[IFS], 0, FALSE)))
<1> DEFINE name == e.name
           value == resolve(w.vars[name], 0, u(w))
           d == resolve(w.vars[IFS], 0, u(w))
           word == resolve(w.vars[name], 0, FALSE)
           delimeter == resolve(w.vars[IFS], 0, FALSE)
<1>1. name \in Names /\ Expansion(w, e) = value
  BY DEF IsExpansion, Expansion
<1>2. value \in Read /\ d \in Read /\ delimeter \in Words
  <2>1. value \in Read /\ d \in Read
    BY <1>1, ReadVariable, SpecialNamesAssumption
  <2>2. w.vars[IFS] \in Variable \cup {None}
    BY SpecialNamesAssumption DEF Interpreter
  <2>3. delimeter = IF w.vars[IFS] = None THEN Empty ELSE get_value(w.vars[IFS], 0)
    BY DEF resolve, Throws
  <2>4. delimeter \in Words
    BY <2>2, <2>3, GetValueType, WordFacts
  <2> QED
    BY <2>1, <2>4
<1>3. argument(w, e) = IF value = InterpreterException THEN value
                       ELSE IF value = Empty THEN <<>>
                       ELSE IF d = InterpreterException THEN d ELSE split_word(value, d)
  BY <1>1 DEF argument, IfRead
<1>4. value # InterpreterException /\ value = word
  <2>1. value # InterpreterException
    BY <1>3
  <2> QED
    BY <2>1 DEF resolve, Throws
<1>5. d # InterpreterException => d = delimeter
  BY DEF resolve, Throws
<1> HIDE DEF value, d, word, delimeter, name
<1>6. value \in Words
  BY <1>2, <1>4 DEF Read
<1>7. \A v \in Words : split_word(v, delimeter) = Runs(v, ToSet(delimeter))
  BY <1>2, SplitWordRuns
<1>8. split_word(Empty, delimeter) = <<>>
  BY WordsAreCodes, SMTT(30) DEF split_word, trim_if
<1> QED
  BY <1>3, <1>4, <1>5, <1>6, <1>7, <1>8 DEF word, delimeter, name

\* set -- $n
LEMMA SplitHolds ==
  ASSUME NEW w \in Interpreter, NEW c, IsCommand(c), Execute(w, c).thrown = None,
         IsSplit(c, resolve(Execute(w, c).walker.vars[IFS], 0, FALSE))
  PROVE  RunsAreHeld(c, Execute(w, c).walker)
<1> DEFINE outcome == Execute(w, c)
           es == c.args
           dashes == es[1]
           value == es[2]
           from == value.name
           word == resolve(w.vars[from], 0, FALSE)
           delimeter == resolve(w.vars[IFS], 0, FALSE)
           runs == Runs(word, ToSet(delimeter))
           vars_ == w.vars
           after == outcome.walker.vars
<1>1. /\ outcome = set_builtin(w, es) /\ outcome.thrown = None
      /\ AreArguments(es) /\ Len(es) = 2
      /\ dashes.how = "word" /\ dashes.word = <<Minus, Minus>>
      /\ dashes.quoted \/ Minus \notin ToSet(resolve(after[IFS], 0, FALSE))
      /\ value.how = "value" /\ value.index = 0 /\ ~value.quoted /\ from # Star
  BY DEF IsSplit, IsCommand, Execute
<1>2. /\ IsExpansion(dashes) /\ IsExpansion(value)
      /\ dashes.quoted \in BOOLEAN /\ value.quoted \in BOOLEAN
  <2>1. DOMAIN es = 1..2
    BY <1>1 DEF AreArguments, IsList
  <2>2. dashes \in ToSet(es) /\ value \in ToSet(es)
    BY <2>1 DEF ToSet
  <2> QED
    BY <1>1, <2>2 DEF AreArguments
<1>3. from \in Names /\ from # Star /\ IFS \in Names /\ IFS # Star /\ Star \in Names
  BY <1>1, <1>2, SpecialNamesAssumption, IFSAssumption DEF IsExpansion
<1>4. vars_ \in [Names -> Variable \cup {None}]
  BY DEF Interpreter
<1> HIDE DEF outcome, es, dashes, value, from, vars_
<1> DEFINE front == argument(w, dashes)
           back == argument(w, value)
<1>5. /\ front \in Seq(Words) /\ back \in Seq(Words)
      /\ outcome = set(w, front \o back)
  BY <1>1, SetTwo DEF dashes, value
<1>6. front # InterpreterException /\ back # InterpreterException
  BY <1>5, NoArguments
<1>7. back = runs
  BY <1>1, <1>2, <1>6, SplitArgument DEF from
<1> HIDE DEF front, back, runs, after
<1>8. after[IFS] = vars_[IFS] /\ after[from] = vars_[from]
  <2> DEFINE args == front \o back
  <2> HIDE DEF args
  <2>1. set(w, args).thrown = None /\ outcome = set(w, args)
    BY <1>1, <1>5 DEF args
  <2>2. \A n \in Names \ {Star} : set(w, args).walker.vars[n] = w.vars[n]
    BY <2>1, SetLeaves
  <2> QED
    BY <1>3, <2>1, <2>2 DEF after, vars_
<1>9. front = <<<<Minus, Minus>>>>
  <2>1. dashes.quoted \/ Minus \notin ToSet(resolve(w.vars[IFS], 0, FALSE))
    BY <1>1, <1>8 DEF vars_, resolve, Throws
  <2> QED
    BY <1>1, <1>2, <1>6, <2>1, DashesArgument DEF front
<1>10. outcome = Done([w EXCEPT !.vars[Star] = ListFrom(1, runs)], 0)
  BY <1>5, <1>7, <1>9, SetDashes
<1>11. after = [vars_ EXCEPT ![Star] = ListFrom(1, runs)]
  <2> DEFINE new == ListFrom(1, runs)
             x == [w EXCEPT !.vars[Star] = new]
  <2>1. outcome = Done(x, 0)
    BY <1>10
  <2> HIDE DEF new
  <2>2. x.vars = [vars_ EXCEPT ![Star] = new] /\ {"vars", "status"} \subseteq DOMAIN x
    BY DEF Interpreter, vars_
  <2> HIDE DEF x
  <2>3. outcome.walker = [x EXCEPT !.status = 0]
    BY <2>1 DEF Done
  <2> QED
    BY <2>2, <2>3 DEF new, after
<1>12. after[Star] = ListFrom(1, runs)
  BY <1>3, <1>4, <1>11
<1>13. Len(runs) <= MaxIndex =>
          /\ Elements(after[Star]) = 1..Len(runs)
          /\ \A k \in 1..Len(runs) : get_value(after[Star], k) = runs[k]
  BY <1>5, <1>7, <1>12, ListFromOne
<1>14. runs = Runs(resolve(after[from], 0, FALSE), ToSet(resolve(after[IFS], 0, FALSE)))
  BY <1>8, SMTT(30) DEF runs, vars_
<1> HIDE DEF runs
<1> QED
  BY <1>13, <1>14 DEF RunsAreHeld, outcome, after, from, value, es

\* Two parts that are held, and the whole.
HoldsPart(w, c) == IsCommand(c) /\ TakesPart(c) /\ PartIsHeld(c, w)

HoldParts(w, a, b, c, var) ==
    /\ HoldsPart(w, a) /\ HoldsPart(w, b) /\ HoldsPart(w, c)
    /\ var = w.vars[c.value.name]
    /\ SideBySide(a.value, b.value, c.value, var)

MakeTheWhole(w, a, b, c, var) ==
    (resolve(w.vars[a.name], 0, FALSE)
        \o Between(a.value, b.value, var, FirstOf(resolve(w.vars[IFS], 0, FALSE))))
        \o resolve(w.vars[b.name], 0, FALSE)
    = resolve(w.vars[c.name], 0, FALSE)

LEMMA HeldPartsMakeTheWhole ==
  ASSUME NEW w \in Interpreter,
         NEW a, NEW b, NEW c, NEW var, HoldParts(w, a, b, c, var)
  PROVE  MakeTheWhole(w, a, b, c, var)
<1> USE DEF HoldsPart, HoldParts, MakeTheWhole
<1> DEFINE x == Expansion(w, a.value)
           y == Expansion(w, b.value)
           z == Expansion(w, c.value)
           n == SizeOf(a.value, var)
           o == a.value.offset
           l == a.value.length
           m == b.value.offset
           how == a.value.how
           first == FirstOf(resolve(w.vars[IFS], 0, FALSE))
           starred == a.value.name = Star
           delim == Delimiter(w)
           zero == resolve(w.vars[Zero], 0, u(w))
           u_ == u(w)
           between == Between(a.value, b.value, var, first)
<1>1. /\ resolve(w.vars[a.name], 0, FALSE) = x /\ resolve(w.vars[b.name], 0, FALSE) = y
      /\ resolve(w.vars[c.name], 0, FALSE) = z /\ InterpreterException \notin {x, y, z}
  BY DEF PartIsHeld
<1>2. /\ how \in {"substring", "subarray"} /\ b.value.how = how /\ c.value.how = how
      /\ a.value.name = c.value.name /\ b.value.name = c.value.name
      /\ a.value.index = 0 /\ b.value.index = 0 /\ c.value.index = 0
      /\ l # Whole /\ b.value.length = Whole /\ c.value.length = Whole
      /\ c.value.offset = o /\ m = o + l /\ (o < 0 <=> m < 0) /\ -o <= n
  BY DEF SideBySide, TakesPart
<1>3. c.value.name \in Names /\ o \in Int /\ m \in Int /\ l \in Int \cup {Whole}
  BY <1>2 DEF IsCommand, TakesPart, IsExpansion
<1>4. var \in Variable \cup {None} /\ u_ \in BOOLEAN
  BY <1>3, InterpreterFacts
<1>5. zero \in Read /\ delim \in Read /\ starred \in BOOLEAN
  BY ReadVariable, DelimiterType, SpecialNamesAssumption
<1>6. CASE how = "substring"
  <2>1. /\ x = do_substring_expansion(var, o, l, 0, u_)
        /\ y = do_substring_expansion(var, m, Whole, 0, u_)
        /\ z = do_substring_expansion(var, o, Whole, 0, u_)
    BY <1>2, <1>6 DEF Expansion
  <2>2. n = IF var = None THEN 0 ELSE Len(get_value(var, 0))
    BY <1>6 DEF SizeOf
  <2>3. between = Empty
    BY <1>6 DEF Between
  <2> HIDE DEF x, y, z, n, o, l, m, how, u_, between
  <2>5. AreAdjacent(o, l, m, n) /\ AreSubstrings(x, y, z, var, u_, o, l, m)
    BY <1>1, <1>2, <1>3, <2>1 DEF AreAdjacent, AreSubstrings
  <2>4. (x \o Empty) \o y = z
    BY <1>4, <2>2, <2>5, SubstringsMakeTheWhole
  <2> QED
    BY <1>1, <2>3, <2>4 DEF between, first
<1>7. CASE how = "subarray"
  <2>1. /\ x = do_subarray_expansion(var, zero, delim, starred, o, l, u_)
        /\ y = do_subarray_expansion(var, zero, delim, starred, m, Whole, u_)
        /\ z = do_subarray_expansion(var, zero, delim, starred, o, Whole, u_)
    BY <1>2, <1>7 DEF Expansion
  <2>2. n = IF var = None THEN 0 ELSE get_array_length(var)
    BY <1>7 DEF SizeOf
  <2>3. between = Separator(starred, l, m, n, first)
    BY <1>7 DEF Between, Separator
  <2>4. delim # InterpreterException => first = delim
    BY DEF Delimiter, IfRead, resolve, Throws
  <2> HIDE DEF x, y, z, n, o, l, m, how, u_, between, zero, delim, starred, first
  <2>5. (x \o Separator(starred, l, m, n, first)) \o y = z
    <3>1. AreAdjacent(o, l, m, n) /\ AreSubarrays(x, y, z, var, zero, delim, starred, u_, o, l, m)
      BY <1>1, <1>2, <1>3, <2>1 DEF AreAdjacent, AreSubarrays
    <3>2. IsArrayRead(var, zero, delim, starred, u_, n, first)
      BY <1>4, <1>5, <2>2, <2>4 DEF IsArrayRead
    <3> QED
      BY <3>1, <3>2, SubarraysMakeTheWhole
  <2> QED
    BY <1>1, <2>3, <2>5 DEF between, first
<1> QED
  BY <1>2, <1>6, <1>7

\* [[ ]].
LEMMA TestTells ==
  ASSUME NEW w \in Interpreter, NEW t, IsTest(t), NEW outcome, outcome = Test(w, t),
         outcome.thrown = None
  PROVE  Tells(t, outcome.walker.status = 0)
<1> DEFINE holds == IF t.binary THEN test_binary(t.operator, t.lhs, t.rhs)
                    ELSE test_unary(t.operator, t.lhs.word, t.lhs.tty, t.lhs)
<1>1. outcome = Done(w, IF holds THEN 0 ELSE 1) /\ holds # InterpreterException
  <2>1. outcome = IF holds = InterpreterException THEN Thrown(w, holds)
                  ELSE Done(w, IF holds THEN 0 ELSE 1)
    BY DEF Test
  <2> HIDE DEF holds
  <2>2. Thrown(w, InterpreterException).thrown # None
    BY ExceptionsAssumption DEF Thrown
  <2> QED
    BY <2>1, <2>2
<1> HIDE DEF holds
<1>2. outcome.walker.status = IF holds THEN 0 ELSE 1
  BY <1>1 DEF Done, Interpreter
<1>3. (outcome.walker.status = 0) <=> holds
  BY <1>2
<1>4. ASSUME t.binary, t.operator = "nt" PROVE holds <=> (Age(t.lhs) > Age(t.rhs))
  <2>1. holds <=> \/ stat_status(t.lhs.info) > stat_status(t.rhs.info)
                  \/ stat_status(t.lhs.info) = 0 /\ t.lhs.info.mtime > t.rhs.info.mtime
    BY <1>4 DEF holds, test_binary, file_comp
  <2> QED
    BY <1>4, <2>1 DEF IsTest, Info, stat_status, Age
<1>5. ASSUME t.binary, t.operator = "ot" PROVE holds <=> (Age(t.rhs) > Age(t.lhs))
  <2>1. holds <=> \/ stat_status(t.lhs.info) < stat_status(t.rhs.info)
                  \/ stat_status(t.rhs.info) = 0 /\ t.lhs.info.mtime < t.rhs.info.mtime
    BY <1>5 DEF holds, test_binary, file_comp
  <2> QED
    BY <1>5, <2>1 DEF IsTest, Info, stat_status, Age
<1>6. ASSUME t.binary, t.operator = "ef", holds PROVE Age(t.lhs) = Age(t.rhs) /\ Age(t.lhs) # -1
  <2>1. /\ stat_status(t.lhs.info) = 0 /\ stat_status(t.rhs.info) = 0
        /\ t.lhs.info.inode = t.rhs.info.inode
    BY <1>6 DEF holds, test_binary, file_comp
  <2>2. t.lhs.info # Missing /\ t.rhs.info # Missing
    BY <2>1 DEF stat_status
  <2>3. t.lhs.info = t.rhs.info /\ t.lhs.info \in Info
    BY <1>6, <2>1, <2>2 DEF IsTest
  <2> QED
    BY <2>2, <2>3 DEF Age, Info
<1>7. ASSUME ~t.binary, t.operator \notin {"L", "h", "z", "n", "t"}, holds PROVE t.lhs.info # Missing
  <2>1. CASE t.operator = "o"
    BY <1>1, <1>7, <2>1 DEF holds, test_unary
  <2>2. CASE t.operator # "o"
    <3>1. holds = test_file_stat(t.operator, t.lhs)
      BY <1>7, <2>2 DEF holds, test_unary
    <3> QED
      BY <1>7, <3>1 DEF test_file_stat
  <2> QED
    BY <2>1, <2>2
<1> QED
  BY <1>3, <1>4, <1>5, <1>6, <1>7 DEF Tells

\* Each command does what it should, in any state of an interpreter.
LEMMA CommandDoes == CommandsDo
<1> SUFFICES ASSUME NEW w \in Interpreter, NEW c, IsCommand(c), Execute(w, c).thrown = None
             PROVE  /\ HasDone(c, Execute(w, c).walker)
                    /\ \A d : (IsCommand(d) /\ TakesPart(d) /\ PartIsHeld(d, w) /\ LeavesAlone(c, d)) =>
                          PartIsHeld(d, Execute(w, c).walker)
  BY DEF CommandsDo
<1>1. ASSUME c.kind = "test" PROVE Tells(c.test, Execute(w, c).walker.status = 0)
  <2> DEFINE t == c.test
             outcome == Execute(w, c)
  <2>1. outcome = Test(w, t)
    BY <1>1 DEF Execute
  <2>2. IsTest(t)
    BY <1>1 DEF IsCommand
  <2>3. outcome.thrown = None
    OBVIOUS
  <2> HIDE DEF t, outcome
  <2>4. Tells(t, outcome.walker.status = 0)
    BY <2>1, <2>2, <2>3, TestTells
  <2> QED
    BY <2>4 DEF t, outcome
<1>2. ASSUME IsRemoval(c)
      PROVE  Removes(c.value, resolve(Execute(w, c).walker.vars[c.value.name], 0, FALSE),
                     resolve(Execute(w, c).walker.vars[c.name], 0, FALSE))
  <2> DEFINE e == c.value
             from == c.value.name
             name == c.name
             outcome == Execute(w, c)
  <2>1. c.kind = "assign" /\ c.index = 0 /\ e.how = "replace" /\ e.index = 0 /\ from # name
    BY <1>2 DEF IsRemoval
  <2>2. outcome = assign(w, name, 0, e)
    BY <2>1 DEF Execute
  <2>3. IsExpansion(e) /\ name \in Names /\ from \in Names /\ from = e.name
    BY <2>1 DEF IsCommand, IsExpansion
  <2>4. outcome.thrown = None
    OBVIOUS
  <2> HIDE DEF e, from, name, outcome
  <2>5. Removes(e, resolve(outcome.walker.vars[from], 0, FALSE),
                resolve(outcome.walker.vars[name], 0, FALSE))
    BY <2>1, <2>2, <2>3, <2>4, AssignRemoves
  <2> QED
    BY <2>5 DEF e, from, name, outcome
<1>3. IsSplit(c, resolve(Execute(w, c).walker.vars[IFS], 0, FALSE))
        => RunsAreHeld(c, Execute(w, c).walker)
  BY SplitHolds
<1>4. TakesPart(c) => PartIsHeld(c, Execute(w, c).walker)
  BY AssignHolds
<1> QED
  BY <1>1, <1>2, <1>3, <1>4, AssignKeeps DEF HasDone

----------------------------------------------------------------------------
(* The theorems.                                                           *)

LEMMA JobsStayRight == Spec => [](TInv /\ QueueIsFresh)
<1>1. Init => TInv /\ QueueIsFresh
  BY InitTypes, InitIsFresh
<1>2. (TInv /\ QueueIsFresh) /\ [Next]_vars => (TInv /\ QueueIsFresh)'
  BY CommandDoes, NextIsRight
<1> QED
  BY <1>1, <1>2, PTL DEF Spec

\* Types, for any packages, scripts, names and team: an interpreter lives exactly
\* while a script is walked, whatever commands it executes and whatever they are
\* given, and its options of shopt stay among those of the constructor.
THEOREM TypesAreRight == Spec => []TypeOK
<1>1. TInv => TypeOK
  BY InvariantTypes
<1> QED
  BY <1>1, JobsStayRight, PTL

\* The commands of Main that have been executed, and its interpreter.
LEMMA ExecutedFacts ==
  ASSUME TInv, Executed # <<>>
  PROVE  LET s == input.files[path(Main)]
             n == Len(Executed)
         IN /\ n \in 1..Len(s) /\ Len(s) \in Nat
            /\ \A i \in 1..n : Executed[i] = s[i] /\ IsCommand(s[i])
            /\ walker \in Interpreter
            /\ HasDone(s[n], walker)
            /\ Remembers(s, n + 1, walker)
<1> DEFINE r == jobs[Main]
           s == input.files[path(Main)]
           n == r.pc - 1
<1>1. r.stage = "script" /\ Executed = SubSeq(s, 1, n)
  BY DEF Executed, script
<1>2. JobIsRight(Main, r)
  BY DEF TInv, JobsAreRight, Jobs
<1>3. /\ Walks(s, r.pc) /\ (r.pc > 1 => HasDone(s[r.pc - 1], r.walker))
      /\ Remembers(s, r.pc, r.walker) /\ r.walker \in Interpreter
  BY <1>1, <1>2 DEF JobIsRight, JobTypes
<1>4. /\ s \in Seq(ToSet(s)) /\ Len(s) \in Nat /\ r.pc \in 1..(Len(s) + 1)
      /\ \A e \in ToSet(s) : IsCommand(e)
  BY <1>3 DEF Walks, IsScript, IsList
<1> HIDE DEF r, s
<1>5. n \in 0..Len(s) /\ n \in Int /\ r.pc = n + 1
  BY <1>4
<1>6. n # 0
  <2>1. SubSeq(s, 1, 0) = <<>>
    BY SubSeqEmpty
  <2> QED
    BY <1>1, <2>1
<1>7. n \in 1..Len(s) /\ r.pc > 1
  BY <1>4, <1>5, <1>6
<1> HIDE DEF n
<1>8. Len(Executed) = n /\ \A i \in 1..n : Executed[i] = s[i] /\ IsCommand(s[i])
  <2>1. \A i \in 1..n : s[i] \in ToSet(s)
    BY <1>4, <1>5
  <2>2. 1 <= n /\ n - 1 + 1 = n /\ \A i \in 1..n : 1 + i - 1 = i
    BY <1>7
  <2>3. /\ Len(SubSeq(s, 1, n)) = IF 1 <= n THEN n - 1 + 1 ELSE 0
        /\ \A i \in 1..(n - 1 + 1) : SubSeq(s, 1, n)[i] = s[1 + i - 1]
    BY <1>5, <2>1, SubSeqProperties
  <2>4. \A i \in 1..n : SubSeq(s, 1, n)[i] = s[i]
    BY <2>2, <2>3
  <2> QED
    BY <1>1, <1>4, <2>1, <2>2, <2>3, <2>4
<1>9. HasDone(s[n], r.walker) /\ Remembers(s, n + 1, r.walker)
  BY <1>3, <1>5, <1>7 DEF n
<1> QED
  BY <1>3, <1>4, <1>7, <1>8, <1>9 DEF walker, r, s

\* What the last command of Main has done is seen in its interpreter.
LEMMA LastHasDone ==
  ASSUME TInv, Executed # <<>>
  PROVE  HasDone(Last(Executed), walker)
<1> DEFINE n == Len(Executed)
           c == input.files[path(Main)][n]
<1>1. n \in Nat \ {0} /\ Executed[n] = c /\ HasDone(c, walker)
  BY ExecutedFacts
<1> QED
  BY <1>1 DEF Last

\* [[ ]] with -nt, -ot, -ef and the tests of one file, for any files.
THEOREM TestsAgree == Spec => []FileTestsAgree
<1>1. TInv => FileTestsAgree
  BY LastHasDone DEF FileTestsAgree, HasDone
<1> QED
  BY <1>1, JobsStayRight, PTL

\* ${n#p}, ${n##p}, ${n%p}, ${n%%p} and their replacements take the shortest or
\* the longest match, for any words and patterns.
THEOREM RemovalsAreExtremal == Spec => []RemovalIsExtremal
<1>1. TInv => RemovalIsExtremal
  BY LastHasDone DEF RemovalIsExtremal, HasDone, ValueOf
<1> QED
  BY <1>1, JobsStayRight, PTL

\* set -- $n splits a word of any length at any separators into its runs, and they
\* are the positional parameters, whatever the parameters were.
THEOREM SplitsAreRuns == Spec => []SplitIsRuns
<1>1. TInv => SplitIsRuns
  BY LastHasDone DEF SplitIsRuns, HasDone, RunsAreHeld, ValueOf
<1> QED
  BY <1>1, JobsStayRight, PTL

\* Two parts of a word, of an array or of the positional parameters that lie side by
\* side make up the whole, for any offsets and lengths: the first two commands of
\* the three still hold theirs when the third is done.
THEOREM PartsMakeWholes == Spec => []PartsMakeTheWhole
<1>1. TInv => PartsMakeTheWhole
  <2> DEFINE n == Len(Executed)
             a == Executed[n - 2]
             b == Executed[n - 1]
             c == Executed[n]
             var == walker.vars[c.value.name]
             s == input.files[path(Main)]
             w == walker
  <2> SUFFICES ASSUME TInv, n >= 3, TakesPart(a), TakesPart(b), TakesPart(c),
                      a.name # b.name, c.name \notin {a.name, b.name},
                      SideBySide(a.value, b.value, c.value, var)
               PROVE  (ValueOf(a.name) \o Between(a.value, b.value, var, FirstOf(ValueOf(IFS))))
                          \o ValueOf(b.name) = ValueOf(c.name)
    BY DEF PartsMakeTheWhole
  <2>1. Executed # <<>>
    OBVIOUS
  <2>2. /\ n \in 1..Len(s) /\ Len(s) \in Nat
        /\ \A i \in 1..n : Executed[i] = s[i] /\ IsCommand(s[i])
        /\ w \in Interpreter /\ Remembers(s, n + 1, w)
    BY <2>1, ExecutedFacts
  <2> HIDE DEF n, s, w
  <2>3. /\ n - 2 \in 1..n /\ n - 1 \in 1..n /\ n \in 1..n /\ n + 1 - 1 = n
        /\ ((n - 2) + 1)..n = {n - 1, n} /\ ((n - 1) + 1)..n = {n} /\ (n + 1)..n = {}
    BY <2>2
  <2>4. a = s[n - 2] /\ b = s[n - 1] /\ c = s[n] /\ IsCommand(a) /\ IsCommand(b) /\ IsCommand(c)
    BY <2>2, <2>3
  <2> HIDE DEF a, b, c
  <2>5. /\ LeavesAlone(b, a) /\ LeavesAlone(c, a) /\ LeavesAlone(c, b)
    BY DEF LeavesAlone, TakesPart, SideBySide
  <2>6. HoldsPart(w, a)
    <3>1. \A m \in ((n - 2) + 1)..((n + 1) - 1) : LeavesAlone(s[m], s[n - 2])
      BY <2>3, <2>4, <2>5
    <3>2. n - 2 \in 1..((n + 1) - 1)
      BY <2>3
    <3> QED
      BY <2>2, <2>4, <3>1, <3>2 DEF Remembers, HoldsPart
  <2>7. HoldsPart(w, b)
    <3>1. \A m \in ((n - 1) + 1)..((n + 1) - 1) : LeavesAlone(s[m], s[n - 1])
      BY <2>3, <2>4, <2>5
    <3>2. n - 1 \in 1..((n + 1) - 1)
      BY <2>3
    <3> QED
      BY <2>2, <2>4, <3>1, <3>2 DEF Remembers, HoldsPart
  <2>8. HoldsPart(w, c)
    <3>1. \A m \in (n + 1)..((n + 1) - 1) : LeavesAlone(s[m], s[n])
      BY <2>3
    <3>2. n \in 1..((n + 1) - 1)
      BY <2>3
    <3> QED
      BY <2>2, <2>4, <3>1, <3>2 DEF Remembers, HoldsPart
  <2>9. var = w.vars[c.value.name]
    BY DEF w
  <2> HIDE DEF var
  <2>10. HoldParts(w, a, b, c, var) /\ w \in Interpreter
    BY <2>2, <2>6, <2>7, <2>8, <2>9 DEF HoldParts
  <2>11. MakeTheWhole(w, a, b, c, var)
    BY <2>10, HeldPartsMakeTheWhole
  <2> QED
    BY <2>11 DEF MakeTheWhole, ValueOf, w
<1> QED
  BY <1>1, JobsStayRight, PTL

----------------------------------------------------------------------------
(* FlattenSeq, and the words and separators of a text.                     *)

\* One word joined is itself.
LEMMA JoinOne ==
  ASSUME NEW v \in Words, NEW d \in Words
  PROVE  join(<<v>>, d) = v
<1> DEFINE words == <<v>>
<1>1. words \in Seq(Words) /\ Len(words) = 1 /\ words[1] = v /\ v \in Seq(Nat)
  BY WordsAreCodes
<1> HIDE DEF words
<1>2. PICK acc \in [0..1 -> Words] :
         /\ acc[0] = Empty
         /\ \A i \in 1..1 : acc[i] = JoinStep(words, d, acc[i - 1], i)
         /\ acc[1] = join(words, d)
  BY <1>1, JoinUnfolds
<1>3. acc[1] = JoinStep(words, d, acc[0], 1)
  BY <1>2
<1>4. acc[1] = <<>> \o v
  BY <1>1, <1>2, <1>3, WordsAreCodes DEF JoinStep
<1>5. <<>> \o v = v
  BY <1>1
<1> QED
  BY <1>2, <1>4, <1>5 DEF words

\* A list and its last element.
LEMMA FrontAndLast ==
  ASSUME NEW S, NEW s \in Seq(S), s # <<>>
  PROVE  s = Front(s) \o <<Last(s)>>
<1>1. Front(s) \in Seq(S) /\ Len(Front(s)) = Len(s) - 1 /\ Last(s) \in S /\ Last(s) = s[Len(s)]
  BY FrontLast DEF Last
<1>2. \A k \in 1..(Len(s) - 1) : Front(s)[k] = s[k]
  BY <1>1 DEF Front
<1> DEFINE t == Front(s) \o <<Last(s)>>
           n == Len(s)
<1>3. n \in Nat /\ n >= 1
  OBVIOUS
<1>4. t \in Seq(S) /\ Len(t) = n
  BY <1>1
<1>5. ASSUME NEW k \in 1..n PROVE t[k] = s[k]
  <2>1. CASE k = n
    BY <1>1, <2>1
  <2>2. CASE k # n
    BY <1>1, <1>2, <2>2
  <2> QED
    BY <2>1, <2>2
<1> HIDE DEF t
<1>6. t = s
  BY <1>3, <1>4, <1>5, SeqEqual
<1> QED
  BY <1>6 DEF t

\* One more element.
LEMMA AppendConcat ==
  ASSUME NEW S, NEW s \in Seq(S), NEW e \in S
  PROVE  Append(s, e) = s \o <<e>>
<1> DEFINE a == Append(s, e)
           t == s \o <<e>>
           n == Len(s) + 1
<1>1. n \in Nat /\ a \in Seq(S) /\ Len(a) = n
  OBVIOUS
<1>2. t \in Seq(S) /\ Len(t) = n
  OBVIOUS
<1>3. ASSUME NEW k \in 1..n PROVE a[k] = t[k]
  OBVIOUS
<1> HIDE DEF a, t
<1>4. a = t
  BY <1>1, <1>2, <1>3, SeqEqual
<1> QED
  BY <1>4 DEF a, t

\* One more character in the last word, or one more word.
LEMMA JoinGrows ==
  ASSUME NEW words \in Seq(Words), words # <<>>, NEW d \in Words, NEW c \in Nat
  PROVE  /\ join(Append(Front(words), Append(Last(words), c)), d) = join(words, d) \o <<c>>
         /\ join(Append(words, Empty), d) = join(words, d) \o d
<1> DEFINE x == Front(words)
           l == Last(words)
           more == Append(l, c)
           J(s) == join(s, d)
<1>1. x \in Seq(Words) /\ l \in Words /\ l \in Seq(Nat) /\ d \in Seq(Nat)
  BY FrontLast, WordsAreCodes
<1>2. words = x \o <<l>>
  BY FrontAndLast
<1>3. more \in Words /\ more = l \o <<c>> /\ <<c>> \in Seq(Nat)
  <2>1. more \in Seq(Nat) /\ more = l \o <<c>>
    BY <1>1
  <2> QED
    BY <2>1, WordsAreCodes
<1>4. Append(x, more) = x \o <<more>>
  <2> HIDE DEF x, more
  <2> QED
    BY <1>1, <1>3, AppendConcat
<1>5. J(x) \in Seq(Nat) /\ J(words) \in Seq(Nat)
  BY <1>1, JoinType, WordsAreCodes
<1> HIDE DEF x, l, more, J
<1>6. J(<<l>>) = l /\ J(<<more>>) = more
  BY <1>1, <1>3, JoinOne DEF J
<1>7. <<l>> \in Seq(Words) /\ <<more>> \in Seq(Words) /\ <<l>> # <<>> /\ <<more>> # <<>>
  BY <1>1, <1>3
<1>8. J(words) = IF x # <<>> THEN (J(x) \o d) \o l ELSE J(x) \o l
  <2> DEFINE y == <<l>>
  <2>1. y \in Seq(Words) /\ y # <<>> /\ J(y) = l
    BY <1>6, <1>7
  <2> HIDE DEF y
  <2>2. J(x \o y) = IF x # <<>> THEN (J(x) \o d) \o l ELSE J(x) \o l
    BY <1>1, <2>1, JoinConcat, ZenonT(40) DEF J
  <2> QED
    BY <1>2, <2>2 DEF y
<1>9. J(x \o <<more>>) = IF x # <<>> THEN (J(x) \o d) \o more ELSE J(x) \o more
  <2> DEFINE y == <<more>>
  <2>1. y \in Seq(Words) /\ y # <<>> /\ J(y) = more
    BY <1>6, <1>7
  <2> HIDE DEF y
  <2>2. J(x \o y) = IF x # <<>> THEN (J(x) \o d) \o more ELSE J(x) \o more
    BY <1>1, <2>1, JoinConcat, ZenonT(40) DEF J
  <2> QED
    BY <2>2 DEF y
<1>10. J(x \o <<more>>) = J(words) \o <<c>>
  <2>1. CASE x # <<>>
    <3> DEFINE start == J(x) \o d
    <3>1. start \in Seq(Nat)
      BY <1>1, <1>5
    <3> HIDE DEF start
    <3>2. start \o (l \o <<c>>) = (start \o l) \o <<c>>
      BY <1>1, <1>3, <3>1, Associates
    <3> QED
      BY <1>3, <1>8, <1>9, <2>1, <3>2 DEF start
  <2>2. CASE x = <<>>
    <3>1. J(x) \o (l \o <<c>>) = (J(x) \o l) \o <<c>>
      BY <1>1, <1>3, <1>5, Associates, SMTT(30)
    <3> QED
      BY <1>3, <1>8, <1>9, <2>2, <3>1
  <2> QED
    BY <2>1, <2>2
<1>11. J(Append(words, Empty)) = J(words) \o d
  <2>1. Empty \in Words /\ Append(words, Empty) = words \o <<Empty>>
    BY WordFacts
  <2>2. <<Empty>> \in Seq(Words) /\ <<Empty>> # <<>>
    BY <2>1
  <2>3. J(words \o <<Empty>>) = (J(words) \o d) \o J(<<Empty>>)
    BY <2>2, JoinConcat DEF J
  <2>4. J(<<Empty>>) = <<>>
    BY <2>1, JoinOne, WordsAreCodes DEF J
  <2> DEFINE all == J(words) \o d
  <2>5. all \in Seq(Nat)
    BY <1>1, <1>5
  <2> HIDE DEF all
  <2>6. all \o <<>> = all
    BY <2>5
  <2> QED
    BY <2>1, <2>3, <2>4, <2>6 DEF all
<1> QED
  BY <1>4, <1>10, <1>11 DEF J, x, l, more

\* The characters of a word, one by one.
LEMMA PrefixGrows ==
  ASSUME NEW S, NEW s \in Seq(S), NEW i \in 0..(Len(s) - 1)
  PROVE  SubSeq(s, 1, i + 1) = SubSeq(s, 1, i) \o <<s[i + 1]>>
<1> DEFINE k == i + 1
<1>1. k \in 1..Len(s) /\ i = k - 1 /\ i \in Nat /\ i <= Len(s) /\ Len(s) \in Nat
  OBVIOUS
<1>2. SubSeq(s, 1, k) \in Seq(S) /\ SubSeq(s, 1, i) \in Seq(S)
  BY <1>1, SubSeqType
<1>3. Len(SubSeq(s, 1, k)) = k /\ \A m \in 1..k : SubSeq(s, 1, k)[m] = s[m]
  BY <1>1, SubSeqProperties
<1>4. Len(SubSeq(s, 1, i)) = i /\ \A m \in 1..i : SubSeq(s, 1, i)[m] = s[m]
  BY <1>1, SubSeqProperties
<1> DEFINE a == SubSeq(s, 1, k)
           b == SubSeq(s, 1, i)
           t == b \o <<s[k]>>
<1>5. s[k] \in S
  BY <1>1
<1> HIDE DEF a, b, k
<1>6. t \in Seq(S) /\ Len(t) = k
  BY <1>1, <1>2, <1>4, <1>5 DEF b
<1>7. ASSUME NEW m \in 1..k PROVE t[m] = a[m]
  <2>1. CASE m = k
    BY <1>1, <1>2, <1>3, <1>4, <1>5, <2>1 DEF a, b
  <2>2. CASE m # k
    BY <1>1, <1>2, <1>3, <1>4, <1>5, <2>2 DEF a, b
  <2> QED
    BY <2>1, <2>2
<1> HIDE DEF t
<1>8. a \in Seq(S) /\ Len(a) = k
  BY <1>2, <1>3 DEF a
<1>9. t = a
  BY <1>6, <1>7, <1>8, SeqEqual
<1> QED
  BY <1>9 DEF a, b, k, t

\* The word v has no separator.
Lacks(v, sep) == \A m \in 1..Len(v) : v[m] # sep

\* What split has made of the first i characters.
SplitUpTo(words, word, sep, i) ==
    /\ join(words, <<sep>>) = SubSeq(word, 1, i)
    /\ Len(words) = 1 <=> \A k \in 1..i : word[k] # sep
    /\ Lacks(words[1], sep)

\* The first word stays without a separator when the last one grows.
LEMMA FirstGrows ==
  ASSUME NEW words \in Seq(Words), words # <<>>, NEW sep \in Nat, NEW c \in Nat, c # sep,
         Lacks(words[1], sep)
  PROVE  Lacks(Append(Front(words), Append(Last(words), c))[1], sep)
<1> DEFINE front == Front(words)
           last == Last(words)
           more == Append(last, c)
           n == Len(words)
<1>1. /\ n \in Nat /\ n >= 1 /\ front \in Seq(Words) /\ Len(front) = n - 1
      /\ last \in Words /\ last = words[n]
  BY FrontLast DEF Last
<1>2. \A k \in 1..(n - 1) : front[k] = words[k]
  BY <1>1 DEF Front
<1>3. more \in Words /\ Len(last) \in Nat /\ Len(more) = Len(last) + 1 /\ more[Len(last) + 1] = c
      /\ \A m \in 1..Len(last) : more[m] = last[m]
  BY <1>1, WordsAreCodes
<1> HIDE DEF front, last, more, n
<1>4. CASE n = 1
  <2>1. Append(front, more)[1] = more
    BY <1>1, <1>3, <1>4
  <2>2. ASSUME NEW m \in 1..Len(more) PROVE more[m] # sep
    <3>1. last = words[1]
      BY <1>1, <1>4
    <3>2. m \in 1..Len(last) \/ m = Len(last) + 1
      BY <1>3
    <3> QED
      BY <1>3, <3>1, <3>2 DEF Lacks
  <2> QED
    BY <2>1, <2>2 DEF Lacks, front, last, more
<1>5. CASE n # 1
  <2>1. Append(front, more)[1] = words[1]
    BY <1>1, <1>2, <1>3, <1>5
  <2> QED
    BY <2>1 DEF front, last, more
<1> QED
  BY <1>4, <1>5

\* split loses nothing: the words joined are the word that was split, there is
\* one word if there is no separator, and there is none in the first word.
LEMMA SplitJoins ==
  ASSUME NEW word \in Words, NEW sep \in Nat
  PROVE  /\ join(split(word, {sep}, FALSE), <<sep>>) = word
         /\ Len(split(word, {sep}, FALSE)) = 1 <=> \A k \in DOMAIN word : word[k] # sep
         /\ Lacks(split(word, {sep}, FALSE)[1], sep)
<1> DEFINE n == Len(word)
           d == <<sep>>
           seps == {sep}
<1>1. n \in Nat /\ word \in Seq(Nat) /\ d \in Words /\ DOMAIN word = 1..n
  BY WordFacts
<1>2. PICK acc \in [0..n -> Seq(Words) \ {<<>>}] :
         /\ acc[0] = <<Empty>>
         /\ \A i \in 1..n : acc[i] = SplitStep(word, seps, FALSE, acc[i - 1], i)
         /\ acc[n] = split(word, seps, FALSE)
  BY SplitUnfolds
<1> DEFINE Q == {i \in 0..n : SplitUpTo(acc[i], word, sep, i)}
<1>3. 0 \in Q
  <2>1. join(<<Empty>>, d) = Empty
    BY <1>1, WordFacts, JoinOne
  <2>2. SubSeq(word, 1, 0) = <<>>
    BY <1>1
  <2>3. Len(<<Empty>>) = 1 /\ 1..0 = {}
    OBVIOUS
  <2>4. Lacks(<<Empty>>[1], sep)
    BY WordsAreCodes DEF Lacks
  <2>5. SplitUpTo(acc[0], word, sep, 0)
    BY <1>2, <2>1, <2>2, <2>3, <2>4, WordsAreCodes DEF SplitUpTo
  <2> QED
    BY <1>1, <2>5
<1>4. ASSUME NEW i \in 0..n, i \in Q, i < n PROVE i + 1 \in Q
  <2> DEFINE k == i + 1
             old == acc[i]
             new == acc[k]
             c == word[k]
  <2>1. k \in 1..n /\ k - 1 = i /\ k \in 0..n /\ i \in 0..(n - 1) /\ i \in Nat
    BY <1>1, <1>4
  <2>2. old \in Seq(Words) /\ old # <<>> /\ SplitUpTo(old, word, sep, i)
    BY <1>2, <1>4
  <2>3. SubSeq(word, 1, k) = SubSeq(word, 1, i) \o <<c>>
    BY <1>1, <2>1, PrefixGrows
  <2>4. new = SplitStep(word, seps, FALSE, old, k)
    BY <1>2, <2>1
  <2>5. c \in Nat /\ Len(old) \in Nat /\ Len(old) >= 1
    BY <1>1, <2>1, <2>2
  <2>6. \A m \in 1..k : m \in 1..i \/ m = k
    BY <2>1
  <2>7. k \in 1..k /\ \A m \in 1..i : m \in 1..k
    BY <2>1
  <2> HIDE DEF Q, k, old, new, c
  <2>8. CASE c # sep
    <3> DEFINE more == Append(Last(old), c)
    <3>1. new = Append(Front(old), more)
      BY <2>4, <2>8 DEF SplitStep, c
    <3>2. join(new, d) = join(old, d) \o <<c>>
      BY <1>1, <2>2, <2>5, <3>1, JoinGrows
    <3>3. Len(new) = Len(old)
      <4>1. Front(old) \in Seq(Words) /\ Len(Front(old)) = Len(old) - 1
        BY <2>2, FrontLast
      <4>2. Len(new) = Len(Front(old)) + 1
        BY <3>1, <4>1
      <4> QED
        BY <2>5, <4>1, <4>2
    <3>4. (\A m \in 1..k : word[m] # sep) <=> (\A m \in 1..i : word[m] # sep)
      BY <2>6, <2>7, <2>8 DEF c
    <3>5. Lacks(new[1], sep)
      BY <2>2, <2>5, <2>8, <3>1, FirstGrows DEF SplitUpTo
    <3>6. SplitUpTo(new, word, sep, k)
      BY <2>2, <2>3, <3>2, <3>3, <3>4, <3>5 DEF SplitUpTo
    <3> QED
      BY <2>1, <3>6 DEF Q, new, k
  <2>9. CASE c = sep
    <3>1. new = Append(old, Empty)
      BY <2>4, <2>9 DEF SplitStep, c
    <3>2. join(new, d) = join(old, d) \o d
      BY <1>1, <2>2, <2>5, <3>1, JoinGrows
    <3>3. Len(new) # 1
      BY <2>2, <2>5, <3>1
    <3>4. ~ \A m \in 1..k : word[m] # sep
      BY <2>7, <2>9 DEF c
    <3>5. Lacks(new[1], sep)
      <4>1. new[1] = old[1]
        BY <2>2, <2>5, <3>1
      <4> QED
        BY <2>2, <4>1 DEF SplitUpTo
    <3>6. SplitUpTo(new, word, sep, k)
      BY <2>2, <2>3, <2>9, <3>2, <3>3, <3>4, <3>5 DEF SplitUpTo
    <3> QED
      BY <2>1, <3>6 DEF Q, new, k
  <2> QED
    BY <2>8, <2>9
<1>5. n \in Q
  <2> HIDE DEF Q
  <2> QED
    BY <1>1, <1>3, <1>4, CountUp
<1>6. SplitUpTo(acc[n], word, sep, n)
  BY <1>5
<1>7. SubSeq(word, 1, n) = word
  <2>1. SubSeq(word, 1, n) \in Seq(Nat) /\ Len(SubSeq(word, 1, n)) = n
        /\ \A m \in 1..n : SubSeq(word, 1, n)[m] = word[m]
    BY <1>1, SubSeqProperties
  <2> QED
    BY <1>1, <2>1, SeqEqual
<1> QED
  BY <1>1, <1>2, <1>6, <1>7 DEF SplitUpTo

LEMMA FlattenUnfolds ==
  ASSUME NEW seqs \in Seq(Words)
  PROVE  \E flat \in [0..Len(seqs) -> Words] :
            /\ flat[0] = Empty
            /\ \A i \in 1..Len(seqs) : flat[i] = flat[i - 1] \o seqs[i]
            /\ FlattenSeq(seqs) = flat[Len(seqs)]
BY FlattenFolds, WordsAreCodes

\* The end of a line in front of which there is something.
LEMMA LineConcat ==
  ASSUME NEW a \in Seq(Nat), NEW b \in Seq(Nat)
  PROVE  /\ a \o b \in Seq(Nat)
         /\ a \o b = <<>> => a = <<>> /\ b = <<>>
         /\ b = <<>> => a \o b = a
         /\ b # <<>> => Last(a \o b) = Last(b) /\ Front(a \o b) = a \o Front(b)
<1> DEFINE c == a \o b
           n == Len(a)
           m == Len(b)
<1>1. c \in Seq(Nat) /\ n \in Nat /\ m \in Nat /\ Len(c) = n + m
  OBVIOUS
<1>2. /\ \A k \in 1..n : c[k] = a[k]
      /\ \A k \in 1..m : c[n + k] = b[k]
  OBVIOUS
<1>3. c = <<>> => a = <<>> /\ b = <<>>
  BY <1>1
<1>4. b = <<>> => c = a
  OBVIOUS
<1>5. ASSUME b # <<>>
      PROVE  Last(c) = Last(b) /\ Front(c) = a \o Front(b)
  <2>1. m >= 1 /\ c # <<>>
    BY <1>1, <1>5
  <2>2. Last(c) = Last(b)
    <3>1. m \in 1..m
      BY <1>1, <2>1
    <3>2. c[n + m] = b[m]
      BY <1>2, <3>1
    <3> QED
      BY <1>1, <3>2 DEF Last
  <2> DEFINE f == Front(b)
             t == a \o f
             l == n + m - 1
             fc == Front(c)
  <2>3. f \in Seq(Nat) /\ Len(f) = m - 1 /\ \A k \in 1..(m - 1) : f[k] = b[k]
    BY <1>1, <1>5, FrontLast DEF Front
  <2>4. fc \in Seq(Nat) /\ Len(fc) = l /\ \A k \in 1..l : fc[k] = c[k]
    <3> HIDE DEF c
    <3>1. fc \in Seq(Nat) /\ Len(fc) = Len(c) - 1
      BY <1>1, <2>1, FrontLast
    <3>2. fc = [k \in 1..(Len(c) - 1) |-> c[k]]
      BY DEF Front
    <3> HIDE DEF fc
    <3>3. Len(fc) = l
      BY <1>1, <3>1
    <3>4. \A k \in 1..l : fc[k] = c[k]
      BY <1>1, <3>2
    <3> QED
      BY <3>1, <3>3, <3>4
  <2>5. l \in Nat
    BY <1>1, <2>1
  <2> HIDE DEF f, fc
  <2>6. t \in Seq(Nat) /\ Len(t) = l
    <3>1. a \o f \in Seq(Nat) /\ Len(a \o f) = Len(a) + Len(f)
      BY <2>3, ConcatProperties, Zenon
    <3> HIDE DEF t
    <3>2. n + (m - 1) = l
      BY <1>1
    <3> QED
      BY <2>3, <3>1, <3>2 DEF t
  <2>7. ASSUME NEW k \in 1..l PROVE t[k] = fc[k]
    <3>1. CASE k <= n
      BY <1>1, <1>2, <2>3, <2>4, <3>1
    <3>2. CASE k > n
      <4> DEFINE i == k - n
      <4>1. i \in 1..(m - 1) /\ i \in 1..m /\ n + i = k
        BY <1>1, <2>5, <3>2
      <4>2. t[k] = f[i]
        BY <1>1, <2>3, <3>2, <4>1
      <4>3. c[k] = b[i]
        BY <1>2, <4>1
      <4> QED
        BY <2>3, <2>4, <4>1, <4>2, <4>3
    <3>3. k <= n \/ k > n
      BY <1>1, <2>5
    <3> QED
      BY <3>1, <3>2, <3>3
  <2> HIDE DEF t
  <2>8. t = fc
    BY <2>4, <2>5, <2>6, <2>7, SeqEqual
  <2> QED
    BY <2>2, <2>8 DEF t, f, fc
<1> QED
  BY <1>1, <1>3, <1>4, <1>5

\* It goes on if its end does.
LEMMA ContinuedConcat ==
  ASSUME NEW a \in Seq(Nat), NEW b \in Seq(Nat)
  PROVE  Continued(a \o b) <=> IF b = <<>> THEN Continued(a) ELSE Continued(b)
<1>1. /\ a \o b = <<>> => a = <<>> /\ b = <<>>
      /\ b = <<>> => a \o b = a
      /\ b # <<>> => Last(a \o b) = Last(b)
  BY LineConcat
<1> DEFINE c == a \o b
<1> HIDE DEF c
<1>2. CASE b = <<>>
  BY <1>1, <1>2
<1>3. CASE b # <<>>
  BY <1>1, <1>3, WordsAreCodes DEF Continued
<1> QED
  BY <1>2, <1>3

\* The lines behind the k-th one.
LEMMA LinesBehind ==
  ASSUME NEW S, NEW lines \in Seq(S), NEW k \in 0..Len(lines)
  PROVE  LET behind == SubSeq(lines, k + 1, Len(lines)) IN
         /\ behind \in Seq(S)
         /\ k = 0 => behind = lines
         /\ k = Len(lines) => behind = <<>>
         /\ k < Len(lines) => /\ behind # <<>>
                              /\ Head(behind) = lines[k + 1]
                              /\ Tail(behind) = SubSeq(lines, k + 2, Len(lines))
<1> DEFINE n == Len(lines)
           m == k + 1
           behind == SubSeq(lines, m, n)
<1>1. n \in Nat /\ k \in Nat /\ m \in Nat \ {0} /\ k <= n
  OBVIOUS
<1>2. behind \in Seq(S)
  BY <1>1, SubSeqType
<1>3. Len(behind) = n - k /\ \A i \in 1..(n - k) : behind[i] = lines[k + i]
  <2>1. /\ Len(behind) = IF m <= n THEN n - m + 1 ELSE 0
        /\ \A i \in 1..(n - m + 1) : behind[i] = lines[m + i - 1]
    BY <1>1, SubSeqProperties
  <2>2. n - m + 1 = n - k /\ \A i \in 1..(n - k) : m + i - 1 = k + i
    BY <1>1
  <2> HIDE DEF behind
  <2>3. Len(behind) = n - k
    <3>1. CASE m <= n
      BY <1>1, <2>1, <2>2, <3>1
    <3>2. CASE ~(m <= n)
      <4>1. k = n
        BY <1>1, <3>2, SMTT(30)
      <4> QED
        BY <1>1, <2>1, <3>2, <4>1
    <3> QED
      BY <3>1, <3>2
  <2>4. ASSUME NEW i \in 1..(n - k) PROVE behind[i] = lines[k + i]
    BY <2>1, <2>2
  <2> QED
    BY <2>3, <2>4
<1> HIDE DEF behind
<1>4. k = 0 => behind = lines
  <2> SUFFICES ASSUME k = 0 PROVE behind = lines
    OBVIOUS
  <2>1. Len(behind) = n /\ \A i \in 1..n : behind[i] = lines[i]
    BY <1>1, <1>3
  <2> QED
    BY <1>1, <1>2, <2>1, SeqEqual
<1>5. k = n => behind = <<>>
  BY <1>1, <1>2, <1>3
<1>6. ASSUME k < n
      PROVE  behind # <<>> /\ Head(behind) = lines[m] /\ Tail(behind) = SubSeq(lines, k + 2, n)
  <2>1. behind # <<>>
    BY <1>1, <1>2, <1>3, <1>6
  <2>2. Head(behind) = lines[m]
    BY <1>1, <1>2, <1>3, <1>6
  <2> DEFINE t == Tail(behind)
             s == SubSeq(lines, k + 2, n)
             l == n - k - 1
  <2>3. l \in Nat
    BY <1>1, <1>6
  <2>4. t \in Seq(S) /\ Len(t) = l /\ \A i \in 1..l : t[i] = lines[m + i]
    <3>1. t \in Seq(S) /\ Len(t) = l
      BY <1>1, <1>2, <1>3, <2>1
    <3>2. ASSUME NEW i \in 1..l PROVE t[i] = lines[m + i]
      <4>1. t[i] = behind[i + 1]
        BY <1>1, <1>2, <1>3, <2>1
      <4>2. i + 1 \in 1..(n - k) /\ k + (i + 1) = m + i
        BY <1>1, <1>6
      <4> QED
        BY <1>3, <4>1, <4>2
    <3> QED
      BY <3>1, <3>2
  <2>5. s \in Seq(S) /\ Len(s) = l /\ \A i \in 1..l : s[i] = lines[m + i]
    <3>1. /\ Len(s) = IF k + 2 <= n THEN n - (k + 2) + 1 ELSE 0
          /\ \A i \in 1..(n - (k + 2) + 1) : s[i] = lines[k + 2 + i - 1]
      BY <1>1, SubSeqProperties
    <3>2. n - (k + 2) + 1 = l /\ \A i \in 1..l : k + 2 + i - 1 = m + i
      BY <1>1
    <3>3. s \in Seq(S)
      BY <1>1, SubSeqType
    <3> HIDE DEF s
    <3>4. Len(s) = l
      BY <1>1, <1>6, <3>1, SMTT(30)
    <3>5. ASSUME NEW i \in 1..l PROVE s[i] = lines[m + i]
      BY <3>1, <3>2, Zenon
    <3> QED
      BY <3>3, <3>4, <3>5
  <2> HIDE DEF s, t
  <2>6. s = t
    BY <2>3, <2>4, <2>5, SeqEqual
  <2> QED
    BY <2>1, <2>2, <2>6 DEF s, t
<1> QED
  BY <1>2, <1>4, <1>5, <1>6 DEF behind

----------------------------------------------------------------------------
(* read: the lines of a logical line, and two names.                       *)

\* Lines that read does not lose, and in which no backslash escapes a backslash.
IsJoinable(lines) ==
    /\ lines \in Seq(Seq(Nat)) /\ lines # <<>>
    /\ \A k \in DOMAIN lines : ~Continued(Unescaped(lines[k]))
    /\ \A k \in 1..TakenLines(lines) :
          Continued(lines[k]) => \E i \in 1..k : Unescaped(lines[i]) # Empty

\* flat[k] is what the first k lines make up.
IsFlat(flat, lines) ==
    LET t == TakenLines(lines) IN
    /\ t \in 1..Len(lines)
    /\ \A k \in 1..t : k < t => Continued(lines[k])
    /\ Continued(lines[t]) => t = Len(lines)
    /\ flat \in [0..t -> Seq(Nat)]
    /\ flat[0] = <<>>
    /\ \A k \in 1..t : flat[k] = flat[k - 1] \o Unescaped(lines[k])
    /\ flat[t] = JoinedLines(lines)
    /\ \A k \in 0..t : ~Continued(flat[k])
    /\ \A k \in 1..t : Continued(lines[k]) => flat[k] # <<>>

LEMMA TakenFacts ==
  ASSUME NEW lines \in Seq(Seq(Nat)), lines # <<>>
  PROVE  LET t == TakenLines(lines) IN
         /\ t \in 1..Len(lines)
         /\ \A k \in 1..t : k < t => Continued(lines[k])
         /\ Continued(lines[t]) => t = Len(lines)
<1> DEFINE n == Len(lines)
           S == {k \in DOMAIN lines : ~Continued(lines[k])} \cup {n}
           t == TakenLines(lines)
<1>1. n \in Nat /\ n >= 1 /\ DOMAIN lines = 1..n
  OBVIOUS
<1>2. S \subseteq 1..n /\ S \subseteq Nat /\ S # {}
  BY <1>1
<1>3. t = Min(S)
  BY SMTT(30) DEF TakenLines
<1>4. \A k \in 1..n : k \notin S => Continued(lines[k])
  BY <1>1
<1>5. n \in S /\ \A k \in S : k = n \/ ~Continued(lines[k])
  OBVIOUS
<1> HIDE DEF S, t
<1>6. t \in S /\ \A k \in S : t <= k
  BY <1>2, <1>3, MinFacts
<1>7. ASSUME NEW k \in 1..t, k < t PROVE Continued(lines[k])
  <2>1. k \in 1..n
    BY <1>1, <1>2, <1>6, <1>7
  <2>2. k \notin S
    BY <1>2, <1>6, <1>7
  <2> QED
    BY <1>4, <2>1, <2>2
<1> QED
  BY <1>2, <1>5, <1>6, <1>7 DEF t

LEMMA UnescapedType ==
  ASSUME NEW line \in Seq(Nat)
  PROVE  Unescaped(line) \in Seq(Nat)
<1>1. CASE Continued(line)
  BY <1>1, FrontLast, WordsAreCodes DEF Unescaped, Continued
<1>2. CASE ~Continued(line)
  BY <1>2 DEF Unescaped
<1> QED
  BY <1>1, <1>2

LEMMA LinesFlatten ==
  ASSUME NEW lines, IsJoinable(lines)
  PROVE  \E flat : IsFlat(flat, lines)
<1> DEFINE n == Len(lines)
           t == TakenLines(lines)
           seqs == [k \in 1..t |-> Unescaped(lines[k])]
<1>1. lines \in Seq(Seq(Nat)) /\ lines # <<>>
  BY DEF IsJoinable
<1>2. /\ t \in 1..n
      /\ \A k \in 1..t : k < t => Continued(lines[k])
      /\ Continued(lines[t]) => t = n
  BY <1>1, TakenFacts
<1>3. n \in Nat /\ DOMAIN lines = 1..n /\ \A k \in 1..n : lines[k] \in Seq(Nat)
  BY <1>1
<1>4. \A k \in 1..t : Unescaped(lines[k]) \in Seq(Nat) /\ ~Continued(Unescaped(lines[k]))
  <2>1. \A k \in 1..t : k \in 1..n
    BY <1>2, <1>3
  <2> QED
    BY <1>3, <2>1, UnescapedType DEF IsJoinable
<1>5. \A k \in 1..t : Continued(lines[k]) => \E i \in 1..k : Unescaped(lines[i]) # <<>>
  BY WordsAreCodes DEF IsJoinable
<1>6. JoinedLines(lines) = FlattenSeq(seqs)
  BY DEF JoinedLines
<1> HIDE DEF t
<1>7. t \in Nat /\ t >= 1
  <2>1. t \in 1..n
    BY <1>2
  <2> HIDE DEF n
  <2> QED
    BY <1>3, <2>1
<1>8. seqs \in Seq(Words) /\ Len(seqs) = t /\ \A k \in 1..t : seqs[k] = Unescaped(lines[k])
  BY <1>4, <1>7, WordsAreCodes
<1> HIDE DEF seqs
<1>9. PICK flat \in [0..t -> Words] :
         /\ flat[0] = Empty
         /\ \A i \in 1..t : flat[i] = flat[i - 1] \o seqs[i]
         /\ FlattenSeq(seqs) = flat[t]
  BY <1>8, FlattenUnfolds
<1>10. flat \in [0..t -> Seq(Nat)] /\ flat[0] = <<>>
  BY <1>9, WordsAreCodes
<1>11. \A k \in 1..t : flat[k] = flat[k - 1] \o Unescaped(lines[k])
  BY <1>8, <1>9
<1> DEFINE Empties(k) == flat[k] = <<>> => \A i \in 1..k : Unescaped(lines[i]) = <<>>
           Right(k) == ~Continued(flat[k]) /\ Empties(k)
           Q == {k \in 0..t : Right(k)}
<1>12. 0 \in Q
  BY <1>7, <1>10, WordsAreCodes DEF Continued
<1>13. ASSUME NEW i \in 0..t, i \in Q, i < t PROVE i + 1 \in Q
  <2> DEFINE k == i + 1
             a == flat[i]
             b == Unescaped(lines[k])
  <2>1. k \in 1..t /\ k \in 0..t /\ k - 1 = i /\ \A j \in 1..k : j \in 1..i \/ j = k
    BY <1>7, <1>13
  <2>2. Right(i)
    BY <1>13
  <2>3. a \in Seq(Nat) /\ b \in Seq(Nat) /\ ~Continued(b)
    BY <1>4, <1>10, <2>1
  <2>4. flat[k] = a \o b
    BY <1>11, <2>1
  <2> HIDE DEF k, a, b, Q
  <2>5. ~Continued(flat[k])
    BY <2>2, <2>3, <2>4, ContinuedConcat DEF a
  <2>6. Empties(k)
    <3>1. flat[k] = <<>> => a = <<>> /\ b = <<>>
      <4>1. a \o b = <<>> => a = <<>> /\ b = <<>>
        BY <2>3, LineConcat
      <4> QED
        BY <2>4, <4>1
    <3>2. a = <<>> => \A j \in 1..i : Unescaped(lines[j]) = <<>>
      BY <2>2 DEF a
    <3> QED
      BY <2>1, <3>1, <3>2 DEF b
  <2> QED
    BY <2>1, <2>5, <2>6 DEF Q, k
<1>14. t \in Q /\ \A k \in 0..t : k \in Q
  <2> HIDE DEF Q
  <2>1. ASSUME NEW k \in 0..t PROVE k \in Q
    <3>1. \A i \in 0..k : i \in Q /\ i < k => i + 1 \in Q
      BY <1>7, <1>13
    <3> QED
      BY <1>7, <1>12, <3>1, CountUp
  <2> QED
    BY <1>7, <2>1
<1>15. \A k \in 0..t : Right(k)
  BY <1>14
<1>16. ASSUME NEW k \in 1..t, Continued(lines[k]) PROVE flat[k] # <<>>
  <2>1. Empties(k)
    BY <1>7, <1>15
  <2> QED
    BY <1>5, <1>16, <2>1
<1> HIDE DEF Empties, Q
<1> QED
  BY <1>2, <1>6, <1>9, <1>10, <1>11, <1>15, <1>16 DEF IsFlat, t

\* What logical_line holds when it has read k lines.
Reached(lines, flat, k, eof) ==
    [line |-> flat[k - 1] \o lines[k], rest |-> SubSeq(lines, k + 1, Len(lines)), eof |-> eof]

\* It goes on with the next line.
LEMMA ReachesNext ==
  ASSUME NEW lines, IsJoinable(lines), NEW flat, IsFlat(flat, lines),
         NEW k \in 1..TakenLines(lines), NEW eof \in BOOLEAN
  PROVE  LET got == Reached(lines, flat, k, eof) IN
         /\ got \in Got
         /\ ~Continued(lines[k]) => IsJoined(got) /\ JoinedAs(got) = got
         /\ Continued(lines[k]) =>
               /\ ~IsJoined(got)
               /\ \E e \in BOOLEAN :
                     Joins(got) = IF k < Len(lines) THEN Reached(lines, flat, k + 1, e)
                                  ELSE [line |-> flat[k], rest |-> <<>>, eof |-> e]
<1> DEFINE n == Len(lines)
           t == TakenLines(lines)
           a == flat[k - 1]
           b == lines[k]
           rest == SubSeq(lines, k + 1, n)
           got == Reached(lines, flat, k, eof)
<1>1. lines \in Seq(Seq(Nat))
  BY DEF IsJoinable
<1>2. n \in Nat /\ t \in 1..n /\ k \in 1..n /\ k - 1 \in 0..t /\ k \in 0..t
  BY <1>1 DEF IsFlat
<1>3. a \in Seq(Nat) /\ b \in Seq(Nat) /\ ~Continued(a) /\ flat[k] \in Seq(Nat)
  <2>1. a \in Seq(Nat) /\ ~Continued(a) /\ flat[k] \in Seq(Nat)
    BY <1>2 DEF IsFlat
  <2>2. b \in Seq(Nat)
    BY <1>1, <1>2
  <2> QED
    BY <2>1, <2>2
<1>4. flat[k] = a \o Unescaped(b)
  BY DEF IsFlat
<1>5. Continued(b) => flat[k] # <<>>
  BY DEF IsFlat
<1>6. /\ rest \in Seq(Seq(Nat))
      /\ k = n => rest = <<>>
      /\ k < n => rest # <<>> /\ Head(rest) = lines[k + 1] /\ Tail(rest) = SubSeq(lines, k + 2, n)
  <2>1. k \in 0..n
    BY <1>2
  <2> QED
    BY <1>1, <2>1, LinesBehind
<1>7. got = [line |-> a \o b, rest |-> rest, eof |-> eof]
  BY DEF Reached
<1> HIDE DEF n, t, a, b, rest, got
<1>8. a \o b \in Seq(Nat)
  BY <1>3, LineConcat
<1>9. got \in Got /\ got.line = a \o b /\ got.rest = rest /\ got.eof = eof
  BY <1>6, <1>7, <1>8 DEF Got
<1>10. Continued(got.line) <=> got.line # Empty /\ Last(got.line) = Backslash
  BY DEF Continued
<1>11. ASSUME ~Continued(b)
       PROVE  IsJoined(got) /\ JoinedAs(got) = got
  <2>1. ~Continued(got.line)
    BY <1>3, <1>9, <1>11, ContinuedConcat
  <2> QED
    BY <1>10, <2>1 DEF IsJoined, JoinedAs
<1>12. ASSUME Continued(b)
       PROVE  /\ ~IsJoined(got)
              /\ \E e \in BOOLEAN :
                     Joins(got) = IF k < n THEN Reached(lines, flat, k + 1, e)
                                  ELSE [line |-> flat[k], rest |-> <<>>, eof |-> e]
  <2>1. b # <<>> /\ Unescaped(b) = Front(b)
    BY <1>12, WordsAreCodes DEF Continued, Unescaped
  <2>2. Continued(got.line)
    BY <1>3, <1>9, <1>12, <2>1, ContinuedConcat
  <2>3. Front(got.line) = flat[k]
    BY <1>3, <1>4, <1>9, <2>1, LineConcat
  <2>4. ~IsJoined(got)
    BY <1>5, <1>10, <1>12, <2>2, <2>3, WordsAreCodes DEF IsJoined
  <2> DEFINE next == getline(rest)
             e == eof \/ next.eof
  <2>5. next \in Got /\ next.rest = IF rest = <<>> THEN rest ELSE Tail(rest)
    BY <1>6, GetlineType
  <2>6. next.line = IF rest = <<>> THEN Empty ELSE Head(rest)
    BY DEF getline
  <2>7. e \in BOOLEAN
    BY <2>5 DEF Got
  <2>8. Joins(got) = [line |-> flat[k] \o next.line, rest |-> next.rest, eof |-> e]
    BY <1>9, <2>3 DEF Joins
  <2> HIDE DEF next, e
  <2>9. CASE k < n
    <3> DEFINE m == k + 1
    <3>1. m - 1 = k /\ m + 1 = k + 2
      BY <1>2
    <3>2. next.line = lines[m] /\ next.rest = SubSeq(lines, k + 2, n)
      BY <1>6, <2>5, <2>6, <2>9
    <3> HIDE DEF m
    <3>3. Joins(got) = Reached(lines, flat, m, e)
      BY <2>8, <3>1, <3>2 DEF Reached, n
    <3> QED
      BY <2>4, <2>7, <2>9, <3>3 DEF m
  <2>10. CASE ~(k < n)
    <3>1. rest = <<>>
      BY <1>2, <1>6, <2>10
    <3>2. next.line = <<>> /\ next.rest = <<>>
      BY <2>5, <2>6, <3>1, WordsAreCodes
    <3>3. flat[k] \o <<>> = flat[k]
      BY <1>3
    <3>4. Joins(got) = [line |-> flat[k], rest |-> <<>>, eof |-> e]
      BY <2>8, <3>2, <3>3
    <3> QED
      BY <2>4, <2>7, <2>10, <3>4
  <2> QED
    BY <2>9, <2>10
<1> QED
  BY <1>9, <1>11, <1>12 DEF got, b, n

\* The loop over lines that end in a backslash joins them, and what is behind
\* them is left.
LEMMA LinesJoin ==
  ASSUME NEW lines, IsJoinable(lines)
  PROVE  /\ logical_line(lines).line = JoinedLines(lines)
         /\ logical_line(lines).rest = SubSeq(lines, TakenLines(lines) + 1, Len(lines))
         /\ JoinedLines(lines) \in Words
<1> DEFINE n == Len(lines)
           t == TakenLines(lines)
           first == getline(lines)
<1>1. lines \in Seq(Seq(Nat)) /\ lines # <<>>
  BY DEF IsJoinable
<1>2. PICK flat : IsFlat(flat, lines)
  BY LinesFlatten
<1>3. PICK h \in [Got -> Got] :
         /\ logical_line(lines) = h[first]
         /\ \A got \in Got : h[got] = IF IsJoined(got) THEN JoinedAs(got) ELSE h[Joins(got)]
  BY <1>1, LogicalLineUnfolds
<1> DEFINE At(k, e) == Reached(lines, flat, k, e)
           Q == {k \in 0..t : k = 0 \/ \E e \in BOOLEAN : h[first] = h[At(k, e)]}
<1>4. n \in Nat /\ t \in 1..n /\ t \in Nat
  BY <1>1, <1>2 DEF IsFlat
<1>5. 0 \in Q
  BY <1>4
<1>6. ASSUME NEW i \in 0..t, i \in Q, i < t PROVE i + 1 \in Q
  <2> DEFINE k == i + 1
  <2>1. k \in 0..t /\ k \in 1..t
    BY <1>4, <1>6
  <2>2. \E e \in BOOLEAN : h[first] = h[At(k, e)]
    <3>1. CASE i = 0
      <4> DEFINE e == Len(lines) <= 1
                 behind == SubSeq(lines, 2, Len(lines))
      <4>1. first = [line |-> Head(lines), rest |-> Tail(lines), eof |-> e]
        BY <1>1 DEF getline
      <4>2. Head(lines) = lines[1] /\ Tail(lines) = behind
        <5> DEFINE s == SubSeq(lines, 1, Len(lines))
        <5>1. 0 \in 0..Len(lines) /\ 0 < Len(lines)
          BY <1>4
        <5>2. s = lines /\ Head(s) = lines[1] /\ Tail(s) = behind
          BY <1>1, <5>1, LinesBehind
        <5> HIDE DEF s, behind
        <5> QED
          BY <5>2
      <4>3. flat[0] = <<>> /\ lines[1] \in Seq(Nat)
        BY <1>1, <1>2, <1>4 DEF IsFlat
      <4>4. <<>> \o lines[1] = lines[1]
        BY <4>3
      <4>5. e \in BOOLEAN
        BY <1>4
      <4> HIDE DEF first, e
      <4>6. At(1, e) = [line |-> flat[0] \o lines[1], rest |-> behind, eof |-> e]
        BY DEF Reached
      <4> HIDE DEF At, behind
      <4>7. first = At(1, e)
        BY <4>1, <4>2, <4>3, <4>4, <4>6
      <4>8. k = 1
        BY <3>1
      <4> HIDE DEF k
      <4> QED
        BY <4>5, <4>7, <4>8
    <3>2. CASE i # 0
      <4>1. i \in 1..t
        BY <3>2
      <4>2. PICK e \in BOOLEAN : h[first] = h[At(i, e)]
        BY <1>6, <3>2
      <4>3. Continued(lines[i])
        BY <1>2, <1>6, <4>1 DEF IsFlat
      <4>4. i < n
        BY <1>4, <1>6
      <4> DEFINE got == At(i, e)
      <4>5. /\ got \in Got /\ ~IsJoined(got)
            /\ \E f \in BOOLEAN : Joins(got) = At(k, f)
        BY <1>2, <4>1, <4>3, <4>4, ReachesNext
      <4> HIDE DEF At, k, got, first
      <4>6. h[got] = h[Joins(got)]
        BY <1>3, <4>5
      <4>7. h[first] = h[got]
        BY <4>2 DEF got
      <4> QED
        BY <4>5, <4>6, <4>7
    <3> QED
      BY <3>1, <3>2
  <2> HIDE DEF k, At, first
  <2>3. k \in Q
    BY <2>1, <2>2
  <2> QED
    BY <2>3 DEF k
<1>7. t \in Q
  <2> HIDE DEF Q, t
  <2> QED
    BY <1>4, <1>5, <1>6, CountUp
<1>8. PICK e \in BOOLEAN : h[first] = h[At(t, e)]
  <2>1. t # 0
    BY <1>4
  <2> HIDE DEF At, first
  <2> QED
    BY <1>7, <2>1
<1> DEFINE got == At(t, e)
           a == flat[t - 1]
           b == lines[t]
           behind == SubSeq(lines, t + 1, n)
<1>9. t \in 1..t /\ t - 1 \in 0..t /\ t \in 0..t
  BY <1>4
<1>10. /\ got \in Got
       /\ ~Continued(b) => IsJoined(got) /\ JoinedAs(got) = got
       /\ Continued(b) =>
             /\ ~IsJoined(got)
             /\ \E f \in BOOLEAN : Joins(got) = IF t < n THEN At(t + 1, f)
                                                ELSE [line |-> flat[t], rest |-> <<>>, eof |-> f]
  BY <1>2, <1>9, ReachesNext
<1>11. got.line = a \o b /\ got.rest = behind
  BY DEF Reached
<1>12. /\ flat[t] = a \o Unescaped(b) /\ flat[t] = JoinedLines(lines)
       /\ flat[t] \in Seq(Nat) /\ ~Continued(flat[t])
       /\ Continued(b) => t = n
  BY <1>2, <1>9 DEF IsFlat
<1>13. behind \in Seq(Seq(Nat)) /\ (t = n => behind = <<>>)
  BY <1>1, <1>4, LinesBehind
<1> HIDE DEF got, a, b, behind, At, first
<1>14. h[first].line = flat[t] /\ h[first].rest = behind
  <2>1. CASE ~Continued(b)
    <3>1. h[got] = got
      BY <1>3, <1>10, <2>1
    <3>2. Unescaped(b) = b
      BY <2>1 DEF Unescaped
    <3> QED
      BY <1>8, <1>11, <1>12, <3>1, <3>2 DEF got
  <2>2. CASE Continued(b)
    <3>1. t = n /\ ~(t < n)
      BY <1>4, <1>12, <2>2
    <3>2. PICK f \in BOOLEAN : Joins(got) = [line |-> flat[t], rest |-> <<>>, eof |-> f]
      BY <1>10, <2>2, <3>1
    <3> DEFINE last == Joins(got)
    <3>3. last.line = flat[t] /\ last.rest = <<>> /\ last \in Got
      BY <1>12, <3>2 DEF Got
    <3>4. h[got] = h[last]
      BY <1>3, <1>10, <2>2
    <3> HIDE DEF last
    <3>5. IsJoined(last) /\ JoinedAs(last) = last
      BY <1>12, <3>3 DEF Continued, IsJoined, JoinedAs
    <3>6. h[last] = last
      BY <1>3, <3>3, <3>5
    <3> QED
      BY <1>8, <1>13, <3>1, <3>3, <3>4, <3>6 DEF got
  <2> QED
    BY <2>1, <2>2
<1> QED
  BY <1>3, <1>12, <1>14, WordsAreCodes DEF behind

\* Two words as echo "$a" "$b" writes them, without the newline.
Spaced(a, b) == (a \o <<Space>>) \o b

LEMMA SpacedType ==
  ASSUME NEW a \in Words, NEW b \in Words
  PROVE  Spaced(a, b) \in Words /\ a \o <<Space>> \in Words /\ <<Space>> \in Words
<1>1. <<Space>> \in Words
  BY WordFacts DEF Space
<1>2. a \o <<Space>> \in Words
  BY <1>1, WordFacts
<1> QED
  BY <1>1, <1>2, WordFacts DEF Spaced

\* The first space of a text is the position at which it is the end of the text,
\* or a space with none in front of it.
LEMMA FirstSpaceIs ==
  ASSUME NEW text \in Words, NEW k \in 1..(Len(text) + 1),
         \A i \in 1..(k - 1) : text[i] # Space,
         k <= Len(text) => text[k] = Space
  PROVE  FirstSpace(text) = k
<1> DEFINE n == Len(text)
           S == {i \in DOMAIN text : text[i] = Space} \cup {Len(text) + 1}
<1>1. n \in Nat /\ DOMAIN text = 1..n
  BY WordsAreCodes
<1>2. S \subseteq Nat /\ S # {} /\ k \in S
  BY <1>1
<1>3. ASSUME NEW i \in S PROVE i >= k
  BY <1>1
<1>4. FirstSpace(text) = Min(S)
  BY DEF FirstSpace
<1> HIDE DEF S
<1>5. Min(S) \in S /\ Min(S) <= k
  BY <1>2, MinFacts
<1>6. Min(S) \in Nat /\ Min(S) >= k
  BY <1>2, <1>3, <1>5
<1> QED
  BY <1>1, <1>4, <1>5, <1>6

\* The two parts of a text at its first space: both have something exactly when
\* the space is inside, and then it is between them.
IsCut(text, a, b) ==
    LET first == FirstSpace(text)
    IN /\ a \o b = UpTo(text, first) \o From(text, first + 1)
       /\ (a # Empty /\ b # Empty) <=> first \in 2..(Len(text) - 1)
       /\ (a # Empty /\ b # Empty) => Spaced(a, b) = text

LEMMA CutAtSpace ==
  ASSUME NEW a \in Words, NEW b \in Words, Lacks(a, Space)
  PROVE  IsCut(Spaced(a, b), a, b)
<1> DEFINE text == Spaced(a, b)
           head == a \o <<Space>>
           l == Len(a)
           m == Len(b)
           k == l + 1
           n == Len(text)
<1>1. a \in Seq(Nat) /\ b \in Seq(Nat) /\ l \in Nat /\ m \in Nat /\ Space \in Nat
  BY WordsAreCodes DEF Space
<1>2. head \in Seq(Nat) /\ Len(head) = k /\ head[k] = Space /\ \A i \in 1..l : head[i] = a[i]
  BY <1>1
<1>3. text = head \o b
  BY DEF Spaced
<1>4. k \in Nat /\ k >= 1 /\ k - 1 = l
  BY <1>1
<1> HIDE DEF text, head, k, m
<1>5. /\ text \in Seq(Nat) /\ n = k + m /\ n \in Nat
      /\ \A i \in 1..k : text[i] = head[i]
      /\ \A i \in 1..m : text[k + i] = b[i]
  <2>1. /\ head \o b \in Seq(Nat) /\ Len(head \o b) = k + Len(b)
        /\ \A i \in 1..(k + Len(b)) : (head \o b)[i] = IF i <= k THEN head[i] ELSE b[i - k]
    BY <1>1, <1>2, ConcatProperties
  <2>2. \A i \in 1..k : text[i] = head[i]
    BY <1>1, <1>3, <1>4, <2>1 DEF m
  <2>3. ASSUME NEW i \in 1..m PROVE text[k + i] = b[i]
    <3> DEFINE j == k + i
    <3>1. j \in 1..(k + Len(b)) /\ ~(j <= k) /\ j - k = i
      BY <1>1, <1>4 DEF m
    <3> HIDE DEF j
    <3>2. text[j] = b[i]
      BY <1>3, <2>1, <3>1
    <3> QED
      BY <3>2 DEF j
  <2>4. text \in Seq(Nat) /\ n = k + m
    BY <1>3, <2>1 DEF m
  <2> HIDE DEF n
  <2>5. n \in Nat
    BY <1>1, <1>4, <2>4
  <2> QED
    BY <2>2, <2>3, <2>4, <2>5
<1> HIDE DEF l
<1>6. k \in 1..k /\ (\A i \in 1..l : i \in 1..k) /\ k \in 1..(n + 1)
  BY <1>1, <1>4, <1>5
<1> HIDE DEF n
<1>7. FirstSpace(text) = k
  <2>1. \A i \in 1..(k - 1) : text[i] # Space
    BY <1>2, <1>4, <1>5, <1>6 DEF Lacks, l
  <2>2. text[k] = Space
    BY <1>2, <1>5, <1>6
  <2> QED
    BY <1>5, <1>6, <2>1, <2>2, WordsAreCodes, FirstSpaceIs DEF n
<1>8. UpTo(text, k) = a
  <2> DEFINE s == SubSeq(text, 1, l)
  <2>1. \A i \in 1..l : text[i] \in Nat
    BY <1>1, <1>4, <1>5, <1>6 DEF n
  <2>2. s \in Seq(Nat) /\ Len(s) = l /\ \A i \in 1..l : s[i] = text[i]
    <3>1. /\ s \in Seq(Nat)
          /\ Len(s) = IF 1 <= l THEN l - 1 + 1 ELSE 0
          /\ \A i \in 1..(l - 1 + 1) : s[i] = text[1 + i - 1]
      BY <1>1, <2>1, SubSeqProperties
    <3> HIDE DEF s
    <3> QED
      BY <1>1, <3>1
  <2> HIDE DEF s
  <2>3. s = a
    BY <1>1, <1>2, <1>5, <1>6, <2>2, SeqEqual DEF l
  <2> QED
    BY <1>4, <2>3 DEF UpTo, s
<1>9. From(text, k + 1) = b
  <2> DEFINE f == k + 1
             s == SubSeq(text, f, n)
  <2>1. \A i \in f..n : text[i] \in Nat
    BY <1>4, <1>5 DEF n
  <2>2. f \in Nat /\ n - f + 1 = m /\ (f <= n <=> m >= 1) /\ \A i \in 1..m : f + i - 1 = k + i
    BY <1>1, <1>4, <1>5
  <2> HIDE DEF f
  <2>3. s \in Seq(Nat) /\ Len(s) = m /\ \A i \in 1..m : s[i] = text[k + i]
    <3>1. /\ s \in Seq(Nat)
          /\ Len(s) = IF f <= n THEN n - f + 1 ELSE 0
          /\ \A i \in 1..(n - f + 1) : s[i] = text[f + i - 1]
      BY <1>5, <2>1, <2>2, SubSeqProperties
    <3> HIDE DEF s
    <3>2. Len(s) = m
      BY <1>1, <2>2, <3>1
    <3>3. ASSUME NEW i \in 1..m PROVE s[i] = text[k + i]
      BY <2>2, <3>1
    <3> QED
      BY <3>1, <3>2, <3>3
  <2> HIDE DEF s
  <2>4. s = b
    BY <1>1, <1>5, <2>3, SeqEqual DEF m
  <2> QED
    BY <2>4 DEF From, s, f, n
<1>10. (a # Empty /\ b # Empty) <=> k \in 2..(n - 1)
  <2>1. a # Empty <=> l # 0
    BY <1>1, WordsAreCodes DEF l
  <2>2. b # Empty <=> m # 0
    BY <1>1, WordsAreCodes DEF m
  <2>3. k = l + 1
    BY <1>1, <1>4
  <2> QED
    BY <1>1, <1>5, <2>1, <2>2, <2>3
<1>11. IsCut(text, a, b)
  BY <1>7, <1>8, <1>9, <1>10 DEF IsCut, text, n
<1> QED
  BY <1>11 DEF text

LEMMA CutAtEnd ==
  ASSUME NEW a \in Words, Lacks(a, Space)
  PROVE  IsCut(a, a, Empty)
<1> DEFINE n == Len(a)
           k == n + 1
           f == k + 1
<1>1. n \in Nat /\ a \in Seq(Nat) /\ Empty = <<>>
  BY WordsAreCodes
<1>2. k \in 1..(n + 1) /\ k - 1 = n /\ ~(k <= n) /\ k \notin 2..(n - 1) /\ f \in Nat /\ ~(f <= n)
  BY <1>1
<1>3. a \o <<>> = a
  BY <1>1
<1>4. SubSeq(a, 1, n) = a
  <2>1. 0 \in 0..n /\ 0 + 1 = 1
    BY <1>1
  <2>2. SubSeq(a, 0 + 1, n) = a
    BY <1>1, <2>1, LinesBehind
  <2> QED
    BY <2>1, <2>2
<1> HIDE DEF k
<1>5. FirstSpace(a) = k
  BY <1>2, FirstSpaceIs DEF Lacks
<1>6. UpTo(a, k) = a
  BY <1>2, <1>4 DEF UpTo
<1> HIDE DEF f
<1>7. SubSeq(a, f, n) = <<>>
  BY <1>1, <1>2
<1>8. From(a, f) = <<>>
  BY <1>7 DEF From
<1> QED
  BY <1>1, <1>2, <1>3, <1>5, <1>6, <1>8 DEF IsCut, f

\* A list is its first element and the others.
LEMMA FirstAndRest ==
  ASSUME NEW S, NEW s \in Seq(S), s # <<>>
  PROVE  SubSeq(s, 2, Len(s)) \in Seq(S) /\ s = <<s[1]>> \o SubSeq(s, 2, Len(s))
<1> DEFINE n == Len(s)
           rest == SubSeq(s, 2, n)
           t == <<s[1]>> \o rest
<1>1. n \in Nat /\ n >= 1 /\ s[1] \in S
  OBVIOUS
<1>2. rest \in Seq(S)
  BY <1>1, SubSeqType
<1>3. /\ Len(rest) = IF 2 <= n THEN n - 2 + 1 ELSE 0
      /\ \A i \in 1..(n - 2 + 1) : rest[i] = s[2 + i - 1]
  BY <1>1, SubSeqProperties
<1> HIDE DEF rest
<1>4. Len(rest) = n - 1
  <2>1. CASE 2 <= n
    BY <1>1, <1>3, <2>1
  <2>2. CASE ~(2 <= n)
    <3>1. n = 1
      <4>1. n \in Nat /\ n >= 1 /\ ~(2 <= n)
        BY <1>1, <2>2
      <4> HIDE DEF n
      <4> QED
        BY <4>1
    <3> QED
      BY <1>3, <2>2, <3>1
  <2> QED
    BY <2>1, <2>2
<1>5. t \in Seq(S) /\ Len(t) = n
  BY <1>1, <1>2, <1>4
<1>6. ASSUME NEW k \in 1..n PROVE t[k] = s[k]
  <2>1. CASE k = 1
    BY <1>1, <1>2, <2>1
  <2>2. CASE k # 1
    <3> DEFINE i == k - 1
    <3>1. i \in 1..(n - 2 + 1) /\ 2 + i - 1 = k
      BY <1>1, <2>2
    <3>2. t[k] = rest[i]
      BY <1>1, <1>2, <1>4, <2>2
    <3> QED
      BY <1>3, <3>1, <3>2
  <2> QED
    BY <2>1, <2>2
<1> HIDE DEF t
<1>7. t = s
  BY <1>1, <1>5, <1>6, SeqEqual
<1> QED
  BY <1>2, <1>7 DEF t, rest

\* process cuts the line at its first space for two names.
LEMMA ProcessTwo ==
  ASSUME NEW names \in Seq(Names), Len(names) = 2, NEW line \in Words
  PROVE  LET values == process(names, line) IN
         /\ values \in Seq(Words) /\ Len(values) = 2
         /\ IsCut(line, values[1], values[2])
<1> DEFINE words == split(line, {Space}, FALSE)
           n == Len(words)
           d == <<Space>>
           values == process(names, line)
           rest == SubSeq(words, 2, n)
           first == words[1]
<1>1. words \in Seq(Words) /\ words # <<>>
  BY SplitType
<1>2. join(words, d) = line /\ Lacks(first, Space)
  <2>1. Space \in Nat
    BY DEF Space
  <2> QED
    BY <2>1, SplitJoins
<1>3. values \in Seq(Words) /\ Len(values) = 2
  BY ProcessType
<1>4. DOMAIN names = 1..2
  OBVIOUS
<1>5. values = [k \in 1..2 |-> IF k > n THEN Empty
                              ELSE IF k < 2 THEN words[k]
                              ELSE join(SubSeq(words, k, n), d)]
  BY <1>4 DEF process
<1> HIDE DEF words, values
<1>6. n \in Nat /\ n >= 1 /\ first \in Words
  BY <1>1
<1>7. values[1] = first
  BY <1>5, <1>6
<1>8. values[2] = IF 2 > n THEN Empty ELSE join(rest, d)
  BY <1>5, <1>6
<1>9. rest \in Seq(Words) /\ words = <<first>> \o rest /\ d \in Words
  BY <1>1, FirstAndRest, SpacedType
<1>10. join(<<first>>, d) = first /\ line \in Seq(Nat) /\ first \in Seq(Nat) /\ d \in Seq(Nat)
  BY <1>6, <1>9, JoinOne, WordsAreCodes
<1> HIDE DEF n, rest, first
<1>11. ASSUME n = 1
       PROVE  IsCut(line, values[1], values[2])
  <2>1. rest = <<>>
    <3>1. words # <<>> /\ n = Len(words)
      BY <1>1 DEF n
    <3>2. Len(words) = 1 + Len(rest)
      BY <1>6, <1>9
    <3> QED
      BY <1>9, <1>11, <3>1, <3>2
  <2>2. words = <<first>>
    <3> DEFINE one == <<first>>
    <3>1. one \in Seq(Words)
      BY <1>6
    <3> HIDE DEF one
    <3>2. one \o <<>> = one
      BY <3>1
    <3> QED
      BY <1>9, <2>1, <3>2 DEF one
  <2>3. line = first
    BY <1>2, <1>10, <2>2
  <2>4. values[2] = Empty
    <3>1. 2 > n
      BY <1>11
    <3> QED
      BY <1>8, <3>1
  <2> QED
    BY <1>2, <1>6, <1>7, <2>3, <2>4, CutAtEnd
<1>12. ASSUME n # 1
       PROVE  IsCut(line, values[1], values[2])
  <2>1. rest # <<>>
    <3>1. Len(words) = 1 + Len(rest)
      BY <1>6, <1>9
    <3>2. n = Len(words)
      BY DEF n
    <3> QED
      BY <1>9, <1>12, <3>1, <3>2
  <2> DEFINE one == <<first>>
  <2>2. one # <<>> /\ one \in Seq(Words)
    BY <1>6
  <2> HIDE DEF one
  <2>3. join(one \o rest, d) = (join(one, d) \o d) \o join(rest, d)
    BY <1>9, <2>1, <2>2, JoinConcat
  <2>4. line = (first \o d) \o join(rest, d)
    BY <1>2, <1>9, <1>10, <2>3 DEF one
  <2>5. values[2] = join(rest, d)
    <3>1. ~(2 > n)
      BY <1>6, <1>12
    <3> QED
      BY <1>8, <3>1
  <2>6. values[2] \in Words
    <3>1. \A s \in Seq(Words) : Len(s) = 2 => s[2] \in Words
      OBVIOUS
    <3> QED
      BY <1>3, <3>1
  <2>7. line = Spaced(first, values[2])
    BY <2>4, <2>5 DEF Spaced
  <2>8. IsCut(Spaced(first, values[2]), first, values[2])
    BY <1>2, <1>6, <2>6, CutAtSpace
  <2> QED
    BY <1>7, <2>7, <2>8
<1> QED
  BY <1>3, <1>11, <1>12 DEF values

\* echo without options.
LEMMA EchoWords ==
  ASSUME NEW args \in Seq(Words), args # <<>>, args[1] # Empty, ~ReadsAsOption(args[1])
  PROVE  echo(args) = join(args, <<Space>>) \o <<Newline>>
<1> DEFINE n == Len(args)
           texts == {k \in DOMAIN args : ~is_options(args[k])}
           options == SubSeq(args, 1, Min(texts) - 1)
           arguments == SubSeq(args, Min(texts), Len(args))
           d == <<Space>>
<1>1. DOMAIN args = 1..n /\ n \in Nat /\ n >= 1
  OBVIOUS
<1>2. ~is_options(args[1])
  BY DEF is_options, ReadsAsOption
<1>3. texts \subseteq 1..n /\ 1 \in texts
  BY <1>1, <1>2
<1> HIDE DEF n
<1> HIDE DEF texts
<1>4. Min(texts) = 1
  <2>1. texts \subseteq Nat /\ texts # {}
    BY <1>1, <1>3
  <2> DEFINE m == Min(texts)
  <2>2. m \in texts /\ m <= 1
    BY <1>3, <2>1, MinFacts
  <2>3. m \in 1..n
    BY <1>3, <2>2
  <2> HIDE DEF m
  <2>4. m = 1
    BY <1>1, <2>2, <2>3
  <2> QED
    BY <2>4 DEF m
<1>5. options = <<>>
  <2>1. options = SubSeq(args, 1, 0)
    BY <1>4
  <2> HIDE DEF options
  <2> QED
    BY <1>1, <2>1
<1>6. arguments = args
  <2>1. arguments = SubSeq(args, 1, Len(args)) /\ 0 \in 0..Len(args) /\ 0 + 1 = 1
    BY <1>1, <1>4 DEF n
  <2> HIDE DEF arguments
  <2>2. SubSeq(args, 0 + 1, Len(args)) = args
    BY <2>1, LinesBehind
  <2> QED
    BY <2>1, <2>2
<1>7. ~enable_escapes(<<>>) /\ ~suppress_nl(<<>>)
  <2>1. FlattenSeq(<<>>) = <<>>
    BY DEF FlattenSeq
  <2>2. DOMAIN <<>> = {}
    OBVIOUS
  <2>3. ~enable_escapes(<<>>)
    BY <2>1, <2>2 DEF enable_escapes
  <2>4. ~suppress_nl(<<>>)
    BY <2>2 DEF suppress_nl
  <2> QED
    BY <2>3, <2>4
<1>8. texts # {}
  BY <1>3
<1>9. echo(args) = IF args = <<>> THEN <<Newline>>
                   ELSE IF texts = {} THEN Empty
                   ELSE IF ~enable_escapes(options)
                   THEN join(arguments, d) \o (IF suppress_nl(options) THEN Empty ELSE <<Newline>>)
                   ELSE IF EscapedArguments(arguments).suppressed
                   THEN EscapedArguments(arguments).text
                   ELSE EscapedArguments(arguments).text
                           \o (IF suppress_nl(options) THEN Empty ELSE <<Newline>>)
  BY DEF echo, texts
<1> HIDE DEF options, arguments
<1> QED
  BY <1>5, <1>6, <1>7, <1>8, <1>9

\* A value as a list of arguments: an empty one is none.
One(v) == IF v = Empty THEN <<>> ELSE <<v>>

\* What echo and printf write for two values, without the newline: left is what
\* they write for one that is no argument.
WrittenOut(a, b, left) == IF a # Empty /\ b # Empty THEN Spaced(a, b) ELSE (a \o b) \o left

LEMMA OneFacts ==
  ASSUME NEW v \in Words
  PROVE  /\ One(v) \in Seq(Words)
         /\ v = Empty => One(v) = <<>> /\ Len(One(v)) = 0
         /\ v # Empty => One(v) = <<v>> /\ Len(One(v)) = 1 /\ One(v)[1] = v /\ One(v) # <<>>
         /\ Empty \o v = v /\ v \o Empty = v
<1>1. v \in Seq(Nat) /\ Empty = <<>>
  BY WordsAreCodes
<1>2. Empty \o v = v /\ v \o Empty = v
  BY <1>1, ConcatEmptySeq
<1>3. v = Empty => One(v) = <<>> /\ Len(One(v)) = 0 /\ One(v) \in Seq(Words)
  BY DEF One
<1>4. v # Empty => One(v) = <<v>>
  BY DEF One
<1>5. <<v>> \in Seq(Words) /\ Len(<<v>>) = 1 /\ <<v>>[1] = v /\ <<v>> # <<>>
  OBVIOUS
<1> QED
  BY <1>2, <1>3, <1>4, <1>5, Zenon

\* The list of the arguments that two values are.
LEMMA OnesFacts ==
  ASSUME NEW a \in Words, NEW b \in Words
  PROVE  LET words == One(a) \o One(b) IN
         /\ words \in Seq(Words) /\ Len(words) \in 0..2
         /\ a # Empty /\ b # Empty => Len(words) = 2 /\ words[1] = a /\ words[2] = b
         /\ a # Empty /\ b = Empty => Len(words) = 1 /\ words[1] = a
         /\ a = Empty /\ b # Empty => Len(words) = 1 /\ words[1] = b
         /\ a = Empty /\ b = Empty => Len(words) = 0 /\ words = <<>>
<1> DEFINE x == One(a)
           y == One(b)
           words == x \o y
<1>1. /\ x \in Seq(Words) /\ y \in Seq(Words)
      /\ a = Empty => x = <<>> /\ Len(x) = 0
      /\ a # Empty => Len(x) = 1 /\ x[1] = a
      /\ b = Empty => y = <<>> /\ Len(y) = 0
      /\ b # Empty => Len(y) = 1 /\ y[1] = b
  BY OneFacts
<1> HIDE DEF x, y
<1>2. /\ words \in Seq(Words) /\ Len(words) = Len(x) + Len(y)
      /\ \A i \in 1..(Len(x) + Len(y)) : words[i] = IF i <= Len(x) THEN x[i] ELSE y[i - Len(x)]
  BY <1>1, ConcatProperties
<1> HIDE DEF words
<1> DEFINE m == Len(x)
           n == Len(y)
<1>8. /\ words \in Seq(Words) /\ Len(words) = m + n
      /\ \A i \in 1..(m + n) : words[i] = IF i <= m THEN x[i] ELSE y[i - m]
  BY <1>2
<1>9. (a = Empty => m = 0) /\ (a # Empty => m = 1) /\ (b = Empty => n = 0) /\ (b # Empty => n = 1)
  BY <1>1
<1> HIDE DEF m, n
<1>3. ASSUME a # Empty, b # Empty PROVE Len(words) = 2 /\ words[1] = a /\ words[2] = b
  <2>1. m = 1 /\ n = 1 /\ x[1] = a /\ y[1] = b
    BY <1>1, <1>3, <1>9
  <2>2. 1 \in 1..(1 + 1) /\ 2 \in 1..(1 + 1) /\ ~(2 <= 1) /\ 2 - 1 = 1 /\ 1 <= 1 /\ 1 + 1 = 2
    OBVIOUS
  <2> QED
    BY <1>8, <2>1, <2>2
<1>4. ASSUME a # Empty, b = Empty PROVE Len(words) = 1 /\ words[1] = a
  <2>1. m = 1 /\ n = 0 /\ x[1] = a
    BY <1>1, <1>4, <1>9
  <2> QED
    BY <1>8, <2>1
<1>5. ASSUME a = Empty, b # Empty PROVE Len(words) = 1 /\ words[1] = b
  <2>1. m = 0 /\ n = 1 /\ y[1] = b
    BY <1>1, <1>5, <1>9
  <2> QED
    BY <1>8, <2>1
<1>6. ASSUME a = Empty, b = Empty PROVE Len(words) = 0 /\ words = <<>>
  <2>1. m = 0 /\ n = 0
    BY <1>6, <1>9
  <2> QED
    BY <1>8, <2>1
<1>7. Len(words) \in 0..2
  BY <1>3, <1>4, <1>5, <1>6
<1> QED
  BY <1>2, <1>3, <1>4, <1>5, <1>6, <1>7 DEF words, x, y

LEMMA JoinNone ==
  ASSUME NEW d \in Words
  PROVE  join(<<>>, d) = Empty
<1> DEFINE none == <<>>
<1>1. none \in Seq(Words) /\ Len(none) = 0
  OBVIOUS
<1> HIDE DEF none
<1>2. PICK acc \in [0..Len(none) -> Words] : acc[0] = Empty /\ acc[Len(none)] = join(none, d)
  BY <1>1, JoinUnfolds
<1> QED
  BY <1>1, <1>2 DEF none

\* echo "$a" "$b".
LEMMA EchoBoth ==
  ASSUME NEW a \in Words, NEW b \in Words, ~ReadsAsOption(a \o b)
  PROVE  echo(One(a) \o One(b)) = WrittenOut(a, b, Empty) \o <<Newline>>
<1> DEFINE x == One(a)
           y == One(b)
           words == x \o y
           d == <<Space>>
<1>1. /\ x \in Seq(Words) /\ y \in Seq(Words) /\ d \in Words
      /\ (x = <<>>) <=> (a = Empty)
      /\ (y = <<>>) <=> (b = Empty)
  BY OneFacts, SpacedType
<1>2. join(x, d) = a /\ join(y, d) = b
  <2>1. ASSUME NEW v \in Words PROVE join(One(v), d) = v
    <3>1. join(<<>>, d) = Empty
      BY <1>1, JoinNone
    <3>2. join(<<v>>, d) = v
      BY <1>1, JoinOne
    <3> QED
      BY <3>1, <3>2 DEF One
  <2> QED
    BY <2>1
<1>3. words \in Seq(Words) /\ (words = <<>> <=> (a = Empty /\ b = Empty))
  BY OnesFacts
<1> HIDE DEF x, y, d
<1>4. join(words, d) = IF a # Empty /\ b # Empty THEN Spaced(a, b) ELSE a \o b
  <2>1. join(words, d) = IF x # <<>> /\ y # <<>> THEN (join(x, d) \o d) \o join(y, d)
                         ELSE join(x, d) \o join(y, d)
    BY <1>1, JoinConcat
  <2> QED
    BY <1>1, <1>2, <2>1 DEF Spaced, d
<1>5. (a \o b) \in Words /\ (a \o b) \o Empty = a \o b
  <2>1. a \o b \in Words
    BY WordFacts
  <2> QED
    BY <2>1, OneFacts
<1>6. WrittenOut(a, b, Empty) = join(words, d)
  BY <1>4, <1>5 DEF WrittenOut
<1>7. CASE words = <<>>
  <2>1. join(words, d) = Empty
    BY <1>1, <1>7, JoinNone
  <2>2. echo(words) = <<Newline>>
    BY <1>7 DEF echo
  <2>3. Empty \o <<Newline>> = <<Newline>>
    BY WordFacts, OneFacts DEF Newline
  <2> QED
    BY <1>6, <2>1, <2>2, <2>3 DEF words, x, y
<1>8. CASE words # <<>>
  <2>1. words[1] # Empty /\ ~ReadsAsOption(words[1])
    <3>1. CASE a = Empty
      <4>1. b # Empty
        BY <1>3, <1>8, <3>1
      <4>2. words[1] = b
        BY <3>1, <4>1, OnesFacts DEF words, x, y
      <4>3. a \o b = b
        BY <3>1, OneFacts
      <4> QED
        BY <4>1, <4>2, <4>3
    <3>2. CASE a # Empty
      <4>1. words[1] = a
        BY <3>2, OnesFacts DEF words, x, y
      <4>2. a \o b # Empty /\ (a \o b)[1] = a[1]
        <5>1. a \in Seq(Nat) /\ b \in Seq(Nat) /\ a # <<>> /\ Empty = <<>>
          BY <3>2, WordsAreCodes
        <5> QED
          BY <5>1
      <4> QED
        BY <3>2, <4>1, <4>2 DEF ReadsAsOption
    <3> QED
      BY <3>1, <3>2
  <2> HIDE DEF words
  <2>2. echo(words) = join(words, d) \o <<Newline>>
    BY <1>3, <1>8, <2>1, EchoWords DEF d
  <2> QED
    BY <1>6, <2>2 DEF words, x, y
<1> QED
  BY <1>7, <1>8

----------------------------------------------------------------------------
(* printf "%s %s\n" with two words.                                        *)

\* "%s %s\n"
TwoWords == <<Percent, Space, Percent, Newline>>

LEMMA TwoWordsFacts ==
  /\ TwoWords \in Words /\ TwoWords \in Seq(Nat) /\ Len(TwoWords) = 4 /\ DOMAIN TwoWords = 1..4
  /\ TwoWords[1] = Percent /\ TwoWords[2] = Space /\ TwoWords[3] = Percent
  /\ TwoWords[4] = Newline
  /\ \A i \in 1..4 : TwoWords[i] # Backslash
  /\ Space # Percent /\ Newline # Percent
<1>1. TwoWords \in Seq(Nat) /\ Len(TwoWords) = 4 /\ DOMAIN TwoWords = 1..4
  BY DEF TwoWords, Percent, Space, Newline
<1>2. /\ TwoWords[1] = Percent /\ TwoWords[2] = Space /\ TwoWords[3] = Percent
      /\ TwoWords[4] = Newline
  BY DEF TwoWords
<1>3. \A i \in 1..4 : i = 1 \/ i = 2 \/ i = 3 \/ i = 4
  OBVIOUS
<1>4. Percent # Backslash /\ Space # Backslash /\ Newline # Backslash /\ Space # Percent
      /\ Newline # Percent
  BY DEF Percent, Space, Newline, Backslash
<1> QED
  BY <1>1, <1>2, <1>3, <1>4, WordsAreCodes

\* A word without a backslash has no escapes.
LEMMA NoEscapes ==
  ASSUME NEW word \in Words, \A i \in 1..Len(word) : word[i] # Backslash
  PROVE  /\ transform_escapes(word, FALSE).text = word
         /\ ~transform_escapes(word, FALSE).suppressed
<1> DEFINE n == Len(word)
<1>1. n \in Nat /\ word \in Seq(Nat) /\ FALSE \in BOOLEAN
  BY WordsAreCodes
<1>2. PICK f : EscapesComputes(word, FALSE, f)
  BY EscapesUnfolds
<1>3. /\ f \in [1..(n + 1) -> Escaped]
      /\ f[n + 1] = [text |-> Empty, suppressed |-> FALSE]
      /\ \A i \in 1..n : f[i] = EscapesPiece(word, FALSE, i, f[EscapesNext(word, FALSE, i)])
      /\ transform_escapes(word, FALSE) = f[1]
  BY <1>2 DEF EscapesComputes
<1>4. ASSUME NEW i \in 1..n
      PROVE  f[i].text = <<word[i]>> \o f[i + 1].text /\ f[i].suppressed = f[i + 1].suppressed
  <2>1. ~Suppresses(word, i)
    BY DEF Suppresses
  <2>2. EscapeAt(word, i, FALSE) = [text |-> <<word[i]>>, length |-> 1]
    BY DEF EscapeAt
  <2> DEFINE t == f[i + 1]
             c == <<word[i]>>
             e == EscapeAt(word, i, FALSE)
             next == EscapesNext(word, FALSE, i)
  <2>7. e.text = c /\ e.length = 1
    <3>1. e = [text |-> c, length |-> 1]
      BY <2>2
    <3> HIDE DEF e, c
    <3> QED
      BY <3>1
  <2>3. next = i + 1
    <3>1. e.length = 1
      BY <2>7
    <3>2. next = i + e.length
      BY <2>1 DEF EscapesNext
    <3> HIDE DEF e, next
    <3> QED
      BY <3>1, <3>2
  <2>4. f[i] = [t EXCEPT !.text = c \o @]
    <3>1. e.text = c
      BY <2>7
    <3>2. \A r : EscapesPiece(word, FALSE, i, r) = [r EXCEPT !.text = e.text \o @]
      BY <2>1 DEF EscapesPiece
    <3>3. f[i] = EscapesPiece(word, FALSE, i, t)
      <4> HIDE DEF next
      <4>1. f[i] = EscapesPiece(word, FALSE, i, f[next])
        BY <1>3 DEF next
      <4> QED
        BY <2>3, <4>1
    <3> HIDE DEF e, t, c
    <3>4. EscapesPiece(word, FALSE, i, t) = [t EXCEPT !.text = e.text \o @]
      BY <3>2
    <3> QED
      BY <3>1, <3>3, <3>4
  <2>5. t \in Escaped
    BY <1>1, <1>3
  <2> HIDE DEF t, c
  <2>6. f[i].text = c \o t.text /\ f[i].suppressed = t.suppressed
    BY <2>4, <2>5 DEF Escaped
  <2> QED
    BY <2>6 DEF t, c
<1> DEFINE g == [i \in 1..(n + 1) |-> f[i].text]
           l == n + 1
<1>5. l \in 1..l /\ 1 \in 1..l /\ l - 1 = n /\ l \in Nat
  BY <1>1
<1>6. g \in [1..(n + 1) -> Words]
  BY <1>3 DEF Escaped
<1>7. \A i \in 1..n : g[i] = <<word[i]>> \o g[i + 1]
  BY <1>1, <1>4
<1>8. g[1] = f[1].text /\ g[l] = <<>>
  BY <1>3, <1>5, WordsAreCodes
<1> HIDE DEF g
<1>9. g[1] = SubSeq(word, 1, n) \o g[l]
  <2>1. \A i \in 1..(l - 1) : g[i] = <<word[i]>> \o g[i + 1]
    BY <1>1, <1>7
  <2>2. l \in 1..(Len(word) + 1) /\ 1 \in 1..l
    BY <1>5
  <2>3. g \in [1..(Len(word) + 1) -> Words]
    BY <1>6
  <2> HIDE DEF l
  <2>4. g[1] = SubSeq(word, 1, l - 1) \o g[l]
    BY <2>1, <2>2, <2>3, CopiesUpTo
  <2> QED
    BY <1>5, <2>4
<1>10. SubSeq(word, 1, n) = word
  <2>1. 0 \in 0..Len(word) /\ 0 + 1 = 1
    BY <1>1
  <2>2. SubSeq(word, 0 + 1, Len(word)) = word
    BY <1>1, <2>1, LinesBehind
  <2> QED
    BY <2>1, <2>2
<1>11. word \o <<>> = word
  BY <1>1
<1> DEFINE Q == {k \in 0..n : f[n + 1 - k].suppressed = FALSE}
<1>12. 0 \in Q
  BY <1>1, <1>3
<1>13. ASSUME NEW k \in 0..n, k \in Q, k < n PROVE k + 1 \in Q
  <2> DEFINE i == n - k
             j == k + 1
  <2>1. i \in 1..n /\ n + 1 - k = i + 1 /\ n + 1 - j = i /\ j \in 0..n
    BY <1>1, <1>13
  <2>2. f[n + 1 - k].suppressed = FALSE
    BY <1>13
  <2> HIDE DEF i, j, Q
  <2>3. f[n + 1 - j].suppressed = FALSE
    BY <1>4, <2>1, <2>2
  <2>4. j \in Q
    BY <2>1, <2>3 DEF Q
  <2> QED
    BY <2>4 DEF j
<1>14. n \in Q
  <2> HIDE DEF Q
  <2> QED
    BY <1>1, <1>12, <1>13, CountUp
<1>15. f[1].suppressed = FALSE
  <2>1. n + 1 - n = 1
    BY <1>1
  <2> QED
    BY <1>14, <2>1
<1> QED
  BY <1>3, <1>8, <1>9, <1>10, <1>11, <1>15

\* The directives of "%s %s\n".
LEMMA TwoDirectives ==
  /\ Cardinality({i \in 1..1 : TwoWords[i] = Percent}) = 1
  /\ Cardinality({i \in 1..3 : TwoWords[i] = Percent}) = 2
  /\ Cardinality({i \in DOMAIN TwoWords : TwoWords[i] = Percent}) = 2
<1>1. {i \in 1..1 : TwoWords[i] = Percent} = {1}
  BY TwoWordsFacts
<1>2. {i \in 1..3 : TwoWords[i] = Percent} = {1} \cup {3}
  <2>1. \A i \in 1..3 : i = 1 \/ i = 2 \/ i = 3
    OBVIOUS
  <2> QED
    BY <2>1, TwoWordsFacts
<1>3. {i \in DOMAIN TwoWords : TwoWords[i] = Percent} = {1} \cup {3}
  <2>1. \A i \in 1..4 : i = 1 \/ i = 2 \/ i = 3 \/ i = 4
    OBVIOUS
  <2>2. 1 \in 1..4 /\ 3 \in 1..4
    OBVIOUS
  <2> QED
    BY <2>1, <2>2, TwoWordsFacts
<1>4. Cardinality({1}) = 1 /\ IsFiniteSet({1}) /\ 3 \notin {1}
  <2>1. 3 \notin {1}
    OBVIOUS
  <2>2. Cardinality({1}) = 1 /\ IsFiniteSet({1})
    BY FS_Singleton
  <2> QED
    BY <2>1, <2>2
<1>5. Cardinality({1} \cup {3}) = 2
  <2>1. Cardinality({1} \cup {3}) = Cardinality({1}) + 1
    BY <1>4, FS_AddElement
  <2> QED
    BY <1>4, <2>1
<1> QED
  BY <1>1, <1>2, <1>3, <1>4, <1>5

\* The word of a directive: there may be none.
Nth(words, n) == IF n <= Len(words) THEN words[n] ELSE Empty

\* printf "%s %s\n" with at most two words.
LEMMA PrintfWords ==
  ASSUME NEW words \in Seq(Words), Len(words) \in 0..2
  PROVE  printf(<<TwoWords>> \o words)
            \in {InterpreterException, OtherException,
                 Spaced(Nth(words, 1), Nth(words, 2)) \o <<Newline>>}
<1> DEFINE args == <<TwoWords>> \o words
           n == Len(words)
           a == Nth(words, 1)
           b == Nth(words, 2)
           text == Spaced(a, b) \o <<Newline>>
           places == {i \in DOMAIN TwoWords : TwoWords[i] = Percent}
           rounds == Max({1, (n + Cardinality(places) - 1) \div Cardinality(places)})
<1>1. /\ n \in Nat /\ n \in 0..2 /\ (words = <<>> <=> n = 0)
      /\ \A k \in 1..n : words[k] \in Words
  OBVIOUS
<1> HIDE DEF n
<1>2. a \in Words /\ b \in Words
  <2>1. ASSUME NEW k \in 1..2 PROVE Nth(words, k) \in Words
    <3>1. k <= n => k \in 1..n
      BY <1>1
    <3> QED
      BY <1>1, <3>1, WordFacts DEF Nth, n
  <2> QED
    BY <2>1
<1>3. /\ args[1] = TwoWords /\ Len(args) = n + 1
      /\ SubSeq(args, 2, Len(args)) = words
  <2> DEFINE one == <<TwoWords>>
  <2>1. one \in Seq(Words) /\ Len(one) = 1 /\ one[1] = TwoWords
    BY TwoWordsFacts
  <2> HIDE DEF one
  <2> DEFINE l == one \o words
             h == n + 1
             s == SubSeq(l, 2, h)
  <2>2. /\ l \in Seq(Words) /\ Len(l) = Len(one) + Len(words)
        /\ \A i \in 1..(Len(one) + Len(words)) :
              l[i] = IF i <= Len(one) THEN one[i] ELSE words[i - Len(one)]
    BY <2>1, ConcatProperties
  <2>3. h \in Int /\ h >= 1 /\ h - 2 + 1 = n /\ (2 <= h <=> n >= 1) /\ 1 + n = h
    BY <1>1
  <2> HIDE DEF l
  <2>4. /\ Len(l) = h /\ l[1] = TwoWords
        /\ \A i \in 2..h : l[i] = words[i - 1]
    <3>1. Len(one) + Len(words) = h
      BY <2>1, <2>3 DEF n
    <3> HIDE DEF h
    <3>2. 1 \in 1..h /\ \A i \in 2..h : i \in 1..h /\ ~(i <= 1)
      BY <2>3
    <3> QED
      BY <2>1, <2>2, <3>1, <3>2
  <2> HIDE DEF h
  <2>5. \A i \in 2..h : l[i] \in Words
    <3>1. \A i \in 2..h : i - 1 \in 1..n
      BY <1>1, <2>3
    <3> QED
      BY <1>1, <2>4, <3>1
  <2>6. /\ s \in Seq(Words)
        /\ Len(s) = IF 2 <= h THEN h - 2 + 1 ELSE 0
        /\ \A i \in 1..(h - 2 + 1) : s[i] = l[2 + i - 1]
    <3>1. 2 \in Int
      OBVIOUS
    <3> QED
      BY <2>3, <2>5, <3>1, SubSeqProperties
  <2> HIDE DEF s
  <2>7. Len(s) = n
    BY <1>1, <2>3, <2>6
  <2>8. ASSUME NEW i \in 1..n PROVE s[i] = words[i]
    <3> DEFINE k == 2 + i - 1
    <3>1. k \in 2..h /\ k - 1 = i
      BY <1>1, <2>3
    <3>2. s[i] = l[k]
      BY <2>3, <2>6
    <3> HIDE DEF k
    <3> QED
      BY <2>4, <3>1, <3>2
  <2>9. s = words
    BY <2>6, <2>7, <2>8, SeqEqual DEF n
  <2>10. l = args
    BY DEF l, one
  <2> HIDE DEF args
  <2> QED
    BY <2>4, <2>9, <2>10 DEF s, h
<1>4. Formatted(TwoWords, words) = text
  <2>1. PICK acc \in [0..4 -> Words] :
           /\ acc[0] = Empty
           /\ \A i \in 1..4 : acc[i] = FormatStep(TwoWords, words, acc[i - 1], i)
           /\ acc[4] = Formatted(TwoWords, words)
    <3>1. \E acc \in [0..Len(TwoWords) -> Words] :
             /\ acc[0] = Empty
             /\ \A i \in 1..Len(TwoWords) : acc[i] = FormatStep(TwoWords, words, acc[i - 1], i)
             /\ acc[Len(TwoWords)] = Formatted(TwoWords, words)
      BY TwoWordsFacts, FormatUnfolds
    <3> QED
      BY <3>1, TwoWordsFacts
  <2>2. acc[1] = <<>> \o a
    <3>1. acc[1] = FormatStep(TwoWords, words, acc[0], 1)
      BY <2>1
    <3> DEFINE m == Cardinality({i \in 1..1 : TwoWords[i] = Percent})
    <3>2. m = 1
      BY TwoDirectives
    <3>3. acc[1] = acc[0] \o (IF TwoWords[1] # Percent THEN <<TwoWords[1]>>
                              ELSE IF m <= Len(words) THEN words[m] ELSE Empty)
      BY <3>1 DEF FormatStep
    <3> HIDE DEF m
    <3> QED
      BY <2>1, <3>2, <3>3, TwoWordsFacts, WordsAreCodes DEF Nth
  <2>3. acc[2] = acc[1] \o <<Space>>
    <3>1. acc[2] = FormatStep(TwoWords, words, acc[1], 2)
      BY <2>1
    <3> QED
      BY <3>1, TwoWordsFacts DEF FormatStep
  <2>4. acc[3] = acc[2] \o b
    <3>1. acc[3] = FormatStep(TwoWords, words, acc[2], 3)
      BY <2>1
    <3>2. acc[3] = acc[2] \o (IF 2 <= Len(words) THEN words[2] ELSE Empty)
      <4> DEFINE m == Cardinality({i \in 1..3 : TwoWords[i] = Percent})
      <4>1. m = 2
        BY TwoDirectives
      <4>2. acc[3] = acc[2] \o (IF TwoWords[3] # Percent THEN <<TwoWords[3]>>
                                ELSE IF m <= Len(words) THEN words[m] ELSE Empty)
        BY <3>1 DEF FormatStep
      <4> HIDE DEF m
      <4> QED
        BY <4>1, <4>2, TwoWordsFacts
    <3> QED
      BY <3>2 DEF Nth
  <2>5. acc[4] = acc[3] \o <<Newline>>
    <3>1. acc[4] = FormatStep(TwoWords, words, acc[3], 4)
      BY <2>1
    <3> QED
      BY <3>1, TwoWordsFacts DEF FormatStep
  <2>6. <<>> \o a = a
    BY <1>2, WordsAreCodes
  <2> HIDE DEF a, b
  <2> QED
    BY <2>1, <2>2, <2>3, <2>4, <2>5, <2>6 DEF Spaced
<1>5. text \in Seq(Nat)
  <2>1. <<Newline>> \in Words
    BY WordFacts DEF Newline
  <2> QED
    BY <1>2, <2>1, SpacedType, WordFacts, WordsAreCodes
<1> HIDE DEF a, b
<1>6. Reused(TwoWords, words) = text
  <2>1. Cardinality(places) = 2
    BY TwoDirectives
  <2> HIDE DEF places, text
  <2>2. CASE words = <<>>
    BY <1>4, <2>2 DEF Reused
  <2>3. CASE words # <<>>
    <3>2. rounds = 1
      <4>1. (n + 2 - 1) \div 2 = 1
        <5>1. n = 1 \/ n = 2
          BY <1>1, <2>3
        <5> QED
          BY <5>1
      <4>2. rounds = Max({1})
        <5>1. {1, 1} = {1}
          OBVIOUS
        <5> QED
          BY <1>1, <2>1, <4>1, <5>1
      <4>3. Max({1}) = 1
        <5>1. {1} \subseteq 0..1 /\ {1} # {} /\ 1 \in Nat
          OBVIOUS
        <5>2. Max({1}) \in {1}
          BY <5>1, MaxFacts
        <5> QED
          BY <5>2
      <4> QED
        BY <4>2, <4>3
    <3>3. Reused(TwoWords, words) = RoundsOf(TwoWords, words, 2, rounds)
      <4>1. Reused(TwoWords, words)
              = IF words = <<>> THEN Formatted(TwoWords, words)
                ELSE IF Cardinality(places) = 0 THEN OtherException
                ELSE RoundsOf(TwoWords, words, Cardinality(places), rounds)
        BY Zenon DEF Reused, RoundsOf, places, n
      <4> HIDE DEF rounds
      <4> QED
        BY <1>1, <2>1, <2>3, <4>1
    <3> HIDE DEF rounds
    <3>4. PICK acc \in [0..1 -> Words] :
             /\ acc[0] = Empty
             /\ \A i \in 1..1 : acc[i] = RoundsStep(TwoWords, words, 2, acc[i - 1], i)
             /\ acc[1] = RoundsOf(TwoWords, words, 2, 1)
      <4> DEFINE d == 2
                 r == 1
      <4>1. TwoWords \in Words /\ d \in Nat /\ r \in Nat
        BY TwoWordsFacts
      <4> HIDE DEF d, r
      <4>2. \E acc \in [0..r -> Words] :
               /\ acc[0] = Empty
               /\ \A i \in 1..r : acc[i] = RoundsStep(TwoWords, words, d, acc[i - 1], i)
               /\ acc[r] = RoundsOf(TwoWords, words, d, r)
        BY <1>1, <4>1, RoundsUnfolds, ZenonT(40)
      <4> QED
        BY <4>2 DEF d, r
    <3>5. acc[1] = RoundsStep(TwoWords, words, 2, acc[0], 1)
      BY <3>4
    <3>6. SubSeq(words, (1 - 1) * 2 + 1, Min({1 * 2, Len(words)})) = words
      <4>1. Min({1 * 2, Len(words)}) = n
        <5>1. {2, n} \subseteq Nat /\ {2, n} # {} /\ n <= 2
          BY <1>1
        <5>2. Min({2, n}) \in {2, n} /\ Min({2, n}) <= 2 /\ Min({2, n}) <= n
          BY <5>1, MinFacts
        <5>3. Min({2, n}) = n
          BY <5>1, <5>2
        <5>4. 1 * 2 = 2
          OBVIOUS
        <5> QED
          BY <5>3, <5>4 DEF n
      <4>2. (1 - 1) * 2 + 1 = 0 + 1
        OBVIOUS
      <4>3. 0 \in 0..Len(words)
        BY <1>1 DEF n
      <4>4. SubSeq(words, 0 + 1, Len(words)) = words
        BY <4>3, LinesBehind
      <4> QED
        BY <4>1, <4>2, <4>4 DEF n
    <3>7. acc[1] = <<>> \o Formatted(TwoWords, words)
      BY <3>4, <3>5, <3>6, WordsAreCodes DEF RoundsStep
    <3>8. <<>> \o text = text
      BY <1>5
    <3> QED
      BY <1>4, <3>2, <3>3, <3>4, <3>7, <3>8
  <2> QED
    BY <2>2, <2>3
<1>7. transform_escapes(TwoWords, FALSE).text = TwoWords
      /\ ~transform_escapes(TwoWords, FALSE).suppressed
  BY TwoWordsFacts, NoEscapes
<1>8. TwoWords # dash_v
  BY DEF TwoWords, dash_v
<1>9. printf(args) = IF args[1] = dash_v /\ Len(args) < 3 THEN InterpreterException
                     ELSE IF transform_escapes(TwoWords, FALSE).suppressed
                             \/ Reused(TwoWords, words) = OtherException THEN OtherException
                     ELSE IF args[1] # dash_v /\ FirstOf(args[1]) = <<Minus>>
                     THEN InterpreterException
                     ELSE Reused(TwoWords, words)
  <2> HIDE DEF args
  <2>1. 1 + 1 = 2
    OBVIOUS
  <2> QED
    BY <1>3, <1>7, <1>8, <2>1 DEF printf
<1> HIDE DEF args, text
<1>10. printf(args) \in {InterpreterException, OtherException, text}
  BY <1>6, <1>9
<1> QED
  BY <1>10 DEF args, text, a, b

\* printf "%s %s\n" "$a" "$b".
LEMMA PrintfBoth ==
  ASSUME NEW a \in Words, NEW b \in Words
  PROVE  printf(<<TwoWords>> \o (One(a) \o One(b)))
            \in {InterpreterException, OtherException, WrittenOut(a, b, <<Space>>) \o <<Newline>>}
<1> DEFINE words == One(a) \o One(b)
           d == <<Space>>
<1>1. /\ words \in Seq(Words) /\ Len(words) \in 0..2
      /\ a # Empty /\ b # Empty => Len(words) = 2 /\ words[1] = a /\ words[2] = b
      /\ a # Empty /\ b = Empty => Len(words) = 1 /\ words[1] = a
      /\ a = Empty /\ b # Empty => Len(words) = 1 /\ words[1] = b
      /\ a = Empty /\ b = Empty => Len(words) = 0 /\ words = <<>>
  BY OnesFacts
<1> HIDE DEF words
<1>2. printf(<<TwoWords>> \o words)
         \in {InterpreterException, OtherException,
              Spaced(Nth(words, 1), Nth(words, 2)) \o <<Newline>>}
  BY <1>1, PrintfWords
<1>3. \A v \in Words : Empty \o v = v /\ v \o Empty = v
  BY OneFacts
<1>4. d \in Words /\ \A v \in Words : v \o d \in Words
  BY SpacedType
<1> HIDE DEF d
<1>5. \A v, x : Spaced(v, x) = (v \o d) \o x
  BY DEF Spaced, d
<1>6. Spaced(Nth(words, 1), Nth(words, 2)) = WrittenOut(a, b, d)
  <2>1. CASE a # Empty /\ b # Empty
    <3>1. Len(words) = 2 /\ words[1] = a /\ words[2] = b
      BY <1>1, <2>1
    <3>2. Nth(words, 1) = a /\ Nth(words, 2) = b
      BY <3>1 DEF Nth
    <3> QED
      BY <2>1, <3>2 DEF WrittenOut
  <2>2. CASE a # Empty /\ b = Empty
    <3>1. Nth(words, 1) = a /\ Nth(words, 2) = Empty
      <4>1. Len(words) = 1 /\ words[1] = a
        BY <1>1, <2>2
      <4> QED
        BY <4>1 DEF Nth
    <3>2. Spaced(a, Empty) = a \o d
      BY <1>3, <1>4, <1>5
    <3>3. WrittenOut(a, b, d) = a \o d
      BY <1>3, <2>2 DEF WrittenOut
    <3> QED
      BY <3>1, <3>2, <3>3
  <2>3. CASE a = Empty /\ b # Empty
    <3>1. Nth(words, 1) = b /\ Nth(words, 2) = Empty
      <4>1. Len(words) = 1 /\ words[1] = b
        BY <1>1, <2>3
      <4> QED
        BY <4>1 DEF Nth
    <3>2. Spaced(b, Empty) = b \o d
      BY <1>3, <1>4, <1>5
    <3>3. WrittenOut(a, b, d) = b \o d
      BY <1>3, <2>3 DEF WrittenOut
    <3> QED
      BY <3>1, <3>2, <3>3
  <2>4. CASE a = Empty /\ b = Empty
    <3>1. Nth(words, 1) = Empty /\ Nth(words, 2) = Empty
      BY <1>1, <2>4 DEF Nth
    <3>2. Spaced(Empty, Empty) = Empty \o d
      BY <1>3, <1>4, <1>5, WordFacts
    <3>3. WrittenOut(a, b, d) = Empty \o d
      BY <1>3, <2>4 DEF WrittenOut
    <3> QED
      BY <3>1, <3>2, <3>3
  <2> QED
    BY <2>1, <2>2, <2>3, <2>4
<1> QED
  BY <1>2, <1>6 DEF words, d

----------------------------------------------------------------------------
(* What read, echo and printf do to an interpreter.                        *)

\* The streams and options of w are those of x.
SameStreams(w, x) == w.input = x.input /\ w.output = x.output /\ w.options = x.options

\* An assignment leaves them alone.
LEMMA AssignedStreams ==
  ASSUME NEW w \in Interpreter, NEW name \in Names, NEW value \in Words, NEW status \in {0, 1}
  PROVE  /\ Done(Assigned(w, name, value, 0), status).thrown = None
         /\ Done(Assigned(w, name, value, 0), status).walker \in Interpreter
         /\ SameStreams(Done(Assigned(w, name, value, 0), status).walker, w)
<1> DEFINE new == IF w.vars[name] = None THEN Scalar(value, FALSE, 0)
                  ELSE WithValue(w.vars[name], value, 0)
           x == Assigned(w, name, value, 0)
           v == Done(x, status).walker
<1>1. 0 \in Indexes
  BY IndexAssumption DEF Indexes
<1>2. x \in Interpreter
  BY <1>1, AssignedType
<1>3. x = [w EXCEPT !.vars[name] = new]
  BY DEF Assigned
<1> HIDE DEF new
<1>4. SameStreams(x, w)
  BY <1>3 DEF Interpreter, SameStreams
<1> HIDE DEF x
<1>5. v = [x EXCEPT !.status = status] /\ Done(x, status).thrown = None
  BY DEF Done
<1>6. v \in Interpreter
  BY <1>2, <1>5, WithStatus
<1>7. SameStreams(v, x)
  BY <1>2, <1>5 DEF Interpreter, SameStreams
<1> QED
  BY <1>4, <1>5, <1>6, <1>7 DEF x, SameStreams

\* Two words are given to two names.
LEMMA AssignTwo ==
  ASSUME NEW w \in Interpreter, NEW names \in Seq(Names), Len(names) = 2, names[1] # names[2],
         NEW values \in Seq(Words), Len(values) = 2, NEW status \in {0, 1},
         AssignAll(w, names, values, status).thrown = None
  PROVE  LET x == AssignAll(w, names, values, status).walker IN
         /\ x \in Interpreter
         /\ SameStreams(x, w)
         /\ resolve(x.vars[names[1]], 0, FALSE) = values[1]
         /\ resolve(x.vars[names[2]], 0, FALSE) = values[2]
<1> DEFINE all == AssignAll(w, names, values, status)
           a == names[1]
           b == names[2]
           v == values[1]
           y == values[2]
           x1 == Done(Assigned(w, a, v, 0), status)
           x2 == Done(Assigned(x1.walker, b, y, 0), status)
<1>1. a \in Names /\ b \in Names /\ v \in Words /\ y \in Words /\ a # b
  OBVIOUS
<1>2. Len(values) <= Len(names) /\ 1..Len(values) = {1, 2} /\ 1 - 1 = 0 /\ 2 - 1 = 1
      /\ 0 \in 0..Len(values) /\ 1 \in 0..Len(values)
  OBVIOUS
<1>3. PICK acc \in [0..Len(values) -> Outcomes] :
         /\ acc[0] = Done(w, status)
         /\ \A i \in 1..Len(values) : acc[i] = AssignAllStep(w, names, values, status, acc[i - 1], i)
         /\ acc[Len(values)] = all
  BY <1>2, AssignAllUnfolds
<1>4. /\ acc[1] = AssignAllStep(w, names, values, status, acc[0], 1)
      /\ acc[2] = AssignAllStep(w, names, values, status, acc[1], 2)
      /\ acc[2] = all /\ acc[2].thrown = None
  BY <1>2, <1>3
<1>5. acc[1].thrown = None
  BY <1>4 DEF AssignAllStep
<1>6. acc[2] = Done(Assigned(acc[1].walker, b, y, 0), status)
  BY <1>4, <1>5, ExceptionsAssumption DEF AssignAllStep, Thrown
<1>7. acc[1] = x1
  <2>1. acc[1] = AssignAllStep(w, names, values, status, Done(w, status), 1)
    BY <1>3, <1>4
  <2>2. Done(w, status).thrown = None /\ Done(w, status).walker = [w EXCEPT !.status = status]
    BY DEF Done
  <2>3. acc[1] = Done(Assigned([w EXCEPT !.status = status], a, v, 0), status)
    BY <1>5, <2>1, <2>2, ExceptionsAssumption DEF AssignAllStep, Thrown
  <2>4. Done(Assigned([w EXCEPT !.status = status], a, v, 0), status) = x1
    BY DEF Done, Assigned, Interpreter
  <2> QED
    BY <2>3, <2>4
<1>8. all = x2
  BY <1>4, <1>6, <1>7
<1>9. /\ x1.walker \in Interpreter /\ SameStreams(x1.walker, w)
      /\ WasAssigned(w, a, v, x1.walker.vars)
  BY <1>1, AssignedStreams, AssignedVars
<1> HIDE DEF x1, a, b, v, y, all
<1>10. /\ x2.walker \in Interpreter /\ SameStreams(x2.walker, x1.walker)
       /\ WasAssigned(x1.walker, b, y, x2.walker.vars)
  BY <1>1, <1>9, AssignedStreams, AssignedVars
<1> HIDE DEF x2
<1>11. resolve(x2.walker.vars[b], 0, FALSE) = y /\ resolve(x2.walker.vars[a], 0, FALSE) = v
  BY <1>1, <1>9, <1>10 DEF WasAssigned
<1> QED
  BY <1>8, <1>9, <1>10, <1>11 DEF SameStreams, all, a, b, v, y

\* What read a b does to an interpreter w whose input is lines.
ReadBoth(w, x, names) ==
    LET text == transform_escapes(JoinedLines(w.input), FALSE).text
        a == resolve(x.vars[names[1]], 0, FALSE)
        b == resolve(x.vars[names[2]], 0, FALSE)
    IN /\ x \in Interpreter
       /\ x.output = w.output /\ x.options = w.options
       /\ x.input = SubSeq(w.input, TakenLines(w.input) + 1, Len(w.input))
       /\ a \in Words /\ b \in Words
       /\ IsCut(text, a, b)

\* read with two names.
LEMMA ReadDoes ==
  ASSUME NEW w \in Interpreter, NEW names \in Seq(Names), Len(names) = 2, names[1] # names[2],
         IsJoinable(w.input), JoinedLines(w.input) # Empty,
         read_builtin(w, names).thrown = None
  PROVE  ReadBoth(w, read_builtin(w, names).walker, names)
<1> DEFINE lines == w.input
           got == read(names, lines)
           ahead == [w EXCEPT !.input = got.rest]
           line == JoinedLines(lines)
           text == transform_escapes(line, FALSE).text
           values == process(names, text)
           x == read_builtin(w, names).walker
<1>1. /\ logical_line(lines).line = line /\ line \in Words /\ line # Empty
      /\ logical_line(lines).rest = SubSeq(lines, TakenLines(lines) + 1, Len(lines))
  BY LinesJoin
<1>2. got.values = values /\ got.rest = SubSeq(lines, TakenLines(lines) + 1, Len(lines))
  BY <1>1 DEF read
<1>3. lines \in Seq(Seq(Nat))
  BY DEF Interpreter
<1>4. got.rest \in Seq(Seq(Nat)) /\ got.status \in {0, 1}
  BY <1>3, ReadType
<1>5. text \in Words
  <2> HIDE DEF line
  <2>1. transform_escapes(line, FALSE) \in Escaped
    BY <1>1, TransformEscapesType
  <2> QED
    BY <2>1 DEF Escaped
<1> HIDE DEF text, line
<1>6. /\ values \in Seq(Words) /\ Len(values) = 2
      /\ IsCut(text, values[1], values[2])
  BY <1>5, ProcessTwo
<1>7. names # <<>>
  OBVIOUS
<1>8. read_builtin(w, names) = IF got.suppressed THEN Thrown(ahead, OtherException)
                               ELSE AssignAll(ahead, names, got.values, got.status)
  BY <1>7 DEF read_builtin
<1> HIDE DEF got
<1>9. ahead \in Interpreter /\ ahead.input = got.rest /\ ahead.output = w.output
      /\ ahead.options = w.options
  BY <1>4 DEF Interpreter
<1> HIDE DEF ahead, lines, values
<1> DEFINE status == got.status
<1>10. read_builtin(w, names) = AssignAll(ahead, names, values, status)
  BY <1>2, <1>8, ExceptionsAssumption DEF Thrown
<1>11. status \in {0, 1}
  BY <1>4
<1> HIDE DEF status
<1>12. AssignAll(ahead, names, values, status).thrown = None
  BY <1>10
<1>13. /\ x \in Interpreter /\ SameStreams(x, ahead)
       /\ resolve(x.vars[names[1]], 0, FALSE) = values[1]
       /\ resolve(x.vars[names[2]], 0, FALSE) = values[2]
  <2>1. LET y == AssignAll(ahead, names, values, status).walker IN
        /\ y \in Interpreter /\ SameStreams(y, ahead)
        /\ resolve(y.vars[names[1]], 0, FALSE) = values[1]
        /\ resolve(y.vars[names[2]], 0, FALSE) = values[2]
    BY <1>6, <1>9, <1>11, <1>12, AssignTwo, Zenon
  <2>2. x = AssignAll(ahead, names, values, status).walker
    BY <1>10
  <2> QED
    BY <2>1, <2>2, Zenon
<1> HIDE DEF x
<1>14. values[1] \in Words /\ values[2] \in Words
  <2>1. ASSUME NEW s \in Seq(Words), Len(s) = 2 PROVE s[1] \in Words /\ s[2] \in Words
    BY <2>1
  <2> QED
    BY <1>6, <2>1, Zenon
<1>15. ReadBoth(w, x, names)
  BY <1>2, <1>6, <1>9, <1>13, <1>14 DEF ReadBoth, SameStreams, text, line, lines
<1> QED
  BY <1>15 DEF x

\* "$n", and "$a" "$b"
Quoted(name) == [how |-> "value", name |-> name, index |-> 0, quoted |-> TRUE]
Both(names) == [k \in 1..2 |-> Quoted(names[k])]
Format == [how |-> "word", word |-> TwoWords, quoted |-> TRUE]

\* What echo "$a" "$b" and printf "%s %s\n" "$a" "$b" do to an interpreter w.
WroteBoth(w, x, names, left) ==
    /\ x.output = w.output \o (WrittenOut(resolve(w.vars[names[1]], 0, FALSE),
                                          resolve(w.vars[names[2]], 0, FALSE), left) \o <<Newline>>)
    /\ x.input = w.input
    /\ x.vars = w.vars

\* The arguments of both commands.
LEMMA QuotedArgument ==
  ASSUME NEW w, u(w) = FALSE, NEW name, argument(w, Quoted(name)) # InterpreterException
  PROVE  argument(w, Quoted(name)) = One(resolve(w.vars[name], 0, FALSE))
<1> DEFINE e == Quoted(name)
           value == resolve(w.vars[name], 0, FALSE)
<1>1. e.how = "value" /\ e.name = name /\ e.index = 0 /\ e.quoted = TRUE
  BY DEF Quoted
<1>2. argument(w, e) # InterpreterException
  OBVIOUS
<1> HIDE DEF e
<1>3. Expansion(w, e) = value
  <2>1. Expansion(w, e) = resolve(w.vars[e.name], e.index, u(w))
    BY <1>1 DEF Expansion
  <2> QED
    BY <1>1, <2>1
<1> HIDE DEF value
<1>4. argument(w, e) = IF value = InterpreterException THEN value
                       ELSE IF value = Empty THEN <<>> ELSE <<value>>
  BY <1>1, <1>3 DEF argument
<1> QED
  BY <1>2, <1>4 DEF One, e, value

LEMMA FormatArgument ==
  ASSUME NEW w, argument(w, Format) # InterpreterException
  PROVE  argument(w, Format) = <<TwoWords>>
<1> DEFINE e == Format
<1>1. e.how = "word" /\ e.word = TwoWords /\ e.quoted = TRUE
  BY DEF Format
<1>2. argument(w, e) # InterpreterException
  OBVIOUS
<1> HIDE DEF e
<1>3. Expansion(w, e) = TwoWords
  BY <1>1 DEF Expansion
<1>4. argument(w, e) = IF TwoWords = InterpreterException THEN TwoWords
                       ELSE IF TwoWords = Empty THEN <<>> ELSE <<TwoWords>>
  BY <1>1, <1>3 DEF argument
<1>5. TwoWords # Empty
  <2>1. TwoWords # <<>>
    BY DEF TwoWords
  <2> QED
    BY <2>1, WordsAreCodes
<1> QED
  BY <1>2, <1>4, <1>5 DEF e

\* The arguments of n expansions that throw nothing.
LEMMA ArgumentsFlatten ==
  ASSUME NEW w, NEW es, NEW n \in Nat, DOMAIN es = 1..n,
         Arguments(w, es) # InterpreterException
  PROVE  /\ Arguments(w, es) = FlattenSeq([k \in 1..n |-> argument(w, es[k])])
         /\ \A k \in 1..n : argument(w, es[k]) # InterpreterException
<1> DEFINE args == [k \in DOMAIN es |-> argument(w, es[k])]
<1>1. Arguments(w, es) = IF \E k \in DOMAIN es : args[k] = InterpreterException
                         THEN InterpreterException ELSE FlattenSeq(args)
  BY DEF Arguments
<1>2. args = [k \in 1..n |-> argument(w, es[k])]
  OBVIOUS
<1>3. \A k \in 1..n : args[k] = argument(w, es[k])
  OBVIOUS
<1> HIDE DEF args
<1>4. \A k \in 1..n : args[k] # InterpreterException
  BY <1>1
<1> QED
  BY <1>1, <1>2, <1>3, <1>4

LEMMA EchoDoes ==
  ASSUME NEW w \in Interpreter, u(w) = FALSE, NEW names,
         resolve(w.vars[names[1]], 0, FALSE) \in Words,
         resolve(w.vars[names[2]], 0, FALSE) \in Words,
         ~ReadsAsOption(resolve(w.vars[names[1]], 0, FALSE) \o resolve(w.vars[names[2]], 0, FALSE)),
         echo_builtin(w, Both(names)).thrown = None
  PROVE  WroteBoth(w, echo_builtin(w, Both(names)).walker, names, Empty)
<1> DEFINE a == resolve(w.vars[names[1]], 0, FALSE)
           b == resolve(w.vars[names[2]], 0, FALSE)
           es == Both(names)
           args == Arguments(w, es)
           parts == [k \in 1..2 |-> argument(w, es[k])]
           T == Seq(Words)
           text == WrittenOut(a, b, Empty) \o <<Newline>>
           outcome == echo_builtin(w, es)
<1>1. DOMAIN es = 1..2 /\ es[1] = Quoted(names[1]) /\ es[2] = Quoted(names[2])
  BY DEF Both
<1>2. outcome = IF args = InterpreterException THEN Thrown(w, args)
                ELSE Done([w EXCEPT !.output = @ \o echo(args)], 0)
  BY DEF echo_builtin
<1>3. outcome.thrown = None /\ a \in Words /\ b \in Words /\ ~ReadsAsOption(a \o b)
  OBVIOUS
<1>4. parts[1] = argument(w, es[1]) /\ parts[2] = argument(w, es[2]) /\ DOMAIN parts = 1..2
      /\ parts = [k \in 1..2 |-> parts[k]]
  OBVIOUS
<1> HIDE DEF es, outcome
<1>5. args # InterpreterException
  BY <1>2, <1>3, ExceptionsAssumption DEF Thrown
<1>6. args = FlattenSeq(parts) /\ \A k \in 1..2 : argument(w, es[k]) # InterpreterException
  BY <1>1, <1>5, ArgumentsFlatten
<1> HIDE DEF args, parts, T
<1>7. parts[1] = One(a) /\ parts[2] = One(b)
  <2>1. 1 \in 1..2 /\ 2 \in 1..2
    OBVIOUS
  <2> QED
    BY <1>1, <1>4, <1>6, <2>1, QuotedArgument
<1> HIDE DEF a, b
<1>8. parts \in Seq(T) /\ Len(parts) = 2
  <2>1. parts[1] \in T /\ parts[2] \in T
    BY <1>3, <1>7, OneFacts DEF T
  <2>2. \A k \in 1..2 : k = 1 \/ k = 2
    OBVIOUS
  <2>3. parts \in [1..2 -> T]
    BY <1>4, <2>1, <2>2
  <2>4. parts \in Seq(T)
    BY <2>3, SeqDef
  <2>5. DOMAIN parts = 1..2 /\ 2 \in Nat
    BY <2>3
  <2> QED
    BY <2>4, <2>5
<1>9. args = One(a) \o One(b)
  BY <1>6, <1>7, <1>8, FlattenTwo DEF T
<1>10. echo(args) = text
  BY <1>3, <1>9, EchoBoth
<1> HIDE DEF text
<1>11. outcome = Done([w EXCEPT !.output = @ \o text], 0)
  BY <1>2, <1>5, <1>10
<1>12. outcome.walker = [[w EXCEPT !.output = @ \o text] EXCEPT !.status = 0]
  BY <1>11 DEF Done
<1>13. /\ outcome.walker.output = w.output \o text /\ outcome.walker.input = w.input
       /\ outcome.walker.vars = w.vars
  BY <1>12 DEF Interpreter
<1> QED
  BY <1>13 DEF WroteBoth, text, a, b, outcome, es

LEMMA OneAndTwo ==
  ASSUME NEW x, NEW y, NEW z
  PROVE  <<x>> \o <<y, z>> = <<x, y, z>>
<1> DEFINE S == {x, y, z}
           s == <<x>>
           t == <<y, z>>
           l == <<x, y, z>>
<1>1. s \in Seq(S) /\ t \in Seq(S) /\ l \in Seq(S)
  OBVIOUS
<1>2. Len(s) = 1 /\ Len(t) = 2 /\ Len(l) = 3 /\ s[1] = x /\ t[1] = y /\ t[2] = z
      /\ l[1] = x /\ l[2] = y /\ l[3] = z
  OBVIOUS
<1> HIDE DEF S, s, t, l
<1>3. s \o t \in Seq(S) /\ Len(s \o t) = 3
      /\ \A i \in 1..3 : (s \o t)[i] = l[i]
  <2>1. \A i \in 1..3 : i = 1 \/ i = 2 \/ i = 3
    OBVIOUS
  <2>2. (s \o t)[1] = x /\ (s \o t)[2] = y /\ (s \o t)[3] = z
    <3>1. /\ Len(s \o t) = Len(s) + Len(t)
          /\ \A i \in 1..(Len(s) + Len(t)) :
                (s \o t)[i] = IF i <= Len(s) THEN s[i] ELSE t[i - Len(s)]
      BY <1>1, ConcatProperties
    <3>2. Len(s) + Len(t) = 3 /\ 1 <= Len(s) /\ ~(2 <= Len(s)) /\ ~(3 <= Len(s))
          /\ 2 - Len(s) = 1 /\ 3 - Len(s) = 2
      BY <1>2
    <3>3. 1 \in 1..3 /\ 2 \in 1..3 /\ 3 \in 1..3
      OBVIOUS
    <3> QED
      BY <1>2, <3>1, <3>2, <3>3
  <2>3. \A i \in 1..3 : (s \o t)[i] = l[i]
    BY <1>2, <2>1, <2>2, Zenon
  <2>4. s \o t \in Seq(S) /\ Len(s \o t) = Len(s) + Len(t)
    BY <1>1, ConcatProperties
  <2>5. Len(s) + Len(t) = 3
    BY <1>2
  <2> QED
    BY <2>3, <2>4, <2>5
<1>4. s \o t = l
  BY <1>1, <1>2, <1>3, SeqEqual, SMTT(30)
<1> QED
  BY <1>4 DEF s, t, l

LEMMA PrintfDoes ==
  ASSUME NEW w \in Interpreter, u(w) = FALSE, NEW names, NEW name,
         resolve(w.vars[names[1]], 0, FALSE) \in Words,
         resolve(w.vars[names[2]], 0, FALSE) \in Words,
         NEW es, es = <<Format>> \o Both(names),
         printf_builtin(w, es, name).thrown = None
  PROVE  WroteBoth(w, printf_builtin(w, es, name).walker, names, <<Space>>)
<1> DEFINE a == resolve(w.vars[names[1]], 0, FALSE)
           b == resolve(w.vars[names[2]], 0, FALSE)
           args == Arguments(w, es)
           output == IF args = InterpreterException THEN args
                     ELSE IF args = <<>> THEN OtherException
                     ELSE printf(args)
           text == WrittenOut(a, b, <<Space>>) \o <<Newline>>
           outcome == printf_builtin(w, es, name)
           parts == [k \in 1..3 |-> argument(w, es[k])]
           T == Seq(Words)
           e1 == Quoted(names[1])
           e2 == Quoted(names[2])
           one == <<TwoWords>>
<1>1. Both(names) = <<e1, e2>>
  BY DEF Both
<1>2. es = <<Format>> \o Both(names)
  OBVIOUS
<1> HIDE DEF e1, e2, a, b
<1>3. es = <<Format, e1, e2>>
  BY <1>1, <1>2, OneAndTwo
<1>4. DOMAIN es = 1..3 /\ es[1] = Format /\ es[2] = e1 /\ es[3] = e2
  <2> DEFINE l == <<Format, e1, e2>>
  <2>1. DOMAIN l = 1..3 /\ l[1] = Format /\ l[2] = e1 /\ l[3] = e2
    OBVIOUS
  <2> HIDE DEF l
  <2>2. es = l
    BY <1>3 DEF l
  <2> QED
    BY <2>1, <2>2, Zenon
<1>5. outcome = IF output \in {InterpreterException, OtherException} THEN Thrown(w, output)
                ELSE IF args[1] = dash_v THEN AssignAll(w, <<name>>, <<output>>, 0)
                ELSE Done([w EXCEPT !.output = @ \o output], 0)
  BY DEF printf_builtin
<1>6. outcome.thrown = None /\ a \in Words /\ b \in Words
  BY DEF a, b
<1>7. /\ \A k \in 1..3 : parts[k] = argument(w, es[k])
      /\ DOMAIN parts = 1..3 /\ parts = [k \in 1..3 |-> parts[k]]
  <2>1. \A k \in 1..3 : parts[k] = argument(w, es[k])
    BY Zenon
  <2>2. DOMAIN parts = 1..3
    BY Zenon
  <2>3. parts = [k \in 1..3 |-> parts[k]]
    BY <2>1, Zenon
  <2> QED
    BY <2>1, <2>2, <2>3, Zenon
<1> HIDE DEF outcome, output
<1>8. output \notin {InterpreterException, OtherException}
  BY <1>5, <1>6, ExceptionsAssumption DEF Thrown
<1>9. args # InterpreterException /\ args # <<>> /\ output = printf(args)
  BY <1>8 DEF output
<1>10. args = FlattenSeq(parts) /\ \A k \in 1..3 : argument(w, es[k]) # InterpreterException
  <2>1. 3 \in Nat
    OBVIOUS
  <2> QED
    BY <1>4, <1>9, <2>1, ArgumentsFlatten
<1> HIDE DEF args, parts, T
<1>11. parts[1] = <<TwoWords>> /\ parts[2] = One(a) /\ parts[3] = One(b)
  <2>1. 1 \in 1..3 /\ 2 \in 1..3 /\ 3 \in 1..3
    OBVIOUS
  <2>2. parts[1] = <<TwoWords>>
    BY <1>4, <1>7, <1>10, <2>1, FormatArgument
  <2>3. parts[2] = One(a)
    <3>1. argument(w, e1) # InterpreterException /\ parts[2] = argument(w, e1)
      BY <1>4, <1>7, <1>10, <2>1, Zenon
    <3>2. argument(w, e1) = One(a)
      BY <3>1, QuotedArgument DEF e1, a
    <3> QED
      BY <3>1, <3>2, Zenon
  <2>4. parts[3] = One(b)
    <3>1. argument(w, e2) # InterpreterException /\ parts[3] = argument(w, e2)
      BY <1>4, <1>7, <1>10, <2>1, Zenon
    <3>2. argument(w, e2) = One(b)
      BY <3>1, QuotedArgument DEF e2, b
    <3> QED
      BY <3>1, <3>2, Zenon
  <2> QED
    BY <2>2, <2>3, <2>4
<1>12. one \in Seq(Words) /\ One(a) \in Seq(Words) /\ One(b) \in Seq(Words)
  BY <1>6, TwoWordsFacts, OneFacts
<1>13. one # dash_v /\ TwoWords # dash_v
  BY DEF TwoWords, dash_v
<1> HIDE DEF one
<1>14. parts \in Seq(T) /\ Len(parts) = 3
  <2>1. parts[1] \in T /\ parts[2] \in T /\ parts[3] \in T
    BY <1>11, <1>12 DEF T, one
  <2>2. \A k \in 1..3 : k = 1 \/ k = 2 \/ k = 3
    OBVIOUS
  <2>3. parts \in [1..3 -> T]
    BY <1>7, <2>1, <2>2
  <2>4. parts \in Seq(T)
    BY <2>3, SeqDef
  <2>5. DOMAIN parts = 1..3 /\ 3 \in Nat
    BY <2>3
  <2> QED
    BY <2>4, <2>5
<1>15. args = (one \o One(a)) \o One(b)
  BY <1>10, <1>11, <1>14, FlattenThree DEF T, one
<1>16. args = one \o (One(a) \o One(b))
  BY <1>12, <1>15, ConcatAssociative, SMTT(30)
<1>17. printf(args) \in {InterpreterException, OtherException, text}
  BY <1>6, <1>16, PrintfBoth DEF one
<1> HIDE DEF text
<1>18. output = text
  BY <1>8, <1>9, <1>17
<1>19. args[1] = TwoWords
  <2> DEFINE rest == One(a) \o One(b)
  <2>1. rest \in Seq(Words)
    BY <1>12, ConcatProperties
  <2> HIDE DEF rest
  <2>2. one \in Seq(Words) /\ Len(one) = 1 /\ one[1] = TwoWords
    BY <1>12 DEF one
  <2>3. (one \o rest)[1] = one[1]
    <3>1. \A i \in 1..(Len(one) + Len(rest)) :
             (one \o rest)[i] = IF i <= Len(one) THEN one[i] ELSE rest[i - Len(one)]
      BY <2>1, <2>2, ConcatProperties
    <3>2. 1 \in 1..(Len(one) + Len(rest)) /\ 1 <= Len(one)
      BY <2>1, <2>2
    <3> QED
      BY <3>1, <3>2
  <2> QED
    BY <1>16, <2>2, <2>3 DEF rest
<1>20. outcome = Done([w EXCEPT !.output = @ \o text], 0)
  BY <1>5, <1>8, <1>13, <1>18, <1>19
<1>21. outcome.walker = [[w EXCEPT !.output = @ \o text] EXCEPT !.status = 0]
  BY <1>20 DEF Done
<1>22. /\ outcome.walker.output = w.output \o text /\ outcome.walker.input = w.input
       /\ outcome.walker.vars = w.vars
  BY <1>21 DEF Interpreter
<1> QED
  BY <1>22 DEF WroteBoth, text, a, b, outcome

\* What is left for a value that is no argument.
Left(c) == IF c.kind = "printf" THEN <<Space>> ELSE Empty

\* Either of them.
LEMMA WritesDoes ==
  ASSUME NEW w \in Interpreter, u(w) = FALSE, NEW names, NEW c, WritesBoth(c, names),
         resolve(w.vars[names[1]], 0, FALSE) \in Words,
         resolve(w.vars[names[2]], 0, FALSE) \in Words,
         c.kind = "echo" => ~ReadsAsOption(resolve(w.vars[names[1]], 0, FALSE)
                                              \o resolve(w.vars[names[2]], 0, FALSE)),
         Execute(w, c).thrown = None
  PROVE  WroteBoth(w, Execute(w, c).walker, names, Left(c))
<1>1. CASE c.kind = "echo"
  <2>1. Execute(w, c) = echo_builtin(w, c.args)
    BY <1>1 DEF Execute
  <2>2. c.args = Both(names)
    BY <1>1 DEF WritesBoth, Both, Quoted
  <2>3. Left(c) = Empty
    BY <1>1 DEF Left
  <2> QED
    BY <1>1, <2>1, <2>2, <2>3, EchoDoes
<1>2. CASE c.kind = "printf"
  <2>1. Execute(w, c) = printf_builtin(w, c.args, c.name)
    BY <1>2 DEF Execute
  <2>2. c.args = <<Format>> \o Both(names)
    BY <1>2 DEF WritesBoth, Both, Quoted, Format, TwoWords
  <2>3. Left(c) = <<Space>>
    BY <1>2 DEF Left
  <2> HIDE DEF WroteBoth
  <2>4. ASSUME NEW es, es = c.args
        PROVE  WroteBoth(w, printf_builtin(w, es, c.name).walker, names, <<Space>>)
    BY <2>1, <2>2, <2>4, PrintfDoes
  <2> QED
    BY <2>1, <2>3, <2>4
<1> QED
  BY <1>1, <1>2 DEF WritesBoth

----------------------------------------------------------------------------
(* Main: its commands from the start of its script.                        *)

\* The script of a job that walks, and its commands.
LEMMA WalkFacts ==
  ASSUME TInv, NEW j \in Jobs, jobs[j].stage \in {"preload", "script"}
  PROVE  /\ script(j) # SyntaxError /\ IsList(script(j)) /\ Len(script(j)) \in Nat
         /\ jobs[j].pc \in 1..(Len(script(j)) + 1)
         /\ jobs[j].walker \in Interpreter
         /\ \A i \in 1..Len(script(j)) : IsCommand(script(j)[i]) /\ script(j)[i] \in ToSet(script(j))
<1> DEFINE r == jobs[j]
           s == script(j)
<1>1. JobIsRight(j, r)
  BY DEF TInv, JobsAreRight
<1>2. Walks(s, r.pc) /\ r.walker \in Interpreter
  BY <1>1 DEF JobIsRight, JobTypes, script
<1> HIDE DEF s
<1>3. s \in Seq(ToSet(s)) /\ \A e \in ToSet(s) : IsCommand(e)
  BY <1>2 DEF Walks, IsScript, IsList
<1>4. \A i \in 1..Len(s) : s[i] \in ToSet(s)
  BY <1>3
<1> QED
  BY <1>2, <1>3, <1>4 DEF Walks, IsScript, s


\* The interpreter of Main when its script begins and nothing is preloaded.
ScriptStart == WithEnvironment(interpreter(input.stdin), Passed(Main), path_word(Main))

\* What is known of Main in state r: its interpreter up to the second command.
MainIs(r) ==
    LET s  == input.files[path(Main)]
        o1 == Execute(ScriptStart, s[1])
        o2 == Execute(o1.walker, s[2])
    IN preloaded = <<>> =>
        /\ r.stage = "preload" => r.walker = interpreter(input.stdin)
        /\ r.stage = "script" /\ r.pc = 1 => r.walker = ScriptStart
        /\ r.stage = "script" /\ r.pc = 2 => o1.thrown = None /\ r.walker = o1.walker
        /\ r.stage = "script" /\ r.pc = 3 =>
              o1.thrown = None /\ o2.thrown = None /\ r.walker = o2.walker

MainIsKnown == MainIs(jobs[Main])

\* A step leaves Main alone, walks on, begins the walk, or is past the walks.
MainMoves ==
    \/ jobs'[Main] = jobs[Main]
    \/ RunCommand(Main)
    \/ EndWalk(Main)
    \/ jobs'[Main] = Started(Main)
    \/ jobs'[Main].stage \notin {"preload", "script"}

\* Only job j changes.
LEMMA BecomesMoves ==
  ASSUME JobsAreRight, NEW j \in Jobs, NEW r, Becomes(j, r)
  PROVE  /\ jobs'[j] = r
         /\ j # Main => jobs'[Main] = jobs[Main]
BY DEF Becomes, JobsAreRight, Jobs

\* No other job moves Main.
LEMMA JobStepMoves ==
  ASSUME TInv, NEW j \in Jobs, JobStep(j)
  PROVE  UNCHANGED input /\ MainMoves
<1> DEFINE done == [jobs[j] EXCEPT !.stage = "done"]
           write == [jobs[j] EXCEPT !.stage = "write", !.pc = 1]
           failed == Failed(jobs[j], OtherException)
           turn == [jobs[j] EXCEPT !.pc = @ + 1]
<1>1. JobsAreRight /\ IsJob(jobs[j])
  BY DEF TInv, JobsAreRight, JobIsRight, JobTypes
<1>2. ASSUME NEW r, Becomes(j, r), j # Main \/ r.stage \notin {"preload", "script"}
      PROVE  MainMoves
  BY <1>1, <1>2, BecomesMoves DEF MainMoves
<1>3. /\ done.stage = "done" /\ write.stage = "write" /\ failed.stage = "thrown"
      /\ turn.stage = jobs[j].stage
  BY <1>1 DEF IsJob, Failed
<1>4. CASE RunCommand(j)
  <2>1. CASE j = Main
    BY <1>4, <2>1 DEF RunCommand, MainMoves
  <2>2. CASE j # Main
    <3>1. PICK r : Becomes(j, r) /\ UNCHANGED input
      BY <1>4 DEF RunCommand
    <3> QED
      BY <1>2, <2>2, <3>1
  <2> QED
    BY <2>1, <2>2
<1>5. CASE EndWalk(j)
  <2>1. CASE j = Main
    BY <1>5, <2>1 DEF EndWalk, MainMoves
  <2>2. CASE j # Main
    <3>1. PICK r : Becomes(j, r) /\ UNCHANGED input
      BY <1>5 DEF EndWalk
    <3> QED
      BY <1>2, <2>2, <3>1
  <2> QED
    BY <2>1, <2>2
<1>6. CASE Open(j)
  <2>1. UNCHANGED input /\ (Becomes(j, write) \/ Becomes(j, done))
    BY <1>6 DEF Open
  <2> HIDE DEF write, done
  <2> QED
    BY <1>2, <1>3, <2>1
<1>7. CASE WriteLine(j)
  <2>1. /\ UNCHANGED input /\ (Becomes(j, failed) \/ Becomes(j, turn))
        /\ jobs[j].stage = "write"
    BY <1>7 DEF WriteLine
  <2> HIDE DEF failed, turn
  <2> QED
    BY <1>2, <1>3, <2>1
<1>8. CASE Close(j)
  <2>1. UNCHANGED input /\ Becomes(j, done)
    BY <1>8 DEF Close
  <2> HIDE DEF done
  <2> QED
    BY <1>2, <1>3, <2>1
<1>9. CASE Catch(j)
  <2>1. UNCHANGED input /\ (UNCHANGED jobs \/ Becomes(j, done))
    BY <1>9 DEF Catch
  <2> HIDE DEF done
  <2>2. CASE UNCHANGED jobs
    BY <2>1, <2>2 DEF MainMoves
  <2> QED
    BY <1>2, <1>3, <2>1, <2>2
<1>10. CASE Terminate(j)
  BY <1>10 DEF Terminate, MainMoves
<1> QED
  BY <1>4, <1>5, <1>6, <1>7, <1>8, <1>9, <1>10 DEF JobStep

LEMMA NextMoves ==
  ASSUME TInv, [Next]_vars
  PROVE  UNCHANGED input /\ MainMoves
<1>1. JobsAreRight /\ Main \in Jobs /\ Main \notin Packages
  BY MainAssumption DEF TInv, Jobs
<1>2. CASE UNCHANGED vars
  BY <1>2 DEF vars, MainMoves
<1>3. CASE StartInstruo \/ Join \/ EndScript \/ StartAstPrinter \/ PrintFile \/ EndAstPrinter
  <2>1. UNCHANGED <<input, jobs>>
    BY <1>3 DEF StartInstruo, Join, EndScript, StartAstPrinter, PrintFile, EndAstPrinter
  <2> QED
    BY <2>1 DEF MainMoves
<1>4. CASE Schedule
  <2> DEFINE id == Head(queue)
             r == [jobs[id] EXCEPT !.stage = "queued"]
  <2>1. /\ input.program = "instruo" /\ queue # <<>>
        /\ jobs' = [jobs EXCEPT ![id].stage = "queued"]
        /\ UNCHANGED input
    BY <1>4 DEF Schedule
  <2>2. queue \in Seq(Packages)
    BY <2>1 DEF TInv, PlacesAreRight
  <2>3. id \in Jobs /\ id # Main
    BY <1>1, <2>1, <2>2 DEF Jobs
  <2> HIDE DEF id
  <2>4. Becomes(id, r)
    BY <2>1, <2>3 DEF Becomes
  <2> HIDE DEF r
  <2> QED
    BY <1>1, <2>1, <2>3, <2>4, BecomesMoves DEF MainMoves
<1>5. CASE StartScript
  <2>1. UNCHANGED input /\ (UNCHANGED jobs \/ Becomes(Main, Started(Main)))
    BY <1>5 DEF StartScript
  <2>2. CASE UNCHANGED jobs
    BY <2>1, <2>2 DEF MainMoves
  <2>3. CASE Becomes(Main, Started(Main))
    BY <1>1, <2>1, <2>3, BecomesMoves DEF MainMoves
  <2> QED
    BY <2>1, <2>2, <2>3
<1>6. ASSUME NEW id \in Packages, StartTask(id) PROVE UNCHANGED input /\ MainMoves
  <2>1. UNCHANGED input /\ Becomes(id, Started(id)) /\ id \in Jobs /\ id # Main
    BY <1>1, <1>6 DEF StartTask, Jobs
  <2> QED
    BY <1>1, <2>1, BecomesMoves DEF MainMoves
<1>7. ASSUME NEW j \in Jobs, JobStep(j) PROVE UNCHANGED input /\ MainMoves
  BY <1>7, JobStepMoves
<1>8. CASE Terminated
  BY <1>8 DEF Terminated, vars, MainMoves
<1> QED
  BY <1>2, <1>3, <1>4, <1>5, <1>6, <1>7, <1>8 DEF Next, MainStep

\* The walk of Main begins.
LEMMA StartedIs ==
  ASSUME preloaded = <<>>
  PROVE  MainIs(Started(Main))
<1> DEFINE r == [NoJob EXCEPT !.stage = "preload", !.pc = 1, !.walker = interpreter(input.stdin),
                              !.variables = Passed(Main)]
           f == Failed(r, InterpreterException)
<1>1. Started(Main) = r \/ Started(Main) = f
  BY DEF Started, Parsed
<1>2. r.stage = "preload" /\ r.walker = interpreter(input.stdin) /\ f.stage = "thrown"
  BY DEF NoJob, Failed
<1> HIDE DEF r, f
<1>3. MainIs(r)
  BY <1>2 DEF MainIs
<1>4. MainIs(f)
  BY <1>2 DEF MainIs
<1> QED
  BY <1>1, <1>3, <1>4

\* The commands of Main.
LEMMA RunCommandIs ==
  ASSUME TInv, MainIsKnown, RunCommand(Main), preloaded = <<>>
  PROVE  MainIs(jobs'[Main])
<1> DEFINE r == jobs[Main]
           s == script(Main)
           outcome == Execute(r.walker, s[r.pc])
           failed == Failed(r, outcome.thrown)
           next == [r EXCEPT !.walker = outcome.walker, !.pc = @ + 1]
           x == jobs'[Main]
<1>1. /\ r.stage \in {"preload", "script"} /\ r.pc <= Len(s)
      /\ Becomes(Main, IF outcome.thrown # None THEN failed ELSE next)
      /\ JobsAreRight /\ Main \in Jobs
  BY DEF RunCommand, TInv, Jobs
<1>2. JobIsRight(Main, r) /\ IsJob(r)
  BY <1>1 DEF JobsAreRight, JobIsRight, JobTypes
<1>3. Len(s) \in Nat /\ r.pc \in 1..(Len(s) + 1)
  BY <1>1, WalkFacts
<1>4. r.stage = "script"
  <2>1. CASE r.stage = "preload"
    <3>1. s = <<>>
      BY <2>1 DEF script
    <3>2. Len(s) = 0
      BY <3>1
    <3> HIDE DEF s, r
    <3> QED
      BY <1>1, <1>3, <3>2
  <2> QED
    BY <1>1, <2>1
<1>5. s = input.files[path(Main)]
  BY <1>4 DEF script
<1>6. x = IF outcome.thrown # None THEN failed ELSE next
  BY <1>1, BecomesMoves
<1>7. failed.stage = "thrown"
  BY <1>2 DEF Failed, IsJob
<1>8. next.stage = "script" /\ next.walker = outcome.walker /\ next.pc = r.pc + 1
  BY <1>2, <1>4 DEF IsJob
<1>9. MainIs(r)
  BY DEF MainIsKnown
<1>10. outcome = Execute(r.walker, s[r.pc])
  OBVIOUS
<1> HIDE DEF r, s, outcome, failed, next, x
<1>11. CASE outcome.thrown # None
  <2>1. x.stage = "thrown"
    BY <1>6, <1>7, <1>11
  <2>2. MainIs(x)
    BY <2>1 DEF MainIs
  <2> QED
    BY <2>2 DEF x
<1>12. CASE outcome.thrown = None
  <2>1. x.stage = "script" /\ x.walker = outcome.walker /\ x.pc = r.pc + 1
    BY <1>6, <1>8, <1>12
  <2>2. r.pc \in Nat /\ r.pc >= 1
    BY <1>3
  <2>3. /\ x.pc # 1
        /\ x.pc = 2 => r.pc = 1
        /\ x.pc = 3 => r.pc = 2
    BY <2>1, <2>2
  <2>4. MainIs(x)
    BY <1>4, <1>5, <1>9, <1>10, <1>12, <2>1, <2>3 DEF MainIs
  <2> QED
    BY <2>4 DEF x
<1> QED
  BY <1>11, <1>12

\* The preloaded script, which is empty, is over, or the script of Main.
LEMMA EndWalkIs ==
  ASSUME TInv, MainIsKnown, EndWalk(Main), preloaded = <<>>
  PROVE  MainIs(jobs'[Main])
<1> DEFINE r == jobs[Main]
           p == [r EXCEPT !.stage = "script", !.pc = 1, !.variables = NoVariables,
                          !.walker = WithEnvironment(r.walker, r.variables, path_word(Main))]
           f == Failed(p, InterpreterException)
           x == jobs'[Main]
<1>1. /\ r.stage \in {"preload", "script"}
      /\ Becomes(Main, IF r.stage = "preload" THEN Prepared(Main) ELSE Collected(Main))
      /\ JobsAreRight /\ Main \in Jobs
  BY DEF EndWalk, TInv, Jobs
<1>2. JobIsRight(Main, r) /\ IsJob(r)
  BY <1>1 DEF JobsAreRight, JobIsRight, JobTypes
<1>3. x = IF r.stage = "preload" THEN Prepared(Main) ELSE Collected(Main)
  BY <1>1, BecomesMoves
<1>4. Collected(Main).stage = "open"
  BY <1>2 DEF Collected, IsJob
<1>5. Prepared(Main) \in {p, f}
  BY DEF Prepared, Parsed
<1>6. /\ p.stage = "script" /\ p.pc = 1 /\ f.stage = "thrown"
      /\ p.walker = WithEnvironment(r.walker, r.variables, path_word(Main))
  BY <1>2 DEF Failed, IsJob
<1>7. r.stage = "preload" => r.variables = Passed(Main) /\ r.walker = interpreter(input.stdin)
  BY <1>2 DEF JobIsRight, MainIsKnown, MainIs
<1> HIDE DEF r, p, f, x
<1>8. CASE r.stage = "preload"
  <2>1. p.walker = ScriptStart
    BY <1>6, <1>7, <1>8 DEF ScriptStart
  <2>2. MainIs(p)
    BY <1>6, <2>1 DEF MainIs
  <2>3. MainIs(f)
    BY <1>6 DEF MainIs
  <2>4. MainIs(x)
    BY <1>3, <1>5, <1>8, <2>2, <2>3
  <2> QED
    BY <2>4 DEF x
<1>9. CASE r.stage # "preload"
  <2>1. x.stage = "open"
    BY <1>3, <1>4, <1>9
  <2>2. MainIs(x)
    BY <2>1 DEF MainIs
  <2> QED
    BY <2>2 DEF x
<1> QED
  BY <1>8, <1>9

LEMMA MainIsStays ==
  ASSUME UNCHANGED input, MainIs(jobs'[Main])
  PROVE  MainIsKnown'
<1>1. MainIs(jobs[Main])'
  BY DEF MainIs, ScriptStart, preloaded, Passed
<1> QED
  BY <1>1 DEF MainIsKnown

LEMMA NextIsKnown ==
  ASSUME TInv, MainIsKnown, [Next]_vars
  PROVE  MainIsKnown'
<1>1. UNCHANGED input /\ MainMoves
  BY NextMoves
<1>2. CASE preloaded # <<>>
  <2>1. MainIs(jobs'[Main])
    BY <1>2 DEF MainIs
  <2> QED
    BY <1>1, <2>1, MainIsStays
<1>3. CASE preloaded = <<>>
  <2>1. CASE jobs'[Main] = jobs[Main]
    BY <2>1, <1>1, MainIsStays DEF MainIsKnown
  <2>2. CASE jobs'[Main].stage \notin {"preload", "script"}
    <3>1. MainIs(jobs'[Main])
      BY <2>2 DEF MainIs
    <3> QED
      BY <1>1, <3>1, MainIsStays
  <2>3. CASE RunCommand(Main)
    BY <1>1, <1>3, <2>3, RunCommandIs, MainIsStays
  <2>4. CASE EndWalk(Main)
    BY <1>1, <1>3, <2>4, EndWalkIs, MainIsStays
  <2>5. CASE jobs'[Main] = Started(Main)
    BY <1>1, <1>3, <2>5, StartedIs, MainIsStays
  <2> QED
    BY <1>1, <2>1, <2>2, <2>3, <2>4, <2>5 DEF MainMoves
<1> QED
  BY <1>2, <1>3

\* echo leaves the variables alone.
LEMMA EchoLeaves ==
  ASSUME NEW w \in Interpreter, NEW c, c.kind = "echo"
  PROVE  Execute(w, c).walker.vars = w.vars
<1> DEFINE args == Arguments(w, c.args)
           text == echo(args)
           o == echo_builtin(w, c.args)
<1>1. Execute(w, c) = o
  BY DEF Execute
<1>2. o = IF args = InterpreterException THEN Thrown(w, args)
          ELSE Done([w EXCEPT !.output = @ \o text], 0)
  BY DEF echo_builtin
<1> HIDE DEF args, text, o
<1>3. Done([w EXCEPT !.output = @ \o text], 0).walker
        = [[w EXCEPT !.output = @ \o text] EXCEPT !.status = 0]
  BY DEF Done
<1>4. Done([w EXCEPT !.output = @ \o text], 0).walker.vars = w.vars
  BY <1>3 DEF Interpreter
<1>5. Thrown(w, args).walker.vars = w.vars
  BY DEF Thrown
<1> QED
  BY <1>1, <1>2, <1>4, <1>5

\* The script begins with the input of the program and the options of the constructor.
LEMMA ScriptStartFacts ==
  ASSUME TInv, Main \in JobsOf(input.program)
  PROVE  /\ ScriptStart \in Interpreter /\ u(ScriptStart) = FALSE
         /\ ScriptStart.input = input.stdin /\ ScriptStart.output = <<>>
         /\ input.stdin \in Seq(Seq(Nat))
<1> DEFINE w == interpreter(input.stdin)
           target == path_word(Main)
<1>1. Main \in Jobs /\ input.stdin \in Seq(Seq(Nat))
  BY InputOfJob DEF Jobs
<1>2. w \in Interpreter /\ target \in Words
  BY <1>1, InterpreterType, PathWordType
<1>3. w.input = input.stdin /\ w.output = Empty /\ w.options = OptionDefaults
  BY DEF interpreter
<1> HIDE DEF w, target
<1>4. WithEnvironment(w, Passed(Main), target) \in Interpreter
  BY <1>1, <1>2, WithEnvironmentType
<1>5. SameStreams(WithEnvironment(w, Passed(Main), target), w)
  BY <1>2 DEF WithEnvironment, Interpreter, SameStreams
<1>6. Letter_u \notin OptionDefaults
  BY DEF Letter_u, OptionDefaults
<1>7. Empty = <<>>
  BY WordsAreCodes
<1> QED
  BY <1>1, <1>3, <1>4, <1>5, <1>6, <1>7 DEF ScriptStart, w, target, SameStreams, u

\* Two commands of Main are executed.
LEMMA TwoExecuted ==
  ASSUME TInv, MainIsKnown, preloaded = <<>>, Len(Executed) = 2
  PROVE  LET o1 == Execute(ScriptStart, Executed[1])
             o2 == Execute(o1.walker, Executed[2])
         IN /\ IsCommand(Executed[1]) /\ IsCommand(Executed[2])
            /\ o1.thrown = None /\ o2.thrown = None
            /\ walker = o2.walker
            /\ Main \in JobsOf(input.program)
<1> DEFINE r == jobs[Main]
           s == script(Main)
           n == r.pc - 1
<1>1. Executed # <<>>
  <2>1. Len(<<>>) = 0
    OBVIOUS
  <2> HIDE DEF Executed
  <2> QED
    BY <2>1
<1>2. r.stage = "script" /\ Executed = SubSeq(s, 1, n)
  BY <1>1 DEF Executed
<1>3. Main \in Jobs
  BY DEF Jobs
<1>4. JobIsRight(Main, r) /\ s = input.files[path(Main)]
  BY <1>2, <1>3 DEF TInv, JobsAreRight, script
<1>5. Main \in JobsOf(input.program) /\ MainIs(r)
  BY <1>2, <1>4 DEF JobIsRight, MainIsKnown
<1>6. /\ IsList(s) /\ Len(s) \in Nat /\ r.pc \in 1..(Len(s) + 1)
      /\ \A i \in 1..Len(s) : IsCommand(s[i]) /\ s[i] \in ToSet(s)
  BY <1>2, <1>3, WalkFacts
<1>7. walker = r.walker
  BY DEF walker
<1> HIDE DEF r, s
<1>8. n \in 0..Len(s) /\ n \in Int /\ r.pc = n + 1
  BY <1>6
<1> HIDE DEF n
<1>9. s \in Seq(ToSet(s))
  BY <1>6 DEF IsList
<1>10. /\ Len(SubSeq(s, 1, n)) = IF 1 <= n THEN n - 1 + 1 ELSE 0
       /\ \A i \in 1..(n - 1 + 1) : SubSeq(s, 1, n)[i] = s[1 + i - 1]
  <2>1. \A i \in 1..n : s[i] \in ToSet(s)
    BY <1>6, <1>8
  <2> QED
    BY <1>8, <2>1, SubSeqProperties
<1>11. n = 2
  BY <1>2, <1>8, <1>10
<1>12. Executed[1] = s[1] /\ Executed[2] = s[2]
  <2>1. 1 \in 1..(n - 1 + 1) /\ 2 \in 1..(n - 1 + 1) /\ 1 + 1 - 1 = 1 /\ 1 + 2 - 1 = 2
    BY <1>11
  <2> QED
    BY <1>2, <1>10, <2>1
<1>13. 1 \in 1..Len(s) /\ 2 \in 1..Len(s) /\ r.pc = 3
  BY <1>6, <1>8, <1>11
<1> QED
  BY <1>2, <1>4, <1>5, <1>6, <1>7, <1>12, <1>13 DEF MainIs

\* What the property asks of the input is what LinesJoin needs.
LEMMA NothingIsLost ==
  ASSUME NEW lines \in Seq(Seq(Nat)), lines # <<>>,
         \A k \in DOMAIN lines : ~Continued(Unescaped(lines[k])),
         ~\E k \in 1..Min({TakenLines(lines), Len(lines)}) :
              /\ \A i \in 1..k : Unescaped(lines[i]) = Empty
              /\ Continued(lines[k])
  PROVE  IsJoinable(lines)
<1> DEFINE t == TakenLines(lines)
           n == Len(lines)
           m == Min({t, n})
<1>1. t \in 1..n /\ n \in Nat
  BY TakenFacts
<1> HIDE DEF t, n
<1>2. {t, n} \subseteq Nat /\ {t, n} # {} /\ t \in {t, n}
  BY <1>1
<1>3. m \in {t, n} /\ m <= t
  BY <1>2, MinFacts
<1>4. m = t
  BY <1>1, <1>3
<1>5. ASSUME NEW k \in 1..t, Continued(lines[k]) PROVE \E i \in 1..k : Unescaped(lines[i]) # Empty
  <2>1. k \in 1..m
    BY <1>4
  <2> QED
    BY <1>5, <2>1 DEF m, t, n
<1> QED
  BY <1>5, WordsAreCodes DEF IsJoinable, t

\* read followed by echo or printf.
LEMMA KnownIsEchoed ==
  ASSUME TInv, MainIsKnown
  PROVE  ReadIsEchoed
<1> DEFINE lines == input.stdin
           c == Executed[1]
           d == Executed[2]
           names == c.names
           w == ScriptStart
           o1 == Execute(w, c)
           o2 == Execute(o1.walker, d)
           taken == JoinedLines(lines)
           text == transform_escapes(taken, FALSE).text
           first == FirstSpace(text)
           words == UpTo(text, first) \o From(text, first + 1)
           a == resolve(o1.walker.vars[names[1]], 0, FALSE)
           b == resolve(o1.walker.vars[names[2]], 0, FALSE)
<1> SUFFICES ASSUME Len(Executed) = 2, preloaded = <<>>, c.kind = "read",
                    Len(names) = 2, names[1] # names[2], WritesBoth(d, names),
                    lines # <<>>, taken # Empty,
                    ~\E k \in 1..Min({TakenLines(lines), Len(lines)}) :
                         /\ \A i \in 1..k : Unescaped(lines[i]) = Empty
                         /\ Continued(lines[k]),
                    \A k \in DOMAIN lines : ~Continued(Unescaped(lines[k])),
                    d.kind = "echo" => ~ReadsAsOption(words)
             PROVE  /\ walker.output = (IF first \in 2..(Len(text) - 1) THEN text
                                        ELSE words \o Left(d)) \o <<Newline>>
                    /\ walker.input = SubSeq(lines, TakenLines(lines) + 1, Len(lines))
  BY DEF ReadIsEchoed, Left
<1>1. /\ IsCommand(c) /\ IsCommand(d) /\ o1.thrown = None /\ o2.thrown = None
      /\ walker = o2.walker /\ Main \in JobsOf(input.program)
  BY TwoExecuted
<1>2. /\ w \in Interpreter /\ u(w) = FALSE /\ w.input = lines /\ w.output = <<>>
      /\ lines \in Seq(Seq(Nat))
  BY <1>1, ScriptStartFacts
<1>3. IsJoinable(lines)
  BY <1>2, NothingIsLost
<1>4. names \in Seq(Names)
  BY <1>1, Zenon DEF IsCommand
<1>5. o1 = read_builtin(w, names)
  BY DEF Execute
<1> HIDE DEF o1, w, c, d, lines
<1>6. ReadBoth(w, o1.walker, names)
  BY <1>1, <1>2, <1>3, <1>4, <1>5, ReadDoes
<1>7. /\ o1.walker \in Interpreter /\ u(o1.walker) = FALSE /\ o1.walker.output = <<>>
      /\ o1.walker.input = SubSeq(lines, TakenLines(lines) + 1, Len(lines))
      /\ a \in Words /\ b \in Words
      /\ IsCut(text, a, b)
  BY <1>2, <1>6, ZenonT(40) DEF ReadBoth, u
<1> HIDE DEF text
<1>8. /\ a \o b = words
      /\ (a # Empty /\ b # Empty) <=> first \in 2..(Len(text) - 1)
      /\ (a # Empty /\ b # Empty) => Spaced(a, b) = text
  BY <1>7, Zenon DEF IsCut
<1> HIDE DEF words, first
<1>9. WroteBoth(o1.walker, o2.walker, names, Left(d))
  <2>1. d.kind = "echo" => ~ReadsAsOption(a \o b)
    BY <1>8
  <2> QED
    BY <1>1, <1>7, <2>1, WritesDoes, ZenonT(40)
<1> DEFINE left == Left(d)
<1> HIDE DEF a, b, o2, left
<1>10. /\ walker.output = <<>> \o (WrittenOut(a, b, left) \o <<Newline>>)
       /\ walker.input = SubSeq(lines, TakenLines(lines) + 1, Len(lines))
  BY <1>1, <1>7, <1>9, ZenonT(40) DEF WroteBoth, a, b, left
<1>11. WrittenOut(a, b, left) = IF first \in 2..(Len(text) - 1) THEN text ELSE words \o left
  BY <1>8, Zenon DEF WrittenOut
<1>12. <<>> \o (WrittenOut(a, b, left) \o <<Newline>>) = WrittenOut(a, b, left) \o <<Newline>>
  <2> DEFINE l == WrittenOut(a, b, left)
             x == l \o <<Newline>>
  <2>1. left \in Words
    BY SpacedType, WordFacts DEF left, Left
  <2>2. l \in Words
    <3>1. Spaced(a, b) \in Words /\ (a \o b) \o left \in Words
      BY <1>7, <2>1, SpacedType, WordFacts
    <3> QED
      BY <3>1 DEF WrittenOut
  <2> HIDE DEF l
  <2>3. x \in Seq(Nat)
    BY <2>2, WordsAreCodes DEF Newline
  <2> HIDE DEF x
  <2>4. <<>> \o x = x
    BY <2>3, ConcatEmptySeq
  <2> QED
    BY <2>4 DEF x, l
<1> QED
  BY <1>10, <1>11, <1>12, SMTT(30) DEF left

\* What read gives to two variables is written back by echo and printf, for any
\* input of which it loses no line, any names and any program that preloads
\* nothing: the whole logical line when its first space is between two words, and
\* otherwise all of it but that space, which printf writes behind it.
THEOREM ReadsAreEchoed == Spec => []ReadIsEchoed
<1> DEFINE Inv == (TInv /\ QueueIsFresh) /\ MainIsKnown
<1>1. Init => MainIsKnown
  <2> SUFFICES ASSUME Init PROVE MainIsKnown
    OBVIOUS
  <2>1. jobs[Main] = NoJob
    BY DEF Init, Jobs
  <2> QED
    BY <2>1 DEF MainIsKnown, MainIs, NoJob
<1>2. Init => Inv
  BY <1>1, InitTypes, InitIsFresh
<1>3. Inv /\ [Next]_vars => Inv'
  <2> SUFFICES ASSUME Inv, [Next]_vars PROVE Inv'
    OBVIOUS
  <2>1. (TInv /\ QueueIsFresh)'
    BY CommandDoes, NextIsRight
  <2>2. MainIsKnown'
    BY NextIsKnown
  <2> QED
    BY <2>1, <2>2
<1>4. Inv => ReadIsEchoed
  BY KnownIsEchoed
<1> HIDE DEF Inv
<1> QED
  BY <1>2, <1>3, <1>4, PTL DEF Spec
=============================================================================
