--------------------------- MODULE ProgramsProofs ---------------------------
(* Proofs about Programs, for any packages, team, scripts and command      *)
(* lines: a program that ends with success has done its work.  What a      *)
(* command does to its interpreter plays no part, so no definition of the  *)
(* modules below Programs is expanded but those of ast_printer.            *)
EXTENDS Programs, SequenceTheorems, TLAPS

----------------------------------------------------------------------------
(* Lists.                                                                  *)

\* A sequence is one of the elements that it has.
LEMMA SequencesAreLists ==
  ASSUME NEW S, NEW s \in Seq(S)
  PROVE  IsList(s)
<1>1. s = [i \in 1..Len(s) |-> s[i]] /\ Len(s) \in Nat
  OBVIOUS
<1>2. \A i \in 1..Len(s) : s[i] \in ToSet(s)
  BY DEF ToSet
<1> QED
  BY <1>1, <1>2 DEF IsList

LEMMA EmptyIsList == IsList(<<>>) /\ Len(<<>>) = 0
<1>1. <<>> \in Seq({})
  OBVIOUS
<1>2. IsList(<<>>)
  BY <1>1, SequencesAreLists
<1> QED
  BY <1>2

LEMMA AppendIsList ==
  ASSUME NEW s, IsList(s), NEW e
  PROVE  IsList(Append(s, e)) /\ Len(Append(s, e)) = Len(s) + 1
<1> DEFINE S == ToSet(s) \cup {e}
<1>1. s \in Seq(ToSet(s))
  BY DEF IsList
<1>2. s \in Seq(S)
  BY <1>1
<1>3. Append(s, e) \in Seq(S) /\ Len(Append(s, e)) = Len(s) + 1
  BY <1>2
<1> QED
  BY <1>3, SequencesAreLists

\* Concatenation, by a name that the provers leave alone.
Joined(s, t) == s \o t

\* Concatenation keeps the elements of both lists.
LEMMA JoinedIsList ==
  ASSUME NEW s, IsList(s), NEW t, IsList(t), NEW joint, joint = Joined(s, t)
  PROVE  /\ IsList(joint)
         /\ \A k \in DOMAIN s : k \in DOMAIN joint /\ joint[k] = s[k]
         /\ \A k \in DOMAIN t : \E i \in DOMAIN joint : joint[i] = t[k]
<1> DEFINE S == ToSet(s) \cup ToSet(t)
<1>1. s \in Seq(ToSet(s)) /\ t \in Seq(ToSet(t))
  BY DEF IsList
<1>2. s \in Seq(S) /\ t \in Seq(S)
  BY <1>1
<1> HIDE DEF S
<1>3. joint \in Seq(S) /\ Len(joint) = Len(s) + Len(t)
  BY <1>2 DEF Joined
<1>4. \A k \in 1..Len(s) : joint[k] = s[k]
  BY <1>2 DEF Joined
<1>5. \A k \in 1..Len(t) : joint[Len(s) + k] = t[k]
  BY <1>2 DEF Joined
<1>6. ASSUME NEW k \in DOMAIN t PROVE \E i \in DOMAIN joint : joint[i] = t[k]
  <2>1. k \in 1..Len(t) /\ Len(s) + k \in 1..(Len(s) + Len(t))
    BY <1>2
  <2>2. Len(s) + k \in DOMAIN joint
    BY <1>3, <2>1
  <2> QED
    BY <1>5, <2>1, <2>2
<1>7. \A k \in DOMAIN s : k \in DOMAIN joint /\ joint[k] = s[k]
  BY <1>2, <1>3, <1>4
<1> QED
  BY <1>3, <1>6, <1>7, SequencesAreLists

\* What is in a list is its head or in its tail.
LEMMA HeadOrTail ==
  ASSUME NEW s, IsList(s), s # <<>>
  PROVE  /\ IsList(Tail(s))
         /\ Head(s) \in ToSet(s)
         /\ \A e \in ToSet(s) : e = Head(s) \/ e \in ToSet(Tail(s))
<1>1. s \in Seq(ToSet(s))
  BY DEF IsList
<1>2. Head(s) = s[1] /\ Len(s) \in Nat /\ 1 \in 1..Len(s)
  BY <1>1
<1>3. Head(s) \in ToSet(s)
  BY <1>1, <1>2 DEF ToSet
<1>4. Tail(s) \in Seq(ToSet(s)) /\ Len(Tail(s)) = Len(s) - 1
  BY <1>1
<1>5. IsList(Tail(s))
  BY <1>4, SequencesAreLists
<1>6. ASSUME NEW e \in ToSet(s), e # Head(s) PROVE e \in ToSet(Tail(s))
  <2>1. PICK i \in 1..Len(s) : e = s[i]
    BY <1>1 DEF ToSet
  <2>2. i # 1
    BY <1>2, <1>6, <2>1
  <2>3. i - 1 \in 1..Len(Tail(s)) /\ Tail(s)[i - 1] = s[i]
    BY <1>1, <1>2, <1>4, <2>2
  <2>4. DOMAIN Tail(s) = 1..Len(Tail(s))
    BY <1>4
  <2> QED
    BY <2>1, <2>3, <2>4 DEF ToSet
<1> QED
  BY <1>3, <1>5, <1>6

----------------------------------------------------------------------------
(* The invariant.                                                          *)

IsJob(r) == DOMAIN r = {"stage", "pc", "walker", "variables", "functions", "thrown"}

\* The input is one of those given; jobs and files keep their fields; only tasks
\* of instruo report.
Shape ==
    /\ input \in Inputs
    /\ DOMAIN jobs = Jobs
    /\ \A j \in Jobs : IsJob(jobs[j])
    /\ DOMAIN caches = Outputs
    /\ \A p \in Outputs : DOMAIN caches[p] = {"state", "lines"}
    /\ input.program # "instruo" => reports = {}
    /\ exit = "starting" => printed = <<>>

\* While instruo runs, a package has its task or is still to get one.
NoneIsLost ==
    (exit = "running" /\ input.program = "instruo") =>
        /\ IsList(queue)
        /\ \A id \in ToSet(input.ids) : id \in ToSet(queue) \/ jobs[id].stage # "none"

\* Job j writes one line after the other, and leaves a complete file or a report.
LinesInOrder(j) ==
    (input.program \in {"instruo", "metadata_generator"} /\ Written(j)) =>
        LET r    == jobs[j]
            file == caches[output_path(j)]
        IN /\ r.stage = "write" =>
                 /\ file.state = "new"
                 /\ IsList(file.lines)
                 /\ r.pc \in Nat
                 /\ r.pc <= LinesOfCache + 1
                 /\ Len(file.lines) = r.pc - 1
           /\ r.stage = "done" => j \in reports \/ Complete(file)

Printed(script_) == \E k \in DOMAIN printed : printed[k].script = script_

\* While ast_printer runs, a script is printed or is still to be.
NoneIsSkipped ==
    (exit = "running" /\ input.program = "ast_printer") =>
        /\ IsList(queue)
        /\ IsList(printed)
        /\ "silent" \notin input.options =>
              \A s \in ToSet(Scripts(input.options, input.scripts)) :
                  s \in ToSet(queue) \/ Printed(s)

IInv ==
    /\ Shape
    /\ NoneIsLost
    /\ \A j \in Jobs : LinesInOrder(j)
    /\ NoneIsSkipped
    /\ SuccessMeansAnswered

----------------------------------------------------------------------------
(* The steps.                                                              *)

LEMMA IdsArePackages ==
  ASSUME Shape, input.program = "instruo"
  PROVE  IsList(input.ids) /\ ToSet(input.ids) \subseteq Packages
<1>1. input.ids \in Seq(Packages)
  BY InputsAssumption DEF Shape
<1>2. \A k \in DOMAIN input.ids : input.ids[k] \in Packages
  BY <1>1
<1> QED
  BY <1>1, <1>2, SequencesAreLists DEF ToSet

LEMMA InitInvariant ==
  ASSUME Init
  PROVE  IInv
<1>1. \A j \in Jobs : jobs[j].stage = "none"
  BY DEF Init, NoJob
<1>2. Shape
  BY DEF Init, Shape, NoJob, IsJob, EmptyFile
<1>3. \A j \in Jobs : LinesInOrder(j)
  BY <1>1 DEF LinesInOrder
<1> QED
  BY <1>2, <1>3 DEF Init, IInv, NoneIsLost, NoneIsSkipped, SuccessMeansAnswered

\* A step of job j that leaves the files alone and does not end the job's writing.
LEMMA JobMoves ==
  ASSUME IInv, NEW j \in Jobs, NEW r, IsJob(r), Becomes(j, r),
         exit = "running" \/ input.program \in ScriptPrograms, exit' = "running",
         r.stage \notin {"none", "write", "done"},
         UNCHANGED <<input, queue, caches, reports, printed>>
  PROVE  IInv'
<1>1. DOMAIN jobs = Jobs
  BY DEF IInv, Shape
<1>2. /\ DOMAIN jobs' = Jobs
      /\ jobs'[j] = r
      /\ \A i \in Jobs \ {j} : jobs'[i] = jobs[i]
  BY <1>1 DEF Becomes
<1>3. Shape'
  BY <1>2 DEF IInv, Shape
<1>4. ASSUME NEW i \in Jobs PROVE LinesInOrder(i)'
  <2>1. CASE i = j
    BY <1>2, <2>1 DEF LinesInOrder
  <2>2. CASE i # j
    <3>1. jobs'[i] = jobs[i] /\ LinesInOrder(i)
      BY <1>2, <2>2 DEF IInv
    <3> QED
      BY <3>1 DEF LinesInOrder, Written, Complete
  <2> QED
    BY <2>1, <2>2
<1>5. NoneIsLost'
  BY <1>2, IdsArePackages DEF IInv, NoneIsLost, Jobs, ScriptPrograms
<1>6. NoneIsSkipped'
  BY DEF IInv, NoneIsSkipped, Printed, ScriptPrograms
<1>7. SuccessMeansAnswered'
  BY DEF SuccessMeansAnswered
<1> QED
  BY <1>3, <1>4, <1>5, <1>6, <1>7 DEF IInv

\* A script is walked.
LEMMA WalkKeeps ==
  ASSUME IInv, NEW j \in Jobs, exit = "running", exit' = exit, RunCommand(j) \/ EndWalk(j)
  PROVE  IInv'
<1>1. IsJob(jobs[j])
  BY DEF IInv, Shape
<1>2. jobs[j].stage \in {"preload", "script"}
  BY DEF RunCommand, EndWalk
<1>3. ASSUME NEW r, IsJob(r), Becomes(j, r), r.stage \notin {"none", "write", "done"}
      PROVE  IInv'
  BY <1>3, JobMoves DEF RunCommand, EndWalk
<1>4. CASE RunCommand(j)
  <2>1. PICK outcome : Becomes(j, IF outcome.thrown # None THEN Failed(jobs[j], outcome.thrown)
                                  ELSE [jobs[j] EXCEPT !.walker = outcome.walker, !.pc = @ + 1])
    BY <1>4 DEF RunCommand
  <2> DEFINE r1 == Failed(jobs[j], outcome.thrown)
             r2 == [jobs[j] EXCEPT !.walker = outcome.walker, !.pc = @ + 1]
  <2>2. IsJob(r1) /\ r1.stage = "thrown"
    BY <1>1 DEF Failed, IsJob
  <2>3. IsJob(r2) /\ r2.stage = jobs[j].stage
    BY <1>1 DEF IsJob
  <2>4. Becomes(j, r1) \/ Becomes(j, r2)
    BY <2>1
  <2> HIDE DEF r1, r2
  <2> QED
    BY <1>2, <1>3, <2>2, <2>3, <2>4
<1>5. CASE EndWalk(j)
  <2>1. Becomes(j, Prepared(j)) \/ Becomes(j, Collected(j))
    BY <1>5 DEF EndWalk
  <2>2. IsJob(Prepared(j)) /\ Prepared(j).stage \in {"script", "thrown"}
    BY <1>1 DEF Prepared, Parsed, Failed, IsJob
  <2>3. IsJob(Collected(j)) /\ Collected(j).stage = "open"
    BY <1>1 DEF Collected, IsJob
  <2> QED
    BY <1>3, <2>1, <2>2, <2>3
<1> QED
  BY <1>4, <1>5

\* What all steps of the callers have in common: job j, its file and the reports
\* change, and the program goes on.  Job j has to come out right.
LEMMA CallerMoves ==
  ASSUME IInv, NEW j \in Jobs, NEW r, IsJob(r), Becomes(j, r),
         exit = "running", exit' = "running",
         UNCHANGED <<input, queue, printed>>,
         r.stage # "none",
         DOMAIN caches' = Outputs,
         \A p \in Outputs : DOMAIN caches'[p] = {"state", "lines"},
         \A p \in Outputs \ {output_path(j)} : caches'[p] = caches[p],
         reports \subseteq reports',
         input.program # "instruo" => reports' = {},
         LinesInOrder(j)'
  PROVE  IInv'
<1>1. DOMAIN jobs = Jobs
  BY DEF IInv, Shape
<1>2. /\ DOMAIN jobs' = Jobs
      /\ jobs'[j] = r
      /\ \A i \in Jobs \ {j} : jobs'[i] = jobs[i]
  BY <1>1 DEF Becomes
<1>3. Shape'
  BY <1>2 DEF IInv, Shape
<1>4. ASSUME NEW i \in Jobs, i # j PROVE LinesInOrder(i)'
  <2>1. output_path(i) \in Outputs /\ output_path(i) # output_path(j)
    BY <1>4, OutputsAssumption DEF Outputs
  <2>2. caches'[output_path(i)] = caches[output_path(i)]
    BY <2>1
  <2>3. jobs'[i] = jobs[i] /\ LinesInOrder(i)
    BY <1>2, <1>4 DEF IInv
  <2> QED
    BY <2>2, <2>3 DEF LinesInOrder, Written, Complete
<1>5. NoneIsLost'
  BY <1>2, IdsArePackages DEF IInv, NoneIsLost, Jobs
<1>6. NoneIsSkipped'
  BY DEF IInv, NoneIsSkipped, Printed
<1>7. SuccessMeansAnswered'
  BY DEF SuccessMeansAnswered
<1> QED
  BY <1>3, <1>4, <1>5, <1>6, <1>7 DEF IInv

LEMMA LinesOfCacheIsNat == LinesOfCache \in Nat
<1>1. Len(metadata_names) \in Nat
  BY MetadataNamesAssumption
<1> QED
  BY <1>1 DEF LinesOfCache

LEMMA OpenKeeps ==
  ASSUME IInv, NEW j \in Jobs, exit = "running", Open(j)
  PROVE  IInv'
<1> DEFINE r == IF input.program \in {"instruo", "metadata_generator"}
                THEN [jobs[j] EXCEPT !.stage = "write", !.pc = 1]
                ELSE [jobs[j] EXCEPT !.stage = "done"]
<1>1. IsJob(jobs[j]) /\ DOMAIN caches = Outputs /\ output_path(j) \in Outputs
  BY DEF IInv, Shape, Outputs
<1>2. IsJob(r) /\ r.stage \in {"write", "done"} /\ (r.stage = "write" => r.pc = 1)
  BY <1>1 DEF IsJob
<1>3. Becomes(j, r) /\ jobs'[j] = r
  <2>1. Becomes(j, r)
    BY DEF Open
  <2> QED
    BY <2>1 DEF Becomes, IInv, Shape
<1>4. \/ caches' = caches
      \/ caches' = [caches EXCEPT ![output_path(j)] = EmptyFile("new")]
  BY DEF Open
<1>5. /\ DOMAIN caches' = Outputs
      /\ \A p \in Outputs : DOMAIN caches'[p] = {"state", "lines"}
      /\ \A p \in Outputs \ {output_path(j)} : caches'[p] = caches[p]
  <2>1. DOMAIN EmptyFile("new") = {"state", "lines"}
    BY DEF EmptyFile
  <2> QED
    BY <1>1, <1>4, <2>1 DEF IInv, Shape
<1>6. LinesInOrder(j)'
  <2> SUFFICES ASSUME input'.program \in {"instruo", "metadata_generator"}, Written(j)'
               PROVE  LinesInOrder(j)'
    BY DEF LinesInOrder
  <2>1. input' = input
    BY DEF Open
  <2>2. caches'[output_path(j)] = EmptyFile("new")
    BY <1>1, <2>1 DEF Open, Written
  <2>3. IsList(<<>>) /\ Len(<<>>) = 0
    BY EmptyIsList
  <2>4. r.stage = "write"
    BY <1>1, <2>1 DEF IsJob
  <2> HIDE DEF r
  <2>5. r.pc = 1
    BY <1>2, <2>4
  <2> QED
    BY <1>3, <2>2, <2>3, <2>4, <2>5, LinesOfCacheIsNat DEF LinesInOrder, EmptyFile
<1> HIDE DEF r
<1>7. r.stage # "none"
  BY <1>2
<1>8. UNCHANGED <<input, exit, queue, reports, printed>>
  BY DEF Open
<1>9. input.program # "instruo" => reports' = {}
  BY <1>8 DEF IInv, Shape
<1> QED
  BY <1>2, <1>3, <1>5, <1>6, <1>7, <1>8, <1>9, CallerMoves

LEMMA WriteLineKeeps ==
  ASSUME IInv, NEW j \in Jobs, exit = "running", WriteLine(j)
  PROVE  IInv'
<1>1. IsJob(jobs[j]) /\ DOMAIN caches = Outputs /\ output_path(j) \in Outputs
  BY DEF IInv, Shape, Outputs
<1>2. UNCHANGED <<input, exit, queue, reports, printed>>
  BY DEF WriteLine
<1>3. CASE EndsAt(jobs[j].variables, jobs[j].pc)
  <2>1. Becomes(j, Failed(jobs[j], OtherException)) /\ caches' = caches
    BY <1>3 DEF WriteLine
  <2>2. IsJob(Failed(jobs[j], OtherException)) /\ Failed(jobs[j], OtherException).stage = "thrown"
    BY <1>1 DEF Failed, IsJob
  <2> QED
    BY <1>2, <2>1, <2>2, JobMoves
<1>4. CASE ~EndsAt(jobs[j].variables, jobs[j].pc)
  <2> DEFINE r    == [jobs[j] EXCEPT !.pc = @ + 1]
             line == write_metadata(jobs[j].variables, jobs[j].functions)[jobs[j].pc]
             file == caches[output_path(j)]
  <2>1. Becomes(j, r)
    BY <1>4 DEF WriteLine
  <2>2. IsJob(r) /\ r.stage = "write" /\ r.pc = jobs[j].pc + 1
    BY <1>1 DEF IsJob, WriteLine
  <2>3. caches' = IF ~Written(j) THEN caches
                  ELSE [caches EXCEPT ![output_path(j)].lines = Append(@, line)]
    BY <1>4 DEF WriteLine
  <2>4. jobs'[j] = r
    BY <2>1 DEF Becomes, IInv, Shape
  <2>5. DOMAIN file = {"state", "lines"}
    BY <1>1 DEF IInv, Shape
  <2>6. Written(j) => /\ DOMAIN caches'[output_path(j)] = {"state", "lines"}
                      /\ caches'[output_path(j)].state = file.state
                      /\ caches'[output_path(j)].lines = Append(file.lines, line)
    BY <1>1, <2>3, <2>5
  <2>7. /\ DOMAIN caches' = Outputs
        /\ \A p \in Outputs : DOMAIN caches'[p] = {"state", "lines"}
        /\ \A p \in Outputs \ {output_path(j)} : caches'[p] = caches[p]
    BY <1>1, <2>3, <2>6 DEF IInv, Shape
  <2>8. LinesInOrder(j)'
    <3> SUFFICES ASSUME input'.program \in {"instruo", "metadata_generator"}, Written(j)'
                 PROVE  LinesInOrder(j)'
      BY DEF LinesInOrder
    <3>1. Written(j) /\ input.program \in {"instruo", "metadata_generator"}
      BY <1>2 DEF Written
    <3>2. /\ file.state = "new"
          /\ IsList(file.lines)
          /\ jobs[j].pc \in Nat
          /\ Len(file.lines) = jobs[j].pc - 1
          /\ jobs[j].pc <= LinesOfCache
      BY <3>1 DEF IInv, LinesInOrder, WriteLine
    <3>3. /\ IsList(Append(file.lines, line))
          /\ Len(Append(file.lines, line)) = Len(file.lines) + 1
      BY <3>2, AppendIsList
    <3> HIDE DEF r, line, file
    <3>4. /\ caches'[output_path(j)].state = "new"
          /\ IsList(caches'[output_path(j)].lines)
          /\ Len(caches'[output_path(j)].lines) = jobs[j].pc
      <4>1. Len(file.lines) + 1 = jobs[j].pc
        BY <3>2
      <4> QED
        BY <2>6, <3>1, <3>2, <3>3, <4>1
    <3>5. r.pc \in Nat /\ r.pc <= LinesOfCache + 1 /\ r.pc - 1 = jobs[j].pc
      BY <2>2, <3>2, LinesOfCacheIsNat
    <3> QED
      BY <2>2, <2>4, <3>4, <3>5 DEF LinesInOrder
  <2> HIDE DEF r, line, file
  <2>9. r.stage # "none" /\ (input.program # "instruo" => reports' = {})
    BY <1>2, <2>2 DEF IInv, Shape
  <2> QED
    BY <1>2, <2>1, <2>2, <2>7, <2>8, <2>9, CallerMoves
<1> QED
  BY <1>3, <1>4

LEMMA CloseKeeps ==
  ASSUME IInv, NEW j \in Jobs, exit = "running", Close(j)
  PROVE  IInv'
<1> DEFINE r == [jobs[j] EXCEPT !.stage = "done"]
<1>1. IsJob(jobs[j])
  BY DEF IInv, Shape
<1>2. IsJob(r) /\ r.stage = "done"
  BY <1>1 DEF IsJob
<1>3. Becomes(j, r) /\ jobs'[j] = r
  BY DEF Close, Becomes, IInv, Shape
<1>4. UNCHANGED <<input, exit, queue, caches, reports, printed>>
  BY DEF Close
<1>5. LinesInOrder(j)'
  <2> SUFFICES ASSUME input.program \in {"instruo", "metadata_generator"}, Written(j)
               PROVE  Complete(caches[output_path(j)])
    BY <1>2, <1>3, <1>4 DEF LinesInOrder, Written, Complete
  <2>1. /\ caches[output_path(j)].state = "new"
        /\ jobs[j].pc \in Nat
        /\ jobs[j].pc <= LinesOfCache + 1
        /\ Len(caches[output_path(j)].lines) = jobs[j].pc - 1
        /\ jobs[j].pc > LinesOfCache
    BY DEF IInv, LinesInOrder, Close
  <2>2. jobs[j].pc - 1 = LinesOfCache
    BY <2>1, LinesOfCacheIsNat
  <2> QED
    BY <2>1, <2>2 DEF Complete
<1>6. /\ DOMAIN caches' = Outputs
      /\ \A p \in Outputs : DOMAIN caches'[p] = {"state", "lines"}
      /\ input.program # "instruo" => reports' = {}
  BY <1>4 DEF IInv, Shape
<1> HIDE DEF r
<1>7. r.stage # "none"
  BY <1>2
<1> QED
  BY <1>2, <1>3, <1>4, <1>5, <1>6, <1>7, CallerMoves

\* A program that ends only has to have done its work.
LEMMA EndKeeps ==
  ASSUME IInv, exit' \notin {"starting", "running"},
         UNCHANGED <<input, jobs, caches, reports>>, SuccessMeansAnswered'
  PROVE  IInv'
<1>1. Shape'
  BY DEF IInv, Shape
<1>2. \A j \in Jobs : LinesInOrder(j)'
  BY DEF IInv, LinesInOrder, Written, Complete
<1> QED
  BY <1>1, <1>2 DEF IInv, NoneIsLost, NoneIsSkipped

LEMMA CatchKeeps ==
  ASSUME IInv, NEW j \in Jobs, exit = "running", Catch(j)
  PROVE  IInv'
<1>1. CASE input.program = "instruo"
  <2> DEFINE r == [jobs[j] EXCEPT !.stage = "done"]
  <2>1. IsJob(jobs[j])
    BY DEF IInv, Shape
  <2>2. IsJob(r) /\ r.stage = "done"
    BY <2>1 DEF IsJob
  <2>3. Becomes(j, r) /\ jobs'[j] = r
    BY <1>1 DEF Catch, Becomes, IInv, Shape
  <2>4. UNCHANGED <<input, exit, queue, caches, printed>> /\ reports' = reports \cup {j}
    BY <1>1 DEF Catch
  <2>5. LinesInOrder(j)'
    BY <2>2, <2>3, <2>4 DEF LinesInOrder
  <2>6. /\ DOMAIN caches' = Outputs
        /\ \A p \in Outputs : DOMAIN caches'[p] = {"state", "lines"}
    BY <2>4 DEF IInv, Shape
  <2> HIDE DEF r
  <2>7. r.stage # "none"
    BY <2>2
  <2> QED
    BY <1>1, <2>2, <2>3, <2>4, <2>5, <2>6, <2>7, CallerMoves
<1>2. CASE input.program # "instruo"
  <2>1. exit' = "failure" /\ UNCHANGED <<input, jobs, caches, reports>>
    BY <1>2 DEF Catch
  <2>2. SuccessMeansAnswered'
    BY <2>1 DEF SuccessMeansAnswered
  <2> QED
    BY <2>1, <2>2, EndKeeps
<1> QED
  BY <1>1, <1>2

LEMMA JobStepKeeps ==
  ASSUME IInv, NEW j \in Jobs, JobStep(j)
  PROVE  IInv'
<1>1. exit = "running"
  BY DEF JobStep
<1>2. CASE RunCommand(j) \/ EndWalk(j)
  <2>1. exit' = exit
    BY <1>2 DEF RunCommand, EndWalk
  <2> QED
    BY <1>1, <1>2, <2>1, WalkKeeps
<1>3. CASE Terminate(j)
  <2>1. exit' = "aborted" /\ UNCHANGED <<input, jobs, caches, reports>>
    BY <1>3 DEF Terminate
  <2>2. SuccessMeansAnswered'
    BY <2>1 DEF SuccessMeansAnswered
  <2> QED
    BY <2>1, <2>2, EndKeeps
<1> QED
  BY <1>1, <1>2, <1>3, OpenKeeps, WriteLineKeeps, CloseKeeps, CatchKeeps DEF JobStep

----------------------------------------------------------------------------
(* instruo.                                                                *)

LEMMA StartInstruoKeeps ==
  ASSUME IInv, StartInstruo
  PROVE  IInv'
<1> DEFINE ends == CommandLineEnds(input.options, input.repository)
<1>1. /\ input.program = "instruo"
      /\ exit' = ends
      /\ UNCHANGED <<input, jobs, caches, reports, printed>>
      /\ ends = "running" => queue' = input.ids
  BY DEF StartInstruo
<1>2. ends \in {"running", "success", "failure"}
  BY DEF CommandLineEnds
<1>3. CASE ends = "running"
  <2>1. Shape'
    BY <1>1, <1>3 DEF IInv, Shape
  <2>2. \A j \in Jobs : LinesInOrder(j)'
    BY <1>1 DEF IInv, LinesInOrder, Written, Complete
  <2>3. NoneIsLost'
    BY <1>1, <1>3, IdsArePackages DEF IInv, NoneIsLost
  <2> QED
    BY <1>1, <1>3, <2>1, <2>2, <2>3 DEF IInv, NoneIsSkipped, SuccessMeansAnswered
<1>4. CASE ends # "running"
  <2>1. SuccessMeansAnswered'
    BY <1>1, <1>4 DEF SuccessMeansAnswered, Generates
  <2> HIDE DEF ends
  <2> QED
    BY <1>1, <1>2, <1>4, <2>1, EndKeeps
<1> QED
  BY <1>3, <1>4

LEMMA ScheduleKeeps ==
  ASSUME IInv, Schedule
  PROVE  IInv'
<1> DEFINE id == Head(queue)
<1>1. /\ exit = "running"
      /\ input.program = "instruo"
      /\ queue # <<>>
      /\ queue' = Tail(queue)
      /\ jobs' = [jobs EXCEPT ![id].stage = "queued"]
      /\ UNCHANGED <<input, exit, caches, reports, printed>>
  BY DEF Schedule
<1>2. DOMAIN jobs = Jobs /\ \A j \in Jobs : IsJob(jobs[j])
  BY DEF IInv, Shape
<1> HIDE DEF id
<1>3. /\ DOMAIN jobs' = Jobs
      /\ \A j \in Jobs \ {id} : jobs'[j] = jobs[j]
      /\ id \in Jobs => IsJob(jobs'[id]) /\ jobs'[id].stage = "queued"
  BY <1>1, <1>2 DEF IsJob
<1>4. Shape'
  BY <1>1, <1>2, <1>3 DEF IInv, Shape
<1>5. ASSUME NEW j \in Jobs PROVE LinesInOrder(j)'
  <2>1. CASE j = id
    BY <1>3, <2>1 DEF LinesInOrder
  <2>2. CASE j # id
    BY <1>1, <1>3, <2>2 DEF IInv, LinesInOrder, Written, Complete
  <2> QED
    BY <2>1, <2>2
<1>6. NoneIsLost'
  <2>1. IsList(queue) /\ \A i \in ToSet(input.ids) : i \in ToSet(queue) \/ jobs[i].stage # "none"
    BY <1>1 DEF IInv, NoneIsLost
  <2>2. ToSet(input.ids) \subseteq Jobs
    BY <1>1, IdsArePackages DEF IInv, Jobs
  <2>3. /\ IsList(queue')
        /\ \A i \in ToSet(queue) : i = id \/ i \in ToSet(queue')
    BY <1>1, <2>1, HeadOrTail DEF id
  <2>4. ASSUME NEW i \in ToSet(input.ids) PROVE i \in ToSet(queue') \/ jobs'[i].stage # "none"
    <3>1. CASE i = id
      BY <1>3, <2>2, <3>1
    <3>2. CASE i # id
      BY <1>3, <2>1, <2>2, <2>3, <3>2
    <3> QED
      BY <3>1, <3>2
  <2> QED
    BY <1>1, <2>3, <2>4 DEF NoneIsLost
<1> QED
  BY <1>1, <1>4, <1>5, <1>6 DEF IInv, NoneIsSkipped, SuccessMeansAnswered

LEMMA StartedIsJob ==
  ASSUME NEW j
  PROVE  IsJob(Started(j)) /\ Started(j).stage \in {"preload", "thrown"}
BY DEF Started, Parsed, Failed, NoJob, IsJob

LEMMA StartTaskKeeps ==
  ASSUME IInv, NEW id \in Packages, StartTask(id)
  PROVE  IInv'
<1>1. /\ exit = "running"
      /\ Becomes(id, Started(id))
      /\ UNCHANGED <<input, exit, queue, caches, reports, printed>>
  BY DEF StartTask
<1>2. id \in Jobs
  BY DEF Jobs
<1> QED
  BY <1>1, <1>2, StartedIsJob, JobMoves

\* All tasks are done and no package is left: every package has an answer.
LEMMA JoinKeeps ==
  ASSUME IInv, Join
  PROVE  IInv'
<1>1. /\ exit = "running"
      /\ input.program = "instruo"
      /\ queue = <<>>
      /\ \A id \in Packages : jobs[id].stage \in {"none", "done"}
      /\ exit' = "success"
      /\ UNCHANGED <<input, jobs, caches, reports>>
  BY DEF Join
<1>2. ASSUME input.writable, NEW id \in ToSet(input.ids) PROVE Answered(id)
  <2>1. id \in Packages
    BY <1>1, IdsArePackages DEF IInv
  <2>2. id \notin ToSet(queue)
    BY <1>1 DEF ToSet
  <2>3. jobs[id].stage = "done"
    BY <1>1, <2>1, <2>2 DEF IInv, NoneIsLost
  <2>4. LinesInOrder(id) /\ Written(id)
    BY <1>2, <2>1 DEF IInv, Jobs, Written
  <2> QED
    BY <1>1, <2>3, <2>4 DEF LinesInOrder, Answered
<1>3. SuccessMeansAnswered'
  BY <1>1, <1>2 DEF SuccessMeansAnswered, Answered, Complete
<1> QED
  BY <1>1, <1>3, EndKeeps

----------------------------------------------------------------------------
(* The other programs.                                                     *)

LEMMA StartScriptKeeps ==
  ASSUME IInv, StartScript
  PROVE  IInv'
<1>1. /\ input.program \in ScriptPrograms
      /\ UNCHANGED <<input, queue, caches, reports, printed>>
  BY DEF StartScript
<1>2. CASE input.argc # 2
  <2>1. exit' = "failure" /\ UNCHANGED jobs
    BY <1>2 DEF StartScript
  <2>2. SuccessMeansAnswered'
    BY <2>1 DEF SuccessMeansAnswered
  <2> QED
    BY <1>1, <2>1, <2>2, EndKeeps
<1>3. CASE input.argc = 2
  <2>1. exit' = "running" /\ Becomes(Main, Started(Main))
    BY <1>3 DEF StartScript
  <2>2. Main \in Jobs
    BY DEF Jobs
  <2> QED
    BY <1>1, <2>1, <2>2, StartedIsJob, JobMoves
<1> QED
  BY <1>2, <1>3

LEMMA EndScriptKeeps ==
  ASSUME IInv, EndScript
  PROVE  IInv'
<1>1. /\ input.program \in ScriptPrograms
      /\ jobs[Main].stage = "done"
      /\ exit' = "success"
      /\ UNCHANGED <<input, jobs, caches, reports>>
  BY DEF EndScript
<1>2. input.program = "metadata_generator" => Complete(caches[output_path(Main)])
  <2>1. Main \in Jobs /\ Written(Main)
    BY DEF Jobs, Written
  <2>2. input.program # "instruo" => reports = {}
    BY DEF IInv, Shape
  <2> QED
    BY <1>1, <2>1, <2>2 DEF IInv, LinesInOrder
<1>3. SuccessMeansAnswered'
  BY <1>1, <1>2 DEF SuccessMeansAnswered, Generates, ScriptPrograms, Complete
<1> QED
  BY <1>1, <1>3, EndKeeps

\* A printer fails, or prints its script.
LEMMA PrinterPrints ==
  ASSUME NEW s, NEW state, NEW options
  PROVE  LET result == printer(s, state, options)
         IN /\ IsList(result.printed)
            /\ (~result.fails /\ "silent" \notin options) =>
                  \E k \in DOMAIN result.printed : result.printed[k].script = s
<1>1. ASSUME NEW as PROVE /\ IsList(<<[script |-> s, as |-> as]>>)
                          /\ \E k \in DOMAIN <<[script |-> s, as |-> as]>> :
                                <<[script |-> s, as |-> as]>>[k].script = s
  <2> DEFINE e == [script |-> s, as |-> as]
  <2>1. e.script = s
    OBVIOUS
  <2> HIDE DEF e
  <2>2. <<e>> \in Seq({e}) /\ 1 \in DOMAIN <<e>> /\ <<e>>[1] = e
    OBVIOUS
  <2>3. IsList(<<e>>)
    BY <2>2, SequencesAreLists
  <2>4. \E k \in DOMAIN <<e>> : <<e>>[k].script = s
    BY <2>1, <2>2
  <2> QED
    BY <2>3, <2>4 DEF e
<1> DEFINE Good(result) == /\ IsList(result.printed)
                           /\ (~result.fails /\ "silent" \notin options) =>
                                 \E k \in DOMAIN result.printed : result.printed[k].script = s
<1>2. Good(Fails)
  BY EmptyIsList DEF Fails
<1>3. "silent" \in options => Good(Nothing)
  BY EmptyIsList DEF Nothing
<1>4. Good(Prints(s))
  BY <1>1 DEF Prints
<1>5. Good(Tokens(s, options))
  <2>1. Good([fails |-> FALSE, printed |-> <<[script |-> s, as |-> "error"]>>])
    BY <1>1
  <2> QED
    BY <1>4, <2>1 DEF Tokens
<1> HIDE DEF Good
<1>6. Good(print_parser_token(s, state, options)) /\ Good(print_walker_token(s, state, options))
  BY <1>2, <1>3, <1>5 DEF print_parser_token, print_walker_token
<1>7. Good(print_ast(s, state, options))
  BY <1>2, <1>3, <1>4 DEF print_ast
<1>8. Good(printer(s, state, options))
  BY <1>6, <1>7 DEF printer
<1> QED
  BY <1>8 DEF Good

LEMMA ScriptsAreList ==
  ASSUME Shape, input.program = "ast_printer"
  PROVE  IsList(Scripts(input.options, input.scripts))
<1>1. IsList(input.scripts)
  BY InputsAssumption, SequencesAreLists DEF Shape
<1>2. ASSUME NEW e PROVE IsList(<<e>>)
  <2>1. <<e>> \in Seq({e})
    OBVIOUS
  <2> QED
    BY <2>1, SequencesAreLists
<1> QED
  BY <1>1, <1>2 DEF Scripts

LEMMA StartAstPrinterKeeps ==
  ASSUME IInv, StartAstPrinter
  PROVE  IInv'
<1> DEFINE ends == OptionsEnd(input.options)
<1>1. /\ exit = "starting"
      /\ input.program = "ast_printer"
      /\ exit' = ends
      /\ ends = "running" => queue' = Scripts(input.options, input.scripts)
      /\ UNCHANGED <<input, jobs, caches, reports, printed>>
  BY DEF StartAstPrinter
<1>2. ends \in {"running", "failure", "aborted"}
  BY DEF OptionsEnd
<1>3. CASE ends = "running"
  <2>1. Shape'
    BY <1>1, <1>3 DEF IInv, Shape
  <2>2. \A j \in Jobs : LinesInOrder(j)'
    BY <1>1 DEF IInv, LinesInOrder, Written, Complete
  <2>3. printed' = <<>>
    BY <1>1 DEF IInv, Shape
  <2>4. NoneIsSkipped'
    BY <1>1, <1>3, <2>3, EmptyIsList, ScriptsAreList DEF IInv, NoneIsSkipped
  <2> QED
    BY <1>1, <1>3, <2>1, <2>2, <2>4 DEF IInv, NoneIsLost, SuccessMeansAnswered
<1>4. CASE ends # "running"
  <2> HIDE DEF ends
  <2>1. SuccessMeansAnswered'
    BY <1>1, <1>2, <1>4 DEF SuccessMeansAnswered
  <2> QED
    BY <1>1, <1>2, <1>4, <2>1, EndKeeps
<1> QED
  BY <1>3, <1>4

LEMMA PrintFileKeeps ==
  ASSUME IInv, PrintFile
  PROVE  IInv'
<1>0. PICK s : s = Head(queue)
  OBVIOUS
<1> DEFINE result == printer(s, input.states[s], input.options)
<1>1. /\ exit = "running"
      /\ input.program = "ast_printer"
      /\ queue # <<>>
      /\ queue' = Tail(queue)
      /\ exit' = IF result.fails THEN "failure" ELSE exit
      /\ printed' = printed \o result.printed
      /\ UNCHANGED <<input, jobs, caches, reports>>
  BY <1>0 DEF PrintFile
<1>2. /\ IsList(result.printed)
      /\ (~result.fails /\ "silent" \notin input.options) =>
            \E k \in DOMAIN result.printed : result.printed[k].script = s
  BY PrinterPrints
<1> HIDE DEF result
<1>3. CASE result.fails
  <2>1. SuccessMeansAnswered'
    BY <1>1, <1>3 DEF SuccessMeansAnswered
  <2> QED
    BY <1>1, <1>3, <2>1, EndKeeps
<1>4. CASE ~result.fails
  <2>1. /\ IsList(queue)
        /\ IsList(printed)
        /\ "silent" \notin input.options =>
              \A t \in ToSet(Scripts(input.options, input.scripts)) :
                  t \in ToSet(queue) \/ Printed(t)
    BY <1>1 DEF IInv, NoneIsSkipped
  <2>2. /\ IsList(queue')
        /\ \A t \in ToSet(queue) : t = s \/ t \in ToSet(queue')
    BY <1>0, <1>1, <2>1, HeadOrTail
  <2>3. /\ IsList(printed')
        /\ \A k \in DOMAIN printed : k \in DOMAIN printed' /\ printed'[k] = printed[k]
        /\ \A k \in DOMAIN result.printed :
              \E i \in DOMAIN printed' : printed'[i] = result.printed[k]
    <3>1. PICK old, new : old = printed /\ new = result.printed
      OBVIOUS
    <3>2. IsList(old) /\ IsList(new) /\ printed' = Joined(old, new)
      BY <1>1, <1>2, <2>1, <3>1 DEF Joined
    <3>3. PICK joint : joint = Joined(old, new)
      OBVIOUS
    <3>4. /\ IsList(joint)
          /\ \A k \in DOMAIN old : k \in DOMAIN joint /\ joint[k] = old[k]
          /\ \A k \in DOMAIN new : \E i \in DOMAIN joint : joint[i] = new[k]
      BY <3>2, <3>3, JoinedIsList
    <3>5. printed' = joint
      BY <3>2, <3>3
    <3> QED
      BY <3>1, <3>4, <3>5
  <2>4. ASSUME NEW t, Printed(t) PROVE Printed(t)'
    <3>1. PICK k \in DOMAIN printed : printed[k].script = t
      BY <2>4 DEF Printed
    <3>2. k \in DOMAIN printed' /\ printed'[k].script = t
      BY <2>3, <3>1
    <3> QED
      BY <3>2 DEF Printed
  <2>5. ASSUME "silent" \notin input.options PROVE Printed(s)'
    <3>1. PICK k \in DOMAIN result.printed : result.printed[k].script = s
      BY <1>2, <1>4, <2>5
    <3>2. PICK i \in DOMAIN printed' : printed'[i] = result.printed[k]
      BY <2>3
    <3>3. printed'[i].script = s
      BY <3>1, <3>2
    <3> QED
      BY <3>3 DEF Printed
  <2>6. NoneIsSkipped'
    <3>1. ASSUME "silent" \notin input.options,
                 NEW t \in ToSet(Scripts(input.options, input.scripts))
          PROVE  t \in ToSet(queue') \/ Printed(t)'
      BY <2>1, <2>2, <2>4, <2>5, <3>1
    <3>2. input' = input /\ IsList(queue') /\ IsList(printed')
      BY <1>1, <2>2, <2>3
    <3> QED
      BY <3>1, <3>2 DEF NoneIsSkipped, Printed
  <2>7. Shape'
    BY <1>1, <1>4 DEF IInv, Shape
  <2>8. \A j \in Jobs : LinesInOrder(j)'
    BY <1>1 DEF IInv, LinesInOrder, Written, Complete
  <2> QED
    BY <1>1, <1>4, <2>6, <2>7, <2>8 DEF IInv, NoneIsLost, SuccessMeansAnswered
<1> QED
  BY <1>3, <1>4

LEMMA EndAstPrinterKeeps ==
  ASSUME IInv, EndAstPrinter
  PROVE  IInv'
<1>1. /\ exit = "running"
      /\ input.program = "ast_printer"
      /\ queue = <<>>
      /\ exit' = "success"
      /\ UNCHANGED <<input, jobs, caches, reports, printed>>
  BY DEF EndAstPrinter
<1>2. "silent" \notin input.options =>
          \A s \in ToSet(Scripts(input.options, input.scripts)) : Printed(s)
  <2>1. ToSet(queue) = {}
    BY <1>1 DEF ToSet
  <2> QED
    BY <1>1, <2>1 DEF IInv, NoneIsSkipped
<1>3. SuccessMeansAnswered'
  BY <1>1, <1>2 DEF SuccessMeansAnswered, Generates, Printed
<1> QED
  BY <1>1, <1>3, EndKeeps

----------------------------------------------------------------------------
(* The invariant holds.                                                    *)

LEMMA NextInvariant ==
  ASSUME IInv, [Next]_vars
  PROVE  IInv'
<1>1. CASE UNCHANGED vars
  BY <1>1 DEF vars, IInv, Shape, NoneIsLost, LinesInOrder, NoneIsSkipped, SuccessMeansAnswered,
              Written, Complete, Answered, Generates, Printed
<1>2. CASE MainStep
  BY <1>2, StartInstruoKeeps, ScheduleKeeps, JoinKeeps, StartScriptKeeps, EndScriptKeeps,
     StartAstPrinterKeeps, PrintFileKeeps, EndAstPrinterKeeps DEF MainStep
<1>3. ASSUME NEW id \in Packages, StartTask(id) PROVE IInv'
  BY <1>3, StartTaskKeeps
<1>4. ASSUME NEW j \in Jobs, JobStep(j) PROVE IInv'
  BY <1>4, JobStepKeeps
<1> QED
  BY <1>1, <1>2, <1>3, <1>4 DEF Next, Terminated

\* A program that exits with success has done its work, for any packages, team,
\* scripts, command lines and files: instruo has a whole cache file or a report
\* for every package, metadata_generator has written all lines, ast_printer has
\* printed every script.
THEOREM SuccessIsComplete == Spec => []SuccessMeansAnswered
<1>1. Init => IInv
  BY InitInvariant
<1>2. IInv /\ [Next]_vars => IInv'
  BY NextInvariant
<1>3. IInv => SuccessMeansAnswered
  BY DEF IInv
<1> QED
  BY <1>1, <1>2, <1>3, PTL DEF Spec
=============================================================================
