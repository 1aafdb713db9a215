------------------------- MODULE SourceCacheProofs -------------------------
(* Proofs about SourceCache, for any set of threads, any set of files and  *)
(* any number of ebuilds and commands.                                     *)
EXTENDS SourceCache, TLAPS

\* The entry of a path tells whether its constructor was ever entered.
EntryCounts ==
    \A p \in Paths :
        parsed_times[p] = IF ast_cache[p] = "absent" THEN 0 ELSE 1

\* While a constructor runs, the entry of its path holds the null pointer.
ConstructsNull ==
    \A t \in Threads : pc[t] = "construct" => ast_cache[arg[t]] = "null"

Inv == TypeOK /\ ParseExclusive /\ FactoryExclusive

IInv == Inv /\ EntryCounts /\ ConstructsNull /\ NeverInterpretsNull

\* The initial values have their types.
LEMMA InitTypeOK == Init => TypeOK
  BY BoundsAssumption
     DEF Init, TypeOK, Places, EntryStates

\* Every action keeps the types: one step per action.
LEMMA NextTypeOK == TypeOK /\ [Next]_vars => TypeOK'
<1> SUFFICES ASSUME TypeOK, [Next]_vars PROVE TypeOK'
  OBVIOUS
<1> USE BoundsAssumption DEF TypeOK, Places, EntryStates, Goto, Abandon
<1>1. ASSUME NEW t \in Threads, TakeTask(t) PROVE TypeOK'
  BY <1>1 DEF TakeTask
<1>2. ASSUME NEW t \in Threads, EndTask(t) PROVE TypeOK'
  BY <1>2 DEF EndTask
<1>3. ASSUME NEW t \in Threads, NEW p \in Paths, CallSource(t, p) PROVE TypeOK'
  BY <1>3 DEF CallSource
<1>4. ASSUME NEW t \in Threads, Lock(t) PROVE TypeOK'
  BY <1>4 DEF Lock
<1>5. ASSUME NEW t \in Threads, Miss(t) PROVE TypeOK'
  BY <1>5 DEF Miss
<1>6. ASSUME NEW t \in Threads, Poisoned(t) PROVE TypeOK'
  BY <1>6 DEF Poisoned
<1>7. ASSUME NEW t \in Threads, Hit(t) PROVE TypeOK'
  BY <1>7 DEF Hit
<1>8. ASSUME NEW t \in Threads, ParseSucceeds(t) PROVE TypeOK'
  BY <1>8 DEF ParseSucceeds
<1>9. ASSUME NEW t \in Threads, ParseFails(t) PROVE TypeOK'
  BY <1>9 DEF ParseFails
<1>10. ASSUME NEW t \in Threads, Interpret(t) PROVE TypeOK'
  BY <1>10 DEF Interpret
<1>11. ASSUME NEW t \in Threads, EndSource(t) PROVE TypeOK'
  BY <1>11 DEF EndSource
<1>12. ASSUME NEW t \in Threads, NeedString(t) PROVE TypeOK'
  BY <1>12 DEF NeedString
<1>13. ASSUME NEW t \in Threads, LockString(t) PROVE TypeOK'
  BY <1>13 DEF LockString
<1>14. ASSUME NEW t \in Threads, UnlockString(t) PROVE TypeOK'
  BY <1>14 DEF UnlockString
<1>15. ASSUME NEW t \in Threads, TaskFails(t) PROVE TypeOK'
  BY <1>15 DEF TaskFails
<1>16. CASE UNCHANGED vars
  BY <1>16 DEF vars
<1> QED
  BY <1>1, <1>2, <1>3, <1>4, <1>5, <1>6, <1>7, <1>8, <1>9, <1>10, <1>11,
     <1>12, <1>13, <1>14, <1>15, <1>16 DEF Next, Step, Finished

\* The variables of SourceCache always hold values of their types.
THEOREM TypeCorrect == Spec => []TypeOK
<1>1. Init => TypeOK
  BY InitTypeOK
<1>2. TypeOK /\ [Next]_vars => TypeOK'
  BY NextTypeOK
<1> QED
  BY <1>1, <1>2, PTL DEF Spec

----------------------------------------------------------------------------
\* The invariant holds before the first ebuild is taken.
LEMMA InitIInv == Init => IInv
<1> SUFFICES ASSUME Init PROVE IInv
  OBVIOUS
<1>1. TypeOK
  BY InitTypeOK
<1>2. ParseExclusive /\ FactoryExclusive
  BY NoThreadAssumption DEF Init, ParseExclusive, FactoryExclusive, InParse
<1>3. EntryCounts /\ ConstructsNull /\ NeverInterpretsNull
  BY DEF Init, EntryCounts, ConstructsNull, NeverInterpretsNull
<1> QED
  BY <1>1, <1>2, <1>3 DEF IInv, Inv

\* The mutexes: one step per action, all of them read only pc and the owners.
LEMMA NextExclusive ==
    TypeOK /\ ParseExclusive /\ FactoryExclusive /\ [Next]_vars
    => ParseExclusive' /\ FactoryExclusive'
<1> SUFFICES ASSUME TypeOK, ParseExclusive, FactoryExclusive, [Next]_vars
             PROVE ParseExclusive' /\ FactoryExclusive'
  OBVIOUS
<1> USE NoThreadAssumption
    DEF TypeOK, ParseExclusive, FactoryExclusive, InParse, Goto, Abandon
<1>1. ASSUME NEW t \in Threads, TakeTask(t) PROVE ParseExclusive' /\ FactoryExclusive'
  BY <1>1 DEF TakeTask
<1>2. ASSUME NEW t \in Threads, EndTask(t) PROVE ParseExclusive' /\ FactoryExclusive'
  BY <1>2 DEF EndTask
<1>3. ASSUME NEW t \in Threads, NEW p \in Paths, CallSource(t, p) PROVE ParseExclusive' /\ FactoryExclusive'
  BY <1>3 DEF CallSource
<1>4. ASSUME NEW t \in Threads, Lock(t) PROVE ParseExclusive' /\ FactoryExclusive'
  BY <1>4 DEF Lock
<1>5. ASSUME NEW t \in Threads, Miss(t) PROVE ParseExclusive' /\ FactoryExclusive'
  BY <1>5 DEF Miss
<1>6. ASSUME NEW t \in Threads, Poisoned(t) PROVE ParseExclusive' /\ FactoryExclusive'
  BY <1>6 DEF Poisoned
<1>7. ASSUME NEW t \in Threads, Hit(t) PROVE ParseExclusive' /\ FactoryExclusive'
  BY <1>7 DEF Hit
<1>8. ASSUME NEW t \in Threads, ParseSucceeds(t) PROVE ParseExclusive' /\ FactoryExclusive'
  BY <1>8 DEF ParseSucceeds
<1>9. ASSUME NEW t \in Threads, ParseFails(t) PROVE ParseExclusive' /\ FactoryExclusive'
  BY <1>9 DEF ParseFails
<1>10. ASSUME NEW t \in Threads, Interpret(t) PROVE ParseExclusive' /\ FactoryExclusive'
  BY <1>10 DEF Interpret
<1>11. ASSUME NEW t \in Threads, EndSource(t) PROVE ParseExclusive' /\ FactoryExclusive'
  BY <1>11 DEF EndSource
<1>12. ASSUME NEW t \in Threads, NeedString(t) PROVE ParseExclusive' /\ FactoryExclusive'
  BY <1>12 DEF NeedString
<1>13. ASSUME NEW t \in Threads, LockString(t) PROVE ParseExclusive' /\ FactoryExclusive'
  BY <1>13 DEF LockString
<1>14. ASSUME NEW t \in Threads, UnlockString(t) PROVE ParseExclusive' /\ FactoryExclusive'
  BY <1>14 DEF UnlockString
<1>15. ASSUME NEW t \in Threads, TaskFails(t) PROVE ParseExclusive' /\ FactoryExclusive'
  BY <1>15 DEF TaskFails
<1>16. CASE UNCHANGED vars
  BY <1>16 DEF vars
<1> QED
  BY <1>1, <1>2, <1>3, <1>4, <1>5, <1>6, <1>7, <1>8, <1>9, <1>10, <1>11,
     <1>12, <1>13, <1>14, <1>15, <1>16 DEF Next, Step, Finished

\* The map: entries, their counts and the thread that is filling one.
LEMMA NextEntries ==
    IInv /\ [Next]_vars => EntryCounts' /\ ConstructsNull'
<1> SUFFICES ASSUME IInv, [Next]_vars PROVE EntryCounts' /\ ConstructsNull'
  OBVIOUS
<1> USE DEF IInv, Inv, TypeOK, ParseExclusive, EntryCounts, ConstructsNull,
            InParse, Goto, Abandon, EntryStates
<1>1. ASSUME NEW t \in Threads, TakeTask(t) PROVE EntryCounts' /\ ConstructsNull'
  BY <1>1 DEF TakeTask
<1>2. ASSUME NEW t \in Threads, EndTask(t) PROVE EntryCounts' /\ ConstructsNull'
  BY <1>2 DEF EndTask
<1>3. ASSUME NEW t \in Threads, NEW p \in Paths, CallSource(t, p) PROVE EntryCounts' /\ ConstructsNull'
  BY <1>3 DEF CallSource
<1>4. ASSUME NEW t \in Threads, Lock(t) PROVE EntryCounts' /\ ConstructsNull'
  BY <1>4 DEF Lock
<1>5. ASSUME NEW t \in Threads, Miss(t) PROVE EntryCounts' /\ ConstructsNull'
  BY <1>5 DEF Miss
<1>6. ASSUME NEW t \in Threads, Poisoned(t) PROVE EntryCounts' /\ ConstructsNull'
  BY <1>6 DEF Poisoned
<1>7. ASSUME NEW t \in Threads, Hit(t) PROVE EntryCounts' /\ ConstructsNull'
  BY <1>7 DEF Hit
<1>8. ASSUME NEW t \in Threads, ParseSucceeds(t) PROVE EntryCounts' /\ ConstructsNull'
  BY <1>8 DEF ParseSucceeds
<1>9. ASSUME NEW t \in Threads, ParseFails(t) PROVE EntryCounts' /\ ConstructsNull'
  BY <1>9 DEF ParseFails
<1>10. ASSUME NEW t \in Threads, Interpret(t) PROVE EntryCounts' /\ ConstructsNull'
  BY <1>10 DEF Interpret
<1>11. ASSUME NEW t \in Threads, EndSource(t) PROVE EntryCounts' /\ ConstructsNull'
  BY <1>11 DEF EndSource
<1>12. ASSUME NEW t \in Threads, NeedString(t) PROVE EntryCounts' /\ ConstructsNull'
  BY <1>12 DEF NeedString
<1>13. ASSUME NEW t \in Threads, LockString(t) PROVE EntryCounts' /\ ConstructsNull'
  BY <1>13 DEF LockString
<1>14. ASSUME NEW t \in Threads, UnlockString(t) PROVE EntryCounts' /\ ConstructsNull'
  BY <1>14 DEF UnlockString
<1>15. ASSUME NEW t \in Threads, TaskFails(t) PROVE EntryCounts' /\ ConstructsNull'
  BY <1>15 DEF TaskFails
<1>16. CASE UNCHANGED vars
  BY <1>16 DEF vars
<1> QED
  BY <1>1, <1>2, <1>3, <1>4, <1>5, <1>6, <1>7, <1>8, <1>9, <1>10, <1>11,
     <1>12, <1>13, <1>14, <1>15, <1>16 DEF Next, Step, Finished

\* An entry that points to an AST is written by no action: Miss needs an
\* absent entry, and ParseSucceeds writes "ast".
LEMMA EntryFinal ==
    ASSUME IInv, [Next]_vars, NEW p \in Paths, ast_cache[p] = "ast"
    PROVE  ast_cache'[p] = "ast"
<1> USE DEF IInv, Inv, TypeOK
<1>1. ASSUME NEW t \in Threads, Miss(t) PROVE ast_cache'[p] = "ast"
  BY <1>1 DEF Miss
<1>2. ASSUME NEW t \in Threads, ParseSucceeds(t) PROVE ast_cache'[p] = "ast"
  BY <1>2 DEF ParseSucceeds
<1>3. CASE UNCHANGED ast_cache
  BY <1>3
<1> QED
  BY <1>1, <1>2, <1>3
     DEF Next, Step, Finished, vars, TakeTask, EndTask, TaskFails, CallSource, Lock, Poisoned,
         Hit, ParseFails, Interpret, EndSource, NeedString, LockString, UnlockString

\* The files a thread walks: only Interpret adds one, and it was just served.
LEMMA NextNeverNull == IInv /\ [Next]_vars => NeverInterpretsNull'
<1> SUFFICES ASSUME IInv, [Next]_vars, NEW u \in Threads
             PROVE /\ pc'[u] = "interpret" => ast_cache'[arg'[u]] = "ast"
                   /\ \A i \in 1..Len(stack'[u]) : ast_cache'[stack'[u][i]] = "ast"
  BY DEF NeverInterpretsNull
<1>1. pc'[u] = "interpret" => ast_cache'[arg'[u]] = "ast"
  <2> SUFFICES ASSUME pc'[u] = "interpret" PROVE ast_cache'[arg'[u]] = "ast"
    OBVIOUS
  <2>1. CASE pc[u] = "interpret" /\ arg'[u] = arg[u]
    BY <2>1, EntryFinal DEF IInv, Inv, TypeOK, NeverInterpretsNull
  <2>2. CASE Hit(u) \/ ParseSucceeds(u)
    BY <2>2 DEF Hit, ParseSucceeds, IInv, Inv, TypeOK
  <2> QED
    BY <2>1, <2>2
       DEF IInv, Inv, TypeOK, Next, Step, Finished, vars, Goto, Abandon, TakeTask,
           EndTask, TaskFails, CallSource, Lock, Miss, Poisoned, Hit, ParseSucceeds, ParseFails,
           Interpret, EndSource, NeedString, LockString, UnlockString
<1>2. ASSUME NEW i \in 1..Len(stack'[u]) PROVE ast_cache'[stack'[u][i]] = "ast"
  <2>1. CASE i \in 1..Len(stack[u]) /\ stack'[u][i] = stack[u][i]
    <3>1. ast_cache[stack[u][i]] = "ast" /\ stack[u][i] \in Paths
      BY <2>1 DEF IInv, Inv, TypeOK, NeverInterpretsNull
    <3> QED
      BY <2>1, <3>1, EntryFinal
  <2>2. CASE Interpret(u)
    <3>1. stack'[u] = Append(stack[u], arg[u]) /\ UNCHANGED ast_cache
      BY <2>2 DEF Interpret, IInv, Inv, TypeOK
    <3> QED
      BY <2>1, <2>2, <3>1
         DEF Interpret, IInv, Inv, TypeOK, NeverInterpretsNull
  <2>3. CASE EndSource(u)
    BY <2>1, <2>3 DEF EndSource, IInv, Inv, TypeOK
  <2>4. CASE stack'[u] = <<>>
    BY <2>4
  <2>5. CASE stack'[u] = stack[u]
    BY <2>1, <2>5
  <2>6. ASSUME NEW t \in Threads, Interpret(t) \/ EndSource(t)
        PROVE t = u \/ stack'[u] = stack[u]
    BY <2>6 DEF Interpret, EndSource, IInv, Inv, TypeOK
  <2>7. ASSUME NEW t \in Threads, Poisoned(t) \/ ParseFails(t) \/ TaskFails(t)
        PROVE stack'[u] = <<>> \/ stack'[u] = stack[u]
    BY <2>7 DEF Poisoned, ParseFails, TaskFails, Abandon, IInv, Inv, TypeOK
  <2>8. CASE UNCHANGED stack
    BY <2>5, <2>8
  <2> QED
    BY <2>2, <2>3, <2>4, <2>5, <2>6, <2>7, <2>8
       DEF Next, Step, Finished, vars, TakeTask, EndTask, CallSource, Lock, Miss,
           Hit, ParseSucceeds, NeedString, LockString, UnlockString
<1> QED
  BY <1>1, <1>2

\* The inductive invariant: locks, counts and pointers together.
LEMMA InvariantHolds == Spec => []IInv
<1>1. Init => IInv
  BY InitIInv
<1>2. IInv /\ [Next]_vars => IInv'
  BY NextTypeOK, NextExclusive, NextEntries, NextNeverNull DEF IInv, Inv
<1> QED
  BY <1>1, <1>2, PTL DEF Spec

\* At most one thread is inside parse(), and it owns parse_mutex.
THEOREM ParseIsExclusive == Spec => []ParseExclusive
<1>1. IInv => ParseExclusive
  BY DEF IInv, Inv
<1> QED
  BY <1>1, InvariantHolds, PTL

\* The shared string factories are used by one thread at a time.
THEOREM FactoryIsExclusive == Spec => []FactoryExclusive
<1>1. IInv => FactoryExclusive
  BY DEF IInv, Inv
<1> QED
  BY <1>1, InvariantHolds, PTL

\* No file goes through "new bash_ast" twice.
THEOREM ParsesOnce == Spec => []ParsedAtMostOnce
<1>1. IInv => ParsedAtMostOnce
  BY DEF IInv, EntryCounts, ParsedAtMostOnce
<1> QED
  BY <1>1, InvariantHolds, PTL

\* The pointer read after the unlock is never null.
THEOREM PointerIsValid == Spec => []NeverInterpretsNull
<1>1. IInv => NeverInterpretsNull
  BY DEF IInv
<1> QED
  BY <1>1, InvariantHolds, PTL

\* A cached AST stays in the cache.
THEOREM CachedForever == Spec => EntriesAreFinal
<1>1. IInv /\ [Next]_vars
      => [\A p \in Paths : ast_cache[p] = "ast" => ast_cache'[p] = "ast"]_vars
  BY EntryFinal
<1> QED
  BY <1>1, InvariantHolds, PTL DEF Spec, EntriesAreFinal

----------------------------------------------------------------------------
(* SourceCache implements ParseOnce.                                       *)

\* Steps that touch neither the map nor a request are invisible.
LEMMA Invisible ==
    ASSUME IInv, NEW t \in Threads,
           \/ TakeTask(t) \/ EndTask(t) \/ TaskFails(t) \/ Lock(t) \/ EndSource(t)
           \/ NeedString(t) \/ LockString(t) \/ UnlockString(t)
    PROVE  UNCHANGED <<Outcome, Reply, arg>>
<1> USE DEF IInv, Inv, TypeOK, Goto, Abandon, TakeTask, EndTask, TaskFails, Lock,
            EndSource, NeedString, LockString, UnlockString
<1>1. UNCHANGED <<ast_cache, arg>>
  OBVIOUS
<1>2. \A u \in Threads : pc'[u] = "construct" <=> pc[u] = "construct"
  OBVIOUS
<1>3. Outcome' = Outcome
  BY <1>1, <1>2, Zenon DEF Outcome
<1>4. Reply' = Reply
  BY DEF Reply
<1> QED
  BY <1>1, <1>3, <1>4

\* Filling in the null pointer leaves the path undecided: t is constructing.
LEMMA MissInvisible ==
    ASSUME IInv, NEW t \in Threads, Miss(t)
    PROVE  UNCHANGED <<Outcome, Reply, arg>>
<1> USE DEF IInv, Inv, TypeOK, Goto, Miss
<1>1. ASSUME NEW p \in Paths PROVE Outcome'[p] = Outcome[p]
  <2>1. CASE p = arg[t]
    <3>1. pc'[t] = "construct" /\ arg'[t] = p /\ ast_cache'[p] = "null" /\ ast_cache[p] = "absent"
      BY <2>1
    <3> QED
      BY <3>1 DEF Outcome
  <2>2. CASE p # arg[t]
    <3>1. ast_cache'[p] = ast_cache[p]
      BY <2>2
    <3>2. \A u \in Threads : pc'[u] = "construct" /\ arg'[u] = p
                             <=> pc[u] = "construct" /\ arg[u] = p
      BY <2>2
    <3> QED
      BY <3>1, <3>2 DEF Outcome
  <2> QED
    BY <2>1, <2>2
<1>2. Outcome' = Outcome
  BY <1>1 DEF Outcome
<1>3. Reply' = Reply
  BY DEF Reply
<1> QED
  BY <1>2, <1>3

\* A call of source is a request for its path.
LEMMA CallSourceAsks ==
    ASSUME IInv, NEW t \in Threads, NEW p \in Paths, CallSource(t, p)
    PROVE  Once!Ask(t, p)
<1> USE DEF IInv, Inv, TypeOK, Goto, CallSource
<1>1. ast_cache' = ast_cache
  OBVIOUS
<1>2. \A u \in Threads : \A q \in Paths :
          pc'[u] = "construct" /\ arg'[u] = q <=> pc[u] = "construct" /\ arg[u] = q
  OBVIOUS
<1>3. Outcome' = Outcome
  BY <1>1, <1>2, Zenon DEF Outcome
<1>4. Reply[t] = "free" /\ Reply' = [Reply EXCEPT ![t] = "waiting"]
  BY DEF Reply
<1> QED
  BY <1>3, <1>4 DEF Once!Ask

\* The decision about a path, as the four ways out of parse() see and leave it.
LEMMA OutcomeAtExit ==
    ASSUME IInv, NEW t \in Threads, NEW decision,
           \/ decision = "parsed" /\ (Hit(t) \/ ParseSucceeds(t))
           \/ decision = "broken" /\ (Poisoned(t) \/ ParseFails(t))
    PROVE  /\ Outcome[arg[t]] \in {"open", decision}
           /\ Outcome' = [Outcome EXCEPT ![arg[t]] = decision]
<1> USE DEF IInv, Inv, TypeOK, Goto, Abandon, Hit, ParseSucceeds, Poisoned, ParseFails
<1>1. InParse(t) /\ \A u \in Threads : u # t => ~InParse(u)
  BY DEF ParseExclusive, InParse
<1>2. \A u \in Threads : u # t => pc[u] # "construct" /\ pc'[u] # "construct"
  BY <1>1 DEF InParse
<1>3. pc'[t] # "construct"
  OBVIOUS
<1>4. Outcome[arg[t]] \in {"open", decision}
  <2>1. CASE pc[t] = "construct"
    BY <2>1 DEF Outcome, ConstructsNull
  <2>2. CASE pc[t] = "lookup"
    BY <1>2, <2>2 DEF Outcome
  <2> QED
    BY <2>1, <2>2
<1>5. Outcome'[arg[t]] = decision
  <2>1. CASE decision = "parsed"
    BY <2>1 DEF Outcome
  <2>2. CASE decision = "broken"
    <3>1. ast_cache'[arg[t]] = "null"
      BY <2>2 DEF ConstructsNull
    <3> QED
      BY <1>2, <1>3, <2>2, <3>1 DEF Outcome
  <2> QED
    BY <2>1, <2>2
<1>6. ASSUME NEW p \in Paths, p # arg[t] PROVE Outcome'[p] = Outcome[p]
  <2>1. ast_cache'[p] = ast_cache[p]
    BY <1>6
  <2>2. \A u \in Threads : ~(pc[u] = "construct" /\ arg[u] = p)
                           /\ ~(pc'[u] = "construct" /\ arg'[u] = p)
    BY <1>2, <1>3, <1>6
  <2> QED
    BY <2>1, <2>2 DEF Outcome
<1>7. /\ Outcome = [p \in Paths |-> Outcome[p]]
      /\ Outcome' = [p \in Paths |-> Outcome'[p]]
  BY Zenon DEF Outcome
<1>8. arg[t] \in Paths
  OBVIOUS
<1> HIDE DEF IInv, Inv, TypeOK, Goto, Abandon, Hit, ParseSucceeds, Poisoned, ParseFails
<1> QED
  BY <1>4, <1>5, <1>6, <1>7, <1>8

\* Every way out of parse() is an answer to the request.
LEMMA ExitAnswers ==
    ASSUME IInv, NEW t \in Threads, NEW decision,
           \/ decision = "parsed" /\ (Hit(t) \/ ParseSucceeds(t))
           \/ decision = "broken" /\ (Poisoned(t) \/ ParseFails(t))
    PROVE  Once!Answer(t, decision)
<1>1. /\ Outcome[arg[t]] \in {"open", decision}
      /\ Outcome' = [Outcome EXCEPT ![arg[t]] = decision]
  BY OutcomeAtExit
<1> USE DEF IInv, Inv, TypeOK, Goto, Abandon, Hit, ParseSucceeds, Poisoned, ParseFails
<1>2. Reply[t] = "waiting" /\ arg' = arg
  BY DEF Reply
<1>3. Reply' = [Reply EXCEPT ![t] = IF decision = "parsed" THEN "served" ELSE "free"]
  BY DEF Reply
<1> QED
  BY <1>1, <1>2, <1>3 DEF Once!Answer

\* Reading the pointer after the unlock is the use of the answer.
LEMMA InterpretUses ==
    ASSUME IInv, NEW t \in Threads, Interpret(t)
    PROVE  Once!Use(t)
<1> USE DEF IInv, Inv, TypeOK, Goto, Interpret
<1>1. UNCHANGED <<ast_cache, arg>>
  OBVIOUS
<1>2. \A u \in Threads : pc'[u] = "construct" <=> pc[u] = "construct"
  OBVIOUS
<1>3. Outcome' = Outcome
  BY <1>1, <1>2, Zenon DEF Outcome
<1>4. Outcome[arg[t]] = "parsed"
  BY DEF Outcome, NeverInterpretsNull
<1>5. Reply[t] = "served" /\ Reply' = [Reply EXCEPT ![t] = "free"]
  BY DEF Reply
<1> QED
  BY <1>1, <1>3, <1>4, <1>5 DEF Once!Use

\* Every step of the locked, two-phase cache is a step of ParseOnce or none.
THEOREM Refinement == Spec => ImplementsParseOnce
<1>1. Init => Once!Init
  <2> SUFFICES ASSUME Init PROVE Once!Init
    OBVIOUS
  <2> QED
    BY DEF Init, Outcome, Reply, Once!Init
<1>2. IInv /\ [Next]_vars => [Once!Next]_Once!onceVars
  <2> SUFFICES ASSUME IInv, [Next]_vars PROVE [Once!Next]_Once!onceVars
    OBVIOUS
  <2>1. ASSUME NEW t \in Threads, Step(t) PROVE [Once!Next]_Once!onceVars
    <3>1. CASE \/ TakeTask(t) \/ EndTask(t) \/ TaskFails(t) \/ Lock(t) \/ EndSource(t)
               \/ NeedString(t) \/ LockString(t) \/ UnlockString(t)
      BY <3>1, Invisible DEF Once!onceVars
    <3>2. CASE Miss(t)
      BY <3>2, MissInvisible DEF Once!onceVars
    <3>3. ASSUME NEW p \in Paths, CallSource(t, p) PROVE Once!Next
      BY <3>3, CallSourceAsks DEF Once!Next
    <3>4. CASE Hit(t) \/ ParseSucceeds(t)
      <4>1. Once!Answer(t, "parsed")
        BY <3>4, ExitAnswers
      <4> QED
        BY <4>1 DEF Once!Next
    <3>5. CASE Poisoned(t) \/ ParseFails(t)
      <4>1. Once!Answer(t, "broken")
        BY <3>5, ExitAnswers
      <4> QED
        BY <4>1 DEF Once!Next
    <3>6. CASE Interpret(t)
      BY <3>6, InterpretUses DEF Once!Next
    <3> QED
      BY <2>1, <3>1, <3>2, <3>3, <3>4, <3>5, <3>6 DEF Step
  <2>2. CASE UNCHANGED vars
    BY <2>2 DEF vars, Outcome, Reply, Once!onceVars
  <2> QED
    BY <2>1, <2>2 DEF Next, Finished
<1> QED
  BY <1>1, <1>2, InvariantHolds, PTL DEF Spec, ImplementsParseOnce, Once!Spec
============================================================================
