--------------------------- MODULE UnwindingProofs ---------------------------
(***************************************************************************)
(* Proofs about Unwinding for every nesting depth, any functions, files    *)
(* and counts: what frames own is given back on every way out, no AST is   *)
(* destroyed while it is walked, and $0 is lost by jumps and errors only;  *)
(* the last part shows that Unwinding implements ControlFlow.              *)
(***************************************************************************)
EXTENDS Unwinding, FiniteSetTheorems, WellFoundedInduction, TLAPS

----------------------------------------------------------------------------
(* Sets of positions.                                                      *)

LEMMA PositionsAreFinite ==
  ASSUME NEW n \in Nat, NEW S, S \subseteq 1..n
  PROVE  /\ IsFiniteSet(S)
         /\ Cardinality(S) \in Nat
         /\ Cardinality(S) <= n
<1>1. IsFiniteSet(1..n) /\ Cardinality(1..n) = n
  BY FS_Interval
<1> QED
  BY <1>1, FS_Subset, FS_CardinalityType

LEMMA FewerPositions ==
  ASSUME NEW n \in Nat, NEW T, T \subseteq 1..n, NEW S, S \subseteq T
  PROVE  /\ Cardinality(S) \in Nat
         /\ Cardinality(T) \in Nat
         /\ Cardinality(S) <= Cardinality(T)
BY PositionsAreFinite, FS_Subset, FS_CardinalityType

LEMMA OneMorePosition ==
  ASSUME NEW n \in Nat, NEW S, S \subseteq 1..n
  PROVE  Cardinality(S \cup {n + 1}) = Cardinality(S) + 1
<1>1. n + 1 \notin S
  OBVIOUS
<1> QED
  BY <1>1, PositionsAreFinite, FS_AddElement

\* The largest position of a set that has one.
LEMMA LargestOf ==
  ASSUME NEW S, NEW i \in S, S \subseteq Nat, \A j \in S : j <= i
  PROVE  Largest(S) = i
<1>1. ASSUME NEW k \in S, \A j \in S : j <= k PROVE k = i
  BY <1>1
<1> QED
  BY <1>1 DEF Largest

\* A set of positions has a largest one.
LEMMA LargestExists ==
  ASSUME NEW n \in Nat, NEW S, S \subseteq 1..n, S # {}
  PROVE  Largest(S) \in S /\ \A j \in S : j <= Largest(S)
<1> DEFINE Below == {n - i : i \in S}
<1>1. Below \subseteq Nat /\ Below # {}
  <2>1. ASSUME NEW j \in S PROVE n - j \in Nat /\ n - j \in Below
    OBVIOUS
  <2> QED
    BY <2>1
<1>2. PICK d \in Below : \A e \in Below : ~(<<e, d>> \in OpToRel(<, Nat))
  BY <1>1, NatLessThanWellFounded, WFMin
<1>3. PICK i \in S : d = n - i
  OBVIOUS
<1>4. ASSUME NEW j \in S PROVE j <= i
  <2>1. n - j \in Below
    OBVIOUS
  <2>2. ~(<<n - j, d>> \in OpToRel(<, Nat))
    BY <1>2, <2>1
  <2>3. ~(n - j < n - i)
    BY <1>1, <1>3, <2>1, <2>2 DEF OpToRel
  <2> QED
    BY <2>3
<1> QED
  BY <1>4 DEF Largest

----------------------------------------------------------------------------
(* The inductive invariant.                                                *)

\* Frames that own a temporary AST own the one of their number.
OwnersOwn ==
    \A i \in 1..Len(stack) : OwnsAst(stack[i].kind) => stack[i].ast = i

\* An AST that outlives what is added to the stack.
Alive(ast) ==
    \/ ast \in Paths
    \/ ast \in 1..Len(stack) /\ OwnsAst(stack[ast].kind)

\* A function that can be called refers to an AST that exists.
FunctionsAlive ==
    \A f \in Functions : functions[f] \in {None, Dangling} \/ Alive(functions[f])

\* Only break and continue count.
OthersCountOne ==
    exception.what \notin {"break", "continue"} => exception.count = 1

Frames ==
    /\ stack \in Seq(Frame)
    /\ Len(stack) <= MaxDepth
    /\ local_members \in 0..MaxDepth
    /\ ast_stack \in Seq(Asts)
    /\ out \in 0..MaxDepth
    /\ Balanced
    /\ OwnersOwn
    /\ WalkedAstsAlive

IInv == TypeOK /\ Frames /\ FunctionsAlive /\ OthersCountOne

----------------------------------------------------------------------------
(* What is current in the innermost frame.                                 *)

LEMMA Positions ==
  ASSUME Frames, NEW k \in 0..Len(stack)
  PROVE  /\ Scoped(k) \subseteq 1..k
         /\ Walking(k) \subseteq 1..k
         /\ Cardinality(Scoped(k)) \in Nat /\ Cardinality(Scoped(k)) <= k
         /\ Cardinality(Walking(k)) \in Nat
         /\ Cardinality(Walking(k)) <= Cardinality(Walking(Len(stack)))
<1>1. Len(stack) \in Nat
  BY DEF Frames
<1>2. Scoped(k) \subseteq 1..k /\ Walking(k) \subseteq 1..k /\ Walking(k) \subseteq Walking(Len(stack))
      /\ Walking(Len(stack)) \subseteq 1..Len(stack)
  BY <1>1 DEF Scoped, Walking
<1> QED
  BY <1>1, <1>2, PositionsAreFinite, FewerPositions

LEMMA InnermostAst ==
  ASSUME Frames
  PROVE  /\ ast_stack # <<>>
         /\ Last(ast_stack) = IF stack = <<>> THEN Script ELSE stack[Len(stack)].ast
         /\ Last(ast_stack) \in Asts
         /\ Alive(Last(ast_stack))
<1> DEFINE n == Len(stack)
<1>1. n \in Nat /\ ast_stack \in Seq(Asts)
  BY DEF Frames
<1>2. Len(ast_stack) = 1 + Cardinality(Walking(n)) /\ Cardinality(Walking(n)) \in Nat
  BY <1>1, Positions DEF Frames, Balanced
<1>3. ast_stack # <<>> /\ Last(ast_stack) = ast_stack[1 + Cardinality(Walking(n))]
      /\ Last(ast_stack) \in Asts
  BY <1>1, <1>2 DEF Last
<1>4. CASE stack = <<>>
  <2>1. Walking(n) = {}
    BY <1>4 DEF Walking
  <2>2. Last(ast_stack) = Script
    BY <1>3, <2>1, FS_EmptySet DEF Frames, Balanced
  <2> QED
    BY <1>3, <1>4, <2>2 DEF Alive, Paths
<1>5. CASE stack # <<>>
  <2>1. n \in 1..n
    BY <1>1, <1>5 DEF Frames
  <2>2. Last(ast_stack) = stack[n].ast
    BY <1>3, <2>1 DEF Frames, Balanced
  <2>3. Alive(stack[n].ast)
    BY <2>1 DEF Frames, WalkedAstsAlive, Alive
  <2> QED
    BY <1>3, <1>5, <2>2, <2>3
<1> QED
  BY <1>4, <1>5

----------------------------------------------------------------------------
(* Entering a frame.                                                       *)

LEMMA EnterKeeps ==
  ASSUME Frames,
         NEW kind \in Kinds, NEW keyword \in {"while", "until", "for", "none"},
         NEW ast \in Asts, NEW redirects \in BOOLEAN,
         zero \in Paths,
         Enter(kind, keyword, ast, redirects),
         kind = "loop" => ast = Last(ast_stack),
         IF OwnsAst(kind) THEN ast = Len(stack) + 1 ELSE Alive(ast)
  PROVE  /\ Frames'
         /\ \A a : Alive(a) => Alive(a)'
<1>0. PICK n \in Nat : n = Len(stack)
  BY DEF Frames
<1> DEFINE new == [kind |-> kind, keyword |-> keyword,
                   phase |-> IF kind = "loop" THEN "between" ELSE "body",
                   ast |-> ast, out |-> out, redirects |-> redirects,
                   original_path |-> zero]
<1>1. /\ n \in Nat /\ MaxDepth \in Nat
      /\ n + 1 <= MaxDepth
      /\ stack' = Append(stack, new)
      /\ out' = IF redirects THEN n + 1 ELSE out
      /\ local_members' = IF HasScope(kind) THEN local_members + 1 ELSE local_members
      /\ ast_stack' = IF WalksAst(kind) THEN Append(ast_stack, ast) ELSE ast_stack
  BY <1>0, BoundsAssumption DEF Enter, Frames
<1>2. new \in Frame
  BY DEF Frame, Frames
<1>3. /\ stack' \in Seq(Frame)
      /\ Len(stack') = n + 1
      /\ \A i \in 1..n : stack'[i] = stack[i]
      /\ stack'[n + 1] = new
  BY <1>0, <1>1, <1>2 DEF Frames
<1> HIDE DEF new
<1>4. /\ new.kind = kind /\ new.ast = ast /\ new.redirects = redirects /\ new.out = out
  BY DEF new
<1>5. ASSUME NEW k \in 0..n
      PROVE  /\ Scoped(k)' = Scoped(k)
             /\ Walking(k)' = Walking(k)
             /\ Opened(k)' = Opened(k)
             /\ StreamIn(k)' = StreamIn(k)
  <2>1. \A i \in 1..k : stack'[i] = stack[i]
    BY <1>1, <1>3
  <2>2. Opened(k)' = Opened(k)
    BY <2>1 DEF Opened
  <2> QED
    BY <2>1, <2>2 DEF Scoped, Walking, StreamIn
<1>6. /\ Scoped(n + 1)' = IF HasScope(kind) THEN Scoped(n) \cup {n + 1} ELSE Scoped(n)
      /\ Walking(n + 1)' = IF WalksAst(kind) THEN Walking(n) \cup {n + 1} ELSE Walking(n)
      /\ Opened(n + 1)' = IF redirects THEN Opened(n) \cup {n + 1} ELSE Opened(n)
  <2>1. 1..(n + 1) = (1..n) \cup {n + 1}
    BY <1>1
  <2> QED
    BY <2>1, <1>3, <1>4 DEF Scoped, Walking, Opened
<1>7. /\ Cardinality(Scoped(n + 1)') =
            IF HasScope(kind) THEN Cardinality(Scoped(n)) + 1 ELSE Cardinality(Scoped(n))
      /\ Cardinality(Walking(n + 1)') =
            IF WalksAst(kind) THEN Cardinality(Walking(n)) + 1 ELSE Cardinality(Walking(n))
  <2>1. Scoped(n) \subseteq 1..n /\ Walking(n) \subseteq 1..n
    BY <1>0, Positions
  <2>2. /\ Cardinality(Scoped(n) \cup {n + 1}) = Cardinality(Scoped(n)) + 1
        /\ Cardinality(Walking(n) \cup {n + 1}) = Cardinality(Walking(n)) + 1
    BY <2>1, OneMorePosition
  <2> QED
    BY <1>6, <2>2
<1>8. ast_stack \in Seq(Asts) /\ Len(ast_stack) = 1 + Cardinality(Walking(n))
      /\ Cardinality(Walking(n)) \in Nat
  BY <1>0, <1>1, Positions DEF Frames, Balanced
<1>9. /\ ast_stack' \in Seq(Asts)
      /\ Len(ast_stack') = IF WalksAst(kind) THEN Len(ast_stack) + 1 ELSE Len(ast_stack)
      /\ \A i \in 1..Len(ast_stack) : ast_stack'[i] = ast_stack[i]
      /\ ast_stack'[Len(ast_stack')] = ast
  <2>1. CASE WalksAst(kind)
    BY <1>1, <1>8, <2>1
  <2>2. CASE ~WalksAst(kind)
    BY <1>1, <1>8, <2>2 DEF WalksAst, Last
  <2> QED
    BY <2>1, <2>2
<1>10. Balanced'
  <2>1. local_members' = Cardinality(Scoped(n + 1)')
    BY <1>0, <1>1, <1>7 DEF Frames, Balanced
  <2>2. Len(ast_stack') = 1 + Cardinality(Walking(n + 1)')
    BY <1>7, <1>8, <1>9
  <2>3. ast_stack'[1] = Script
    BY <1>8, <1>9 DEF Frames, Balanced
  <2>4. ASSUME NEW i \in 1..(n + 1)
        PROVE  ast_stack'[1 + Cardinality(Walking(i)')] = stack'[i].ast
    <3>1. CASE i = n + 1
      BY <1>3, <1>4, <1>9, <2>2, <3>1
    <3>2. CASE i \in 1..n
      <4>1. Walking(i)' = Walking(i) /\ 1 + Cardinality(Walking(i)) \in 1..Len(ast_stack)
        BY <1>0, <1>1, <1>5, <1>8, <3>2, Positions
      <4>2. ast_stack[1 + Cardinality(Walking(i))] = stack[i].ast
        BY <1>0, <3>2 DEF Frames, Balanced
      <4> QED
        BY <1>3, <1>9, <3>2, <4>1, <4>2
    <3> QED
      BY <3>1, <3>2
  <2>5. out' = StreamIn(n + 1)'
    <3>1. CASE redirects
      <4>1. n + 1 \in Opened(n + 1)' /\ Opened(n + 1)' \subseteq Nat
            /\ \A j \in Opened(n + 1)' : j <= n + 1
        <5>1. Opened(n) \subseteq 1..n
          BY DEF Opened
        <5> QED
          BY <1>6, <3>1, <5>1
      <4>2. Largest(Opened(n + 1)') = n + 1
        BY <4>1, LargestOf
      <4> QED
        BY <1>1, <3>1, <4>1, <4>2 DEF StreamIn
    <3>2. CASE ~redirects
      BY <1>0, <1>1, <1>6, <3>2 DEF StreamIn, Frames, Balanced
    <3> QED
      BY <3>1, <3>2
  <2>6. ASSUME NEW i \in 1..(n + 1) PROVE stack'[i].out = StreamIn(i - 1)'
    <3>1. i - 1 \in 0..n
      BY <1>1
    <3>2. StreamIn(i - 1)' = StreamIn(i - 1)
      BY <1>5, <3>1
    <3> QED
      BY <1>0, <1>1, <1>3, <1>4, <3>2 DEF Frames, Balanced
  <2> QED
    BY <1>3, <2>1, <2>2, <2>3, <2>4, <2>5, <2>6 DEF Balanced
<1>11. \A a : Alive(a) => Alive(a)'
  BY <1>0, <1>1, <1>3 DEF Alive
<1>12. OwnersOwn'
  BY <1>0, <1>1, <1>3, <1>4 DEF OwnersOwn, Frames
<1>13. WalkedAstsAlive'
  <2> SUFFICES ASSUME NEW i \in 1..(n + 1), stack'[i].ast \notin Paths
               PROVE  stack'[i].ast \in 1..i /\ OwnsAst(stack'[stack'[i].ast].kind)
    BY <1>3 DEF WalkedAstsAlive
  <2>1. CASE i = n + 1
    BY <1>0, <1>1, <1>3, <1>4, <2>1 DEF Alive
  <2>2. CASE i \in 1..n
    BY <1>0, <1>1, <1>3, <2>2 DEF Frames, WalkedAstsAlive
  <2> QED
    BY <2>1, <2>2
<1>14. local_members' \in 0..MaxDepth
  <2>1. Scoped(n) \subseteq 1..n
    BY DEF Scoped
  <2>2. Cardinality(Scoped(n)) \in Nat /\ Cardinality(Scoped(n)) <= n
    BY <2>1, PositionsAreFinite
  <2> QED
    BY <1>0, <1>1, <2>2 DEF Frames, Balanced
<1> QED
  BY <1>1, <1>3, <1>9, <1>10, <1>11, <1>12, <1>13, <1>14 DEF Frames

----------------------------------------------------------------------------
(* Leaving a frame, and what else happens to the stack.                    *)

LEMMA LeaveKeeps ==
  ASSUME Frames, FunctionsAlive,
         functions \in [Functions -> Asts \cup {None, Dangling}],
         stack # <<>>, Leave
  PROVE  /\ Frames'
         /\ FunctionsAlive'
         /\ functions' \in [Functions -> Asts \cup {None, Dangling}]
<1>0. PICK m \in Nat : m + 1 = Len(stack)
  <2>1. Len(stack) \in Nat /\ Len(stack) # 0
    BY DEF Frames
  <2>2. Len(stack) - 1 \in Nat /\ (Len(stack) - 1) + 1 = Len(stack)
    BY <2>1
  <2> QED
    BY <2>2
<1>1. PICK top \in Frame : top = stack[m + 1]
  BY <1>0 DEF Frames
<1>2. /\ stack' = SubSeq(stack, 1, m)
      /\ out' = top.out
      /\ local_members' = IF HasScope(top.kind) THEN local_members - 1 ELSE local_members
      /\ ast_stack' = IF WalksAst(top.kind) THEN SubSeq(ast_stack, 1, Len(ast_stack) - 1)
                      ELSE ast_stack
      /\ functions' = IF OwnsAst(top.kind)
                      THEN [f \in Functions |->
                              IF functions[f] = top.ast THEN Dangling ELSE functions[f]]
                      ELSE functions
  BY <1>0, <1>1 DEF Leave, Front, Last
<1>3. /\ stack' \in Seq(Frame)
      /\ Len(stack') = m
      /\ \A i \in 1..m : stack'[i] = stack[i]
  BY <1>0, <1>2 DEF Frames
<1>4. ASSUME NEW k \in 0..m
      PROVE  /\ Scoped(k)' = Scoped(k)
             /\ Walking(k)' = Walking(k)
             /\ Opened(k)' = Opened(k)
             /\ StreamIn(k)' = StreamIn(k)
  <2>1. \A i \in 1..k : stack'[i] = stack[i]
    BY <1>3
  <2>2. Opened(k)' = Opened(k)
    BY <2>1 DEF Opened
  <2> QED
    BY <2>1, <2>2 DEF Scoped, Walking, StreamIn
<1>5. /\ Scoped(m + 1) = IF HasScope(top.kind) THEN Scoped(m) \cup {m + 1} ELSE Scoped(m)
      /\ Walking(m + 1) = IF WalksAst(top.kind) THEN Walking(m) \cup {m + 1} ELSE Walking(m)
  <2>1. 1..(m + 1) = (1..m) \cup {m + 1}
    OBVIOUS
  <2> QED
    BY <1>1, <2>1 DEF Scoped, Walking
<1>6. /\ Cardinality(Scoped(m + 1)) =
            IF HasScope(top.kind) THEN Cardinality(Scoped(m)) + 1 ELSE Cardinality(Scoped(m))
      /\ Cardinality(Walking(m + 1)) =
            IF WalksAst(top.kind) THEN Cardinality(Walking(m)) + 1 ELSE Cardinality(Walking(m))
  <2>1. Scoped(m) \subseteq 1..m /\ Walking(m) \subseteq 1..m
    BY DEF Scoped, Walking
  <2>2. /\ Cardinality(Scoped(m) \cup {m + 1}) = Cardinality(Scoped(m)) + 1
        /\ Cardinality(Walking(m) \cup {m + 1}) = Cardinality(Walking(m)) + 1
    BY <2>1, OneMorePosition
  <2> QED
    BY <1>5, <2>2
<1>7. /\ Cardinality(Scoped(m)) \in Nat
      /\ \A i \in 1..m : /\ Cardinality(Walking(i)) \in Nat
                         /\ Cardinality(Walking(i)) <= Cardinality(Walking(m))
      /\ Cardinality(Walking(m)) \in Nat
  <2>1. \A i \in 1..m : Walking(i) \subseteq Walking(m)
    BY DEF Walking
  <2>2. Scoped(m) \subseteq 1..m /\ Walking(m) \subseteq 1..m
    BY DEF Scoped, Walking
  <2> QED
    BY <2>1, <2>2, FewerPositions, PositionsAreFinite
<1>8. /\ ast_stack \in Seq(Asts)
      /\ Len(ast_stack) = 1 + Cardinality(Walking(m + 1))
      /\ ast_stack[1] = Script
      /\ \A i \in 1..(m + 1) : ast_stack[1 + Cardinality(Walking(i))] = stack[i].ast
      /\ \A i \in 1..(m + 1) : stack[i].out = StreamIn(i - 1)
      /\ local_members = Cardinality(Scoped(m + 1))
  BY <1>0 DEF Frames, Balanced
<1>9. /\ ast_stack' \in Seq(Asts)
      /\ Len(ast_stack') = 1 + Cardinality(Walking(m))
      /\ \A i \in 1..Len(ast_stack') : ast_stack'[i] = ast_stack[i]
  <2>1. CASE WalksAst(top.kind)
    <3>1. Len(ast_stack) = 2 + Cardinality(Walking(m))
      BY <1>6, <1>7, <1>8, <2>1
    <3> QED
      BY <1>2, <1>7, <1>8, <2>1, <3>1
  <2>2. CASE ~WalksAst(top.kind)
    BY <1>2, <1>6, <1>8, <2>2
  <2> QED
    BY <2>1, <2>2
<1>10. Balanced'
  <2>1. local_members' = Cardinality(Scoped(m)')
    <3>0. Cardinality(Scoped(m)') = Cardinality(Scoped(m))
      BY <1>4
    <3>1. CASE HasScope(top.kind)
      BY <1>2, <1>6, <1>7, <1>8, <3>0, <3>1
    <3>2. CASE ~HasScope(top.kind)
      BY <1>2, <1>6, <1>8, <3>0, <3>2
    <3> QED
      BY <3>1, <3>2
  <2>2. Len(ast_stack') = 1 + Cardinality(Walking(m)')
    BY <1>4, <1>9
  <2>3. ast_stack'[1] = Script
    BY <1>7, <1>8, <1>9
  <2>4. ASSUME NEW i \in 1..m
        PROVE  ast_stack'[1 + Cardinality(Walking(i)')] = stack'[i].ast
    <3>1. Walking(i)' = Walking(i) /\ 1 + Cardinality(Walking(i)) \in 1..Len(ast_stack')
      BY <1>4, <1>7, <1>9
    <3>2. ast_stack[1 + Cardinality(Walking(i))] = stack[i].ast
      BY <1>8
    <3> QED
      BY <1>3, <1>9, <3>1, <3>2
  <2>5. out' = StreamIn(m)'
    BY <1>1, <1>2, <1>4, <1>8
  <2>6. ASSUME NEW i \in 1..m PROVE stack'[i].out = StreamIn(i - 1)'
    <3>1. i - 1 \in 0..m
      OBVIOUS
    <3>2. StreamIn(i - 1)' = StreamIn(i - 1)
      BY <1>4, <3>1
    <3> QED
      BY <1>3, <1>8, <3>2
  <2> QED
    BY <1>3, <2>1, <2>2, <2>3, <2>4, <2>5, <2>6 DEF Balanced
<1>11. OwnersOwn'
  BY <1>0, <1>3 DEF OwnersOwn, Frames
<1>12. WalkedAstsAlive'
  <2> SUFFICES ASSUME NEW i \in 1..m, stack'[i].ast \notin Paths
               PROVE  stack'[i].ast \in 1..i /\ OwnsAst(stack'[stack'[i].ast].kind)
    BY <1>3 DEF WalkedAstsAlive
  <2>1. stack[i].ast \in 1..i /\ OwnsAst(stack[stack[i].ast].kind)
    BY <1>0, <1>3 DEF WalkedAstsAlive, Frames
  <2> QED
    BY <1>3, <2>1
<1>13. functions' \in [Functions -> Asts \cup {None, Dangling}]
  BY <1>2
<1>14. FunctionsAlive'
  <2> SUFFICES ASSUME NEW f \in Functions, functions'[f] \notin {None, Dangling}
               PROVE  Alive(functions[f])'
    BY DEF FunctionsAlive
  <2>1. functions'[f] = functions[f] /\ (OwnsAst(top.kind) => functions[f] # top.ast)
    BY <1>2
  <2>2. Alive(functions[f])
    BY <2>1 DEF FunctionsAlive
  <2>3. OwnsAst(top.kind) => top.ast = m + 1
    BY <1>0, <1>1 DEF Frames, OwnersOwn
  <2>4. functions[f] \in Paths \/ (functions[f] \in 1..m /\ OwnsAst(stack[functions[f]].kind))
    BY <1>0, <1>1, <2>1, <2>2, <2>3 DEF Alive
  <2> QED
    BY <1>3, <2>1, <2>4 DEF Alive
<1>15. Len(stack') <= MaxDepth
  BY <1>0, <1>3, BoundsAssumption DEF Frames
<1>16. out' \in 0..MaxDepth
  BY <1>1, <1>2 DEF Frame
<1>17. local_members' \in 0..MaxDepth
  <2>1. HasScope(top.kind) => local_members > 0
    BY <1>6, <1>7, <1>8
  <2> QED
    BY <1>2, <2>1, BoundsAssumption DEF Frames
<1> QED
  BY <1>3, <1>9, <1>10, <1>11, <1>12, <1>13, <1>14, <1>15, <1>16, <1>17 DEF Frames

\* An iteration begins or ends.
LEMMA TurnKeeps ==
  ASSUME Frames, FunctionsAlive, stack # <<>>,
         NEW p \in {"between", "body"},
         stack' = [stack EXCEPT ![Len(stack)].phase = p],
         UNCHANGED <<local_members, ast_stack, out, functions>>
  PROVE  Frames' /\ FunctionsAlive'
<1>0. PICK n \in Nat : n = Len(stack)
  BY DEF Frames
<1>1. n \in 1..n
  BY <1>0 DEF Frames
<1>2. /\ stack' \in Seq(Frame)
      /\ Len(stack') = n
  <2>1. [stack[n] EXCEPT !.phase = p] \in Frame
    <3>1. stack[n] \in Frame
      BY <1>0, <1>1 DEF Frames
    <3> QED
      BY <3>1 DEF Frame
  <2>2. stack' = [stack EXCEPT ![n] = [stack[n] EXCEPT !.phase = p]]
    BY <1>0
  <2> QED
    BY <1>0, <1>1, <2>1, <2>2 DEF Frames
<1>3. ASSUME NEW i \in 1..n
      PROVE  /\ stack'[i].kind = stack[i].kind
             /\ stack'[i].ast = stack[i].ast
             /\ stack'[i].out = stack[i].out
             /\ stack'[i].redirects = stack[i].redirects
  BY <1>0 DEF Frames, Frame
<1>4. ASSUME NEW k \in 0..n
      PROVE  /\ Scoped(k)' = Scoped(k)
             /\ Walking(k)' = Walking(k)
             /\ StreamIn(k)' = StreamIn(k)
  <2>1. Opened(k)' = Opened(k)
    BY <1>3 DEF Opened
  <2>2. Scoped(k)' = Scoped(k)
    BY <1>3 DEF Scoped
  <2>3. Walking(k)' = Walking(k)
    BY <1>3 DEF Walking
  <2> QED
    BY <2>1, <2>2, <2>3 DEF StreamIn
<1>5. Balanced'
  <2>1. /\ local_members = Cardinality(Scoped(n))
        /\ Len(ast_stack) = 1 + Cardinality(Walking(n))
        /\ ast_stack[1] = Script
        /\ \A i \in 1..n : ast_stack[1 + Cardinality(Walking(i))] = stack[i].ast
        /\ out = StreamIn(n)
        /\ \A i \in 1..n : stack[i].out = StreamIn(i - 1)
    BY <1>0 DEF Frames, Balanced
  <2>2. \A i \in 1..n : ast_stack'[1 + Cardinality(Walking(i)')] = stack'[i].ast
    BY <1>3, <1>4, <2>1
  <2>3. ASSUME NEW i \in 1..n PROVE stack'[i].out = StreamIn(i - 1)'
    <3>1. i - 1 \in 0..n
      OBVIOUS
    <3>2. StreamIn(i - 1)' = StreamIn(i - 1)
      BY <1>4, <3>1
    <3> QED
      BY <1>3, <2>1, <3>2
  <2> QED
    BY <1>2, <1>4, <2>1, <2>2, <2>3 DEF Balanced
<1>6. \A a : Alive(a) => Alive(a)'
  BY <1>0, <1>2, <1>3 DEF Alive
<1>7. OwnersOwn'
  BY <1>0, <1>2, <1>3 DEF OwnersOwn, Frames
<1>8. WalkedAstsAlive'
  <2> SUFFICES ASSUME NEW i \in 1..n, stack'[i].ast \notin Paths
               PROVE  stack'[i].ast \in 1..i /\ OwnsAst(stack'[stack'[i].ast].kind)
    BY <1>2 DEF WalkedAstsAlive
  <2>1. stack[i].ast \in 1..i /\ OwnsAst(stack[stack[i].ast].kind)
    BY <1>0, <1>3 DEF WalkedAstsAlive, Frames
  <2> QED
    BY <1>3, <2>1
<1> QED
  BY <1>0, <1>2, <1>5, <1>6, <1>7, <1>8 DEF Frames, FunctionsAlive

\* Nothing is entered or left.
LEMMA StayKeeps ==
  ASSUME Frames, UNCHANGED <<stack, local_members, ast_stack, out>>
  PROVE  /\ Frames'
         /\ \A a : Alive(a) <=> Alive(a)'
<1>1. Balanced'
  BY DEF Frames, Balanced, Scoped, Walking, StreamIn, Opened
<1> QED
  BY <1>1 DEF Frames, OwnersOwn, WalkedAstsAlive, Alive

----------------------------------------------------------------------------
(* The invariant is inductive.                                             *)

LEMMA InitIInv == Init => IInv
<1> SUFFICES ASSUME Init PROVE IInv
  OBVIOUS
<1> USE BoundsAssumption
<1>1. /\ stack = <<>> /\ Len(stack) = 0 /\ ast_stack = <<Script>> /\ out = 0
      /\ local_members = 0 /\ Script \in Asts
  BY DEF Init, Asts, Paths
<1>2. Scoped(0) = {} /\ Walking(0) = {} /\ StreamIn(0) = 0
  BY DEF Scoped, Walking, StreamIn, Opened
<1>3. Balanced
  BY <1>1, <1>2, FS_EmptySet DEF Balanced
<1>4. Frames
  BY <1>1, <1>3 DEF Frames, OwnersOwn, WalkedAstsAlive
<1>5. TypeOK
  BY <1>1 DEF TypeOK, Init, Exceptions, NoException, Statuses, Paths
<1> QED
  BY <1>4, <1>5 DEF IInv, Init, FunctionsAlive, OthersCountOne, NoException

\* The functions stay as they are.
LEMMA FunctionsStay ==
  ASSUME FunctionsAlive, UNCHANGED functions, \A a : Alive(a) => Alive(a)'
  PROVE  FunctionsAlive'
BY DEF FunctionsAlive

\* The assumption of EnterKeeps for an AST that frame Len(stack) + 1 owns.
LEMMA OwnAst ==
  ASSUME Frames, NEW kind, NEW keyword, NEW redirects, NEW ast, Enter(kind, keyword, ast, redirects)
  PROVE  Len(stack) + 1 \in Asts
BY BoundsAssumption DEF Frames, Enter, Asts

LEMMA CommandsKeep ==
  ASSUME IInv, Commands
  PROVE  IInv'
<1> USE DEF Statuses
<1>1. /\ TypeOK /\ Frames /\ FunctionsAlive /\ OthersCountOne
      /\ functions \in [Functions -> Asts \cup {None, Dangling}]
      /\ exception \in Exceptions /\ status \in Statuses /\ zero \in Paths
      /\ mode \in {"running", "ended", "escaped", "crashed"}
  BY DEF IInv, TypeOK
<1>2. ASSUME Frames', FunctionsAlive', functions' \in [Functions -> Asts \cup {None, Dangling}],
             UNCHANGED exception, status' \in Statuses, zero' \in Paths,
             mode' \in {"running", "ended", "escaped", "crashed"}
      PROVE  IInv'
  BY <1>1, <1>2 DEF IInv, TypeOK, Frames, OthersCountOne
<1>3. ASSUME NEW s \in {0, 1}, Simple(s) PROVE IInv'
  <2>1. Frames' /\ FunctionsAlive'
    BY <1>1, <1>3, StayKeeps, FunctionsStay DEF Simple
  <2> QED
    BY <1>1, <1>2, <1>3, <2>1 DEF Simple
<1>4. ASSUME NEW f \in Functions, DefineFunction(f) PROVE IInv'
  <2>1. Frames' /\ \A a : Alive(a) <=> Alive(a)'
    BY <1>1, <1>4, StayKeeps DEF DefineFunction
  <2>2. Last(ast_stack) \in Asts /\ Alive(Last(ast_stack))
    BY <1>1, InnermostAst
  <2>3. PICK defined : defined = Last(ast_stack)
    OBVIOUS
  <2>4. Alive(defined)'
    BY <2>1, <2>2, <2>3
  <2>5. \A g \in Functions : functions'[g] = functions[g] \/ functions'[g] = defined
    BY <1>1, <1>4, <2>3 DEF DefineFunction
  <2>6. FunctionsAlive'
    <3> SUFFICES ASSUME NEW g \in Functions, functions'[g] \notin {None, Dangling}
                 PROVE  \A a : a = functions'[g] => Alive(a)'
      BY DEF FunctionsAlive
    <3> QED
      BY <1>1, <2>1, <2>4, <2>5 DEF FunctionsAlive
  <2>7. functions' \in [Functions -> Asts \cup {None, Dangling}]
    BY <1>1, <1>4, <2>2 DEF DefineFunction
  <2> QED
    BY <1>1, <1>2, <1>4, <2>1, <2>6, <2>7 DEF DefineFunction
<1>5. ASSUME NEW f \in Functions, UnsetFunction(f) PROVE IInv'
  <2>1. Frames' /\ \A a : Alive(a) <=> Alive(a)'
    BY <1>1, <1>5, StayKeeps DEF UnsetFunction
  <2>2. functions' \in [Functions -> Asts \cup {None, Dangling}]
    BY <1>1, <1>5 DEF UnsetFunction
  <2>3. \A g \in Functions : functions'[g] = functions[g] \/ functions'[g] = None
    BY <1>1, <1>5 DEF UnsetFunction
  <2>4. FunctionsAlive'
    <3> SUFFICES ASSUME NEW g \in Functions, functions'[g] \notin {None, Dangling}
                 PROVE  \A a : a = functions'[g] => Alive(a)'
      BY DEF FunctionsAlive
    <3> QED
      BY <1>1, <2>1, <2>3 DEF FunctionsAlive
  <2> QED
    BY <1>1, <1>2, <1>5, <2>1, <2>2, <2>4 DEF UnsetFunction
<1>6. ASSUME NEW keyword \in Keywords, NEW redirects \in Redirections, EnterLoop(keyword, redirects)
      PROVE  IInv'
  <2>1. PICK ast \in Asts : ast = Last(ast_stack) /\ Alive(ast)
    BY <1>1, InnermostAst
  <2>2. Enter("loop", keyword, ast, redirects)
    BY <1>6, <2>1 DEF EnterLoop
  <2>3. Frames' /\ \A a : Alive(a) => Alive(a)'
    BY <1>1, <2>1, <2>2, EnterKeeps, ConstantsAssumption DEF OwnsAst, Kinds
  <2> QED
    BY <1>1, <1>2, <1>6, <2>3, FunctionsStay DEF EnterLoop
<1>7. ASSUME StartIteration \/ EndIteration PROVE IInv'
  <2>1. PICK p \in {"between", "body"} : stack' = [stack EXCEPT ![Len(stack)].phase = p]
    BY <1>7 DEF StartIteration, EndIteration
  <2>2. Frames' /\ FunctionsAlive'
    BY <1>1, <1>7, <2>1, TurnKeeps DEF StartIteration, EndIteration, InLoop
  <2> QED
    BY <1>1, <1>2, <1>7, <2>2 DEF StartIteration, EndIteration
<1>8. ASSUME LeaveLoop PROVE IInv'
  <2>1. Frames' /\ FunctionsAlive' /\ functions' \in [Functions -> Asts \cup {None, Dangling}]
    BY <1>1, <1>8, LeaveKeeps DEF LeaveLoop, InLoop
  <2> QED
    BY <1>1, <1>2, <1>8, <2>1 DEF LeaveLoop
<1>9. ASSUME NEW f \in Functions, NEW redirects \in Redirections, CallFunction(f, redirects)
      PROVE  IInv'
  <2>1. CASE functions[f] = Dangling
    <3>1. Frames' /\ FunctionsAlive'
      BY <1>1, <1>9, <2>1, StayKeeps, FunctionsStay DEF CallFunction
    <3> QED
      BY <1>1, <1>2, <1>9, <2>1, <3>1 DEF CallFunction
  <2>2. CASE functions[f] # Dangling
    <3>1. PICK ast \in Asts : ast = functions[f] /\ Alive(ast)
      BY <1>1, <1>9, <2>2 DEF CallFunction, FunctionsAlive
    <3>2. Enter("call", "none", ast, redirects)
      BY <1>9, <2>2, <3>1 DEF CallFunction
    <3>3. Frames' /\ \A a : Alive(a) => Alive(a)'
      BY <1>1, <3>1, <3>2, EnterKeeps, ConstantsAssumption DEF OwnsAst, Kinds
    <3> QED
      BY <1>1, <1>2, <1>9, <2>2, <3>3, FunctionsStay DEF CallFunction
  <2> QED
    BY <2>1, <2>2
<1>10. ASSUME NEW path \in Files, NEW redirects \in Redirections, Source(path, redirects)
       PROVE  IInv'
  <2>1. path \in Paths /\ path \in Asts /\ Alive(path)
    BY DEF Paths, Asts, Alive
  <2>2. Frames' /\ \A a : Alive(a) => Alive(a)'
    BY <1>1, <1>10, <2>1, EnterKeeps, ConstantsAssumption DEF Source, OwnsAst, Kinds
  <2> QED
    BY <1>1, <1>2, <1>10, <2>1, <2>2, FunctionsStay DEF Source
<1>11. ASSUME NEW redirects \in BOOLEAN, NEW kind \in {"eval", "substitution"},
              Enter(kind, "none", Len(stack) + 1, redirects),
              UNCHANGED <<exception, status, zero, functions, mode>>
       PROVE  IInv'
  <2>1. PICK ast \in Asts : ast = Len(stack) + 1
    BY <1>1, <1>11, OwnAst
  <2>2. Enter(kind, "none", ast, redirects)
    BY <1>11, <2>1
  <2>3. Frames' /\ \A a : Alive(a) => Alive(a)'
    BY <1>1, <2>1, <2>2, EnterKeeps DEF OwnsAst, Kinds
  <2> QED
    BY <1>1, <1>2, <1>11, <2>3, FunctionsStay
<1>12. ASSUME NEW redirects \in Redirections, Eval(redirects) PROVE IInv'
  BY <1>11, <1>12, ConstantsAssumption DEF Eval
<1>13. ASSUME Substitute PROVE IInv'
  BY <1>11, <1>13 DEF Substitute
<1>14. ASSUME NEW negated \in BOOLEAN, EndFrame(negated) PROVE IInv'
  <2>1. Frames' /\ FunctionsAlive' /\ functions' \in [Functions -> Asts \cup {None, Dangling}]
    BY <1>1, <1>14, LeaveKeeps DEF EndFrame
  <2>2. zero' \in Paths
    <3>1. Last(stack) \in Frame
      BY <1>1, <1>14 DEF EndFrame, Frames, Last
    <3>2. Last(stack).original_path \in Paths
      BY <3>1 DEF Frame
    <3> QED
      BY <1>1, <1>14, <3>2 DEF EndFrame
  <2>3. status' \in Statuses /\ UNCHANGED <<exception, mode>>
    BY <1>1, <1>14 DEF EndFrame
  <2> QED
    BY <1>1, <1>2, <2>1, <2>2, <2>3
<1>15. ASSUME EndScript PROVE IInv'
  <2>1. Frames' /\ FunctionsAlive'
    BY <1>1, <1>15, StayKeeps, FunctionsStay DEF EndScript
  <2> QED
    BY <1>1, <1>2, <1>15, <2>1 DEF EndScript
<1> QED
  BY <1>3, <1>4, <1>5, <1>6, <1>7, <1>8, <1>9, <1>10, <1>12, <1>13, <1>14, <1>15 DEF Commands

LEMMA ThrowsKeep ==
  ASSUME IInv, Throws
  PROVE  IInv'
<1>1. /\ TypeOK /\ Frames /\ FunctionsAlive /\ OthersCountOne
      /\ functions \in [Functions -> Asts \cup {None, Dangling}]
      /\ status \in Statuses /\ zero \in Paths
      /\ mode \in {"running", "ended", "escaped", "crashed"}
  BY DEF IInv, TypeOK
<1>2. ASSUME NEW what \in {"break", "continue", "return", "error"}, NEW count \in 1..MaxCount,
             what \notin {"break", "continue"} => count = 1,
             exception' = [what |-> what, count |-> count],
             UNCHANGED <<stack, local_members, ast_stack, out, functions, mode>>,
             zero' \in Paths, status' \in Statuses
      PROVE  IInv'
  <2>1. Frames' /\ FunctionsAlive'
    BY <1>1, <1>2, StayKeeps, FunctionsStay
  <2>2. exception' \in Exceptions /\ OthersCountOne'
    BY <1>2 DEF Exceptions, OthersCountOne
  <2> QED
    BY <1>1, <1>2, <2>1, <2>2 DEF IInv, TypeOK, Frames
<1>3. 1 \in 1..MaxCount
  BY BoundsAssumption
<1>4. ASSUME NEW what \in {"break", "continue"}, NEW count \in 1..MaxCount,
             BreakOrContinue(what, count)
      PROVE  IInv'
  BY <1>1, <1>2, <1>4 DEF BreakOrContinue, Throw
<1>5. ASSUME NEW s \in Statuses, Return(s) PROVE IInv'
  BY <1>1, <1>2, <1>3, <1>5 DEF Return, Throw
<1>6. ASSUME NEW s \in Statuses, Fail(s) PROVE IInv'
  BY <1>1, <1>2, <1>3, <1>6 DEF Fail, Throw
<1>7. ASSUME NEW path \in Files, SourceFails(path) PROVE IInv'
  BY <1>1, <1>2, <1>3, <1>7 DEF SourceFails, Paths
<1> QED
  BY <1>4, <1>5, <1>6, <1>7 DEF Throws

LEMMA PropagationKeeps ==
  ASSUME IInv, Propagation
  PROVE  IInv'
<1>1. /\ TypeOK /\ Frames /\ FunctionsAlive /\ OthersCountOne
      /\ functions \in [Functions -> Asts \cup {None, Dangling}]
      /\ exception \in Exceptions /\ status \in Statuses /\ zero \in Paths
      /\ mode \in {"running", "ended", "escaped", "crashed"}
  BY DEF IInv, TypeOK
<1>2. ASSUME Frames', FunctionsAlive', functions' \in [Functions -> Asts \cup {None, Dangling}],
             exception' \in Exceptions, OthersCountOne', status' \in Statuses, zero' \in Paths,
             mode' \in {"running", "ended", "escaped", "crashed"}
      PROVE  IInv'
  BY <1>2 DEF IInv, TypeOK, Frames
<1>3. ASSUME stack # <<>>, Leave
      PROVE  Frames' /\ FunctionsAlive' /\ functions' \in [Functions -> Asts \cup {None, Dangling}]
  BY <1>1, <1>3, LeaveKeeps
<1>4. NoException \in Exceptions /\ NoException.count = 1
  BY BoundsAssumption DEF NoException, Exceptions
<1>5. CASE Unwind
  BY <1>1, <1>2, <1>3, <1>5 DEF Unwind, OthersCountOne
<1>6. CASE Rethrow
  <2>1. exception' = [exception EXCEPT !.count = @ - 1] /\ exception.count # 1
    BY <1>6 DEF Rethrow
  <2>2. exception.what \in {"break", "continue"}
    BY <1>1, <2>1 DEF OthersCountOne
  <2>3. exception' \in Exceptions
    BY <1>1, <2>1, BoundsAssumption DEF Exceptions
  <2>4. exception'.what = exception.what
    BY <1>1, <2>1 DEF Exceptions
  <2> QED
    BY <1>1, <1>2, <1>3, <1>6, <2>2, <2>3, <2>4 DEF Rethrow, OthersCountOne
<1>7. CASE CatchBreak
  BY <1>1, <1>2, <1>3, <1>4, <1>7 DEF CatchBreak, OthersCountOne
<1>8. CASE CatchContinue
  <2>1. Frames' /\ FunctionsAlive'
    BY <1>1, <1>8, TurnKeeps DEF CatchContinue
  <2> QED
    BY <1>1, <1>2, <1>4, <1>8, <2>1 DEF CatchContinue, OthersCountOne
<1>9. ASSUME NEW negated \in BOOLEAN, CatchReturn(negated) PROVE IInv'
  <2>1. zero' \in Paths
    <3>1. Last(stack) \in Frame
      BY <1>1, <1>9 DEF CatchReturn, Frames, Last
    <3>2. Last(stack).original_path \in Paths
      BY <3>1 DEF Frame
    <3> QED
      BY <1>1, <1>9, <3>2 DEF CatchReturn
  <2>2. status' \in Statuses
    BY <1>1, <1>9 DEF CatchReturn, Statuses
  <2> QED
    BY <1>1, <1>2, <1>3, <1>4, <1>9, <2>1, <2>2 DEF CatchReturn, OthersCountOne
<1>10. CASE Escape
  <2>1. Frames' /\ FunctionsAlive'
    BY <1>1, <1>10, StayKeeps, FunctionsStay DEF Escape
  <2> QED
    BY <1>1, <1>2, <1>10, <2>1 DEF Escape, OthersCountOne
<1> QED
  BY <1>5, <1>6, <1>7, <1>8, <1>9, <1>10 DEF Propagation

LEMMA StepKeeps == IInv /\ [Next]_vars => IInv'
<1> SUFFICES ASSUME IInv, [Next]_vars PROVE IInv'
  OBVIOUS
<1>1. CASE UNCHANGED vars
  <2>1. /\ Frames /\ FunctionsAlive
        /\ UNCHANGED <<stack, exception, status, local_members, ast_stack, out, zero, functions, mode>>
    BY <1>1 DEF IInv, vars
  <2>2. Frames' /\ FunctionsAlive'
    BY <2>1, StayKeeps, FunctionsStay
  <2> QED
    BY <2>1, <2>2 DEF IInv, TypeOK, OthersCountOne
<1> QED
  BY <1>1, CommandsKeep, ThrowsKeep, PropagationKeeps DEF Next, Stopped

LEMMA Inductive == Spec => []IInv
BY InitIInv, StepKeeps, PTL DEF Spec

\* The variables of the walker keep their types, at any depth of nesting; in
\* particular rethrow_unless_correct_frame never counts to zero.
THEOREM TypeCorrect == Spec => []TypeOK
<1>1. IInv => TypeOK
  BY DEF IInv
<1> QED
  BY <1>1, Inductive, PTL

\* Destructors give back scopes, streams and entries of ast_stack on every way
\* out of a frame (interpreter.h local_scope, bash_ast.h create_walker).
THEOREM GivesBack == Spec => []Balanced
<1>1. IInv => Balanced
  BY DEF IInv, Frames
<1> QED
  BY <1>1, Inductive, PTL

\* No AST is destroyed while it is walked, by functions defined in temporary
\* ASTs either (eval_builtin::exec).
THEOREM WalksLiveAsts == Spec => []WalkedAstsAlive
<1>1. IInv => WalkedAstsAlive
  BY DEF IInv, Frames
<1> QED
  BY <1>1, Inductive, PTL

----------------------------------------------------------------------------
(* $0 and the file that is executed.                                       *)

LEMMA FileInIsStable ==
  ASSUME NEW k \in Nat,
         \A i \in 1..k : stack'[i].kind = stack[i].kind /\ stack'[i].ast = stack[i].ast
  PROVE  FileIn(k)' = FileIn(k)
<1>1. Sources(k)' = Sources(k)
  BY DEF Sources
<1>2. CASE Sources(k) = {}
  BY <1>1, <1>2 DEF FileIn
<1>3. CASE Sources(k) # {}
  <2>1. Sources(k) \subseteq 1..k
    BY DEF Sources
  <2>2. Largest(Sources(k)) \in Sources(k)
    BY <1>3, <2>1, LargestExists
  <2>3. PICK i \in 1..k : i = Largest(Sources(k))
    BY <2>1, <2>2
  <2>4. FileIn(k) = stack[i].ast
    BY <1>3, <2>3 DEF FileIn
  <2>5. FileIn(k)' = stack'[i].ast
    BY <1>1, <1>3, <2>3 DEF FileIn
  <2> QED
    BY <2>4, <2>5
<1> QED
  BY <1>2, <1>3

\* The innermost of k + 1 frames is the file, or does not matter; before and
\* after a step.
LEMMA FileInInnermost ==
  ASSUME NEW k \in Nat
  PROVE  /\ FileIn(k + 1) = IF stack[k + 1].kind = "source" THEN stack[k + 1].ast ELSE FileIn(k)
         /\ FileIn(k + 1)' = IF stack'[k + 1].kind = "source" THEN stack'[k + 1].ast
                             ELSE FileIn(k)'
<1>1. 1..(k + 1) = (1..k) \cup {k + 1}
  OBVIOUS
<1>2. ASSUME NEW S, k + 1 \in S, S \subseteq 1..(k + 1) PROVE Largest(S) = k + 1
  <2>1. S \subseteq Nat /\ \A j \in S : j <= k + 1
    BY <1>2
  <2> QED
    BY <1>2, <2>1, LargestOf
<1>3. ASSUME stack[k + 1].kind = "source" PROVE FileIn(k + 1) = stack[k + 1].ast
  <2>1. k + 1 \in Sources(k + 1) /\ Sources(k + 1) \subseteq 1..(k + 1)
    BY <1>3 DEF Sources
  <2> QED
    BY <1>2, <1>3, <2>1 DEF FileIn
<1>4. ASSUME stack[k + 1].kind # "source" PROVE FileIn(k + 1) = FileIn(k)
  <2>1. Sources(k + 1) = Sources(k)
    BY <1>1, <1>4 DEF Sources
  <2> QED
    BY <1>4, <2>1 DEF FileIn
<1>5. ASSUME stack'[k + 1].kind = "source" PROVE FileIn(k + 1)' = stack'[k + 1].ast
  <2>1. k + 1 \in Sources(k + 1)' /\ Sources(k + 1)' \subseteq 1..(k + 1)
    BY <1>5 DEF Sources
  <2> QED
    BY <1>2, <1>5, <2>1 DEF FileIn
<1>6. ASSUME stack'[k + 1].kind # "source" PROVE FileIn(k + 1)' = FileIn(k)'
  <2>1. Sources(k + 1)' = Sources(k)'
    BY <1>1, <1>6 DEF Sources
  <2> QED
    BY <1>6, <2>1 DEF FileIn
<1> QED
  BY <1>3, <1>4, <1>5, <1>6

\* ZeroIsFile with the number of frames as a constant.
LEMMA FileOfFrames ==
  ASSUME NEW n \in Nat
  PROVE  /\ (n = Len(stack) /\ ZeroIsFile) =>
               /\ zero = FileIn(n)
               /\ \A i \in 1..n : stack[i].kind = "source" =>
                                      stack[i].original_path = FileIn(i - 1)
         /\ (/\ n = Len(stack')
             /\ zero' = FileIn(n)'
             /\ \A i \in 1..n : stack'[i].kind = "source" =>
                                    stack'[i].original_path = FileIn(i - 1)')
            => ZeroIsFile'
BY DEF ZeroIsFile

\* The frames that two stacks share keep the $0 that they put back.
LEMMA FilesAreStable ==
  ASSUME NEW k \in Nat, \A i \in 1..k : stack'[i].kind = stack[i].kind
                                        /\ stack'[i].ast = stack[i].ast
  PROVE  \A i \in 1..(k + 1) : FileIn(i - 1)' = FileIn(i - 1)
<1> SUFFICES ASSUME NEW i \in 1..(k + 1) PROVE FileIn(i - 1)' = FileIn(i - 1)
  OBVIOUS
<1>1. PICK l \in Nat : l = i - 1 /\ l <= k
  OBVIOUS
<1>2. FileIn(l)' = FileIn(l)
  <2>1. \A h \in 1..l : h \in 1..k
    BY <1>1
  <2> QED
    BY <2>1, FileInIsStable
<1> QED
  BY <1>1, <1>2

LEMMA EnterKeepsFile ==
  ASSUME Frames, ZeroIsFile, zero \in Paths,
         NEW kind, NEW keyword, NEW ast, NEW redirects,
         Enter(kind, keyword, ast, redirects),
         zero' = IF kind = "source" THEN ast ELSE zero
  PROVE  ZeroIsFile'
<1>0. PICK n \in Nat : n = Len(stack)
  BY DEF Frames
<1>1. /\ Len(stack') = n + 1
      /\ \A i \in 1..n : stack'[i] = stack[i]
      /\ stack'[n + 1].kind = kind /\ stack'[n + 1].ast = ast
      /\ stack'[n + 1].original_path = zero
  BY <1>0 DEF Frames, Enter
<1>2. \A i \in 1..(n + 1) : FileIn(i - 1)' = FileIn(i - 1)
  BY <1>1, FilesAreStable
<1>3. FileIn(n)' = FileIn(n)
  BY <1>1, FileInIsStable
<1>4. FileIn(n + 1)' = IF kind = "source" THEN ast ELSE FileIn(n)
  BY <1>1, <1>3, FileInInnermost
<1>5. /\ zero = FileIn(n)
      /\ \A i \in 1..n : stack[i].kind = "source" => stack[i].original_path = FileIn(i - 1)
  BY <1>0, FileOfFrames
<1>6. zero' = FileIn(n + 1)'
  BY <1>4, <1>5
<1>7. ASSUME NEW i \in 1..(n + 1), stack'[i].kind = "source"
      PROVE  stack'[i].original_path = FileIn(i - 1)'
  <2>1. CASE i = n + 1
    BY <1>1, <1>2, <1>5, <2>1
  <2>2. CASE i \in 1..n
    BY <1>1, <1>2, <1>5, <1>7, <2>2
  <2> QED
    BY <2>1, <2>2
<1>8. n + 1 \in Nat
  OBVIOUS
<1> QED
  BY <1>1, <1>6, <1>7, <1>8, FileOfFrames

LEMMA LeaveKeepsFile ==
  ASSUME Frames, ZeroIsFile, stack # <<>>, Leave,
         zero' = IF Last(stack).kind = "source" THEN Last(stack).original_path ELSE zero
  PROVE  ZeroIsFile'
<1>0. PICK m \in Nat : m + 1 = Len(stack)
  <2>1. Len(stack) \in Nat /\ Len(stack) # 0
    BY DEF Frames
  <2>2. Len(stack) - 1 \in Nat /\ (Len(stack) - 1) + 1 = Len(stack)
    BY <2>1
  <2> QED
    BY <2>2
<1>1. /\ Len(stack') = m
      /\ \A i \in 1..m : stack'[i] = stack[i]
  BY <1>0 DEF Frames, Leave, Front
<1>2. \A i \in 1..(m + 1) : FileIn(i - 1)' = FileIn(i - 1)
  BY <1>1, FilesAreStable
<1>3. FileIn(m)' = FileIn(m)
  BY <1>1, FileInIsStable
<1>4. m + 1 \in Nat
  OBVIOUS
<1>5. /\ zero = FileIn(m + 1)
      /\ \A i \in 1..(m + 1) : stack[i].kind = "source" => stack[i].original_path = FileIn(i - 1)
  BY <1>0, <1>4, FileOfFrames
<1>6. zero' = FileIn(m)'
  <2>1. Last(stack) = stack[m + 1]
    BY <1>0 DEF Last
  <2>2. CASE stack[m + 1].kind = "source"
    BY <1>3, <1>5, <2>1, <2>2
  <2>3. CASE stack[m + 1].kind # "source"
    BY <1>3, <1>5, <2>1, <2>3, FileInInnermost
  <2> QED
    BY <2>2, <2>3
<1>7. ASSUME NEW i \in 1..m, stack'[i].kind = "source"
      PROVE  stack'[i].original_path = FileIn(i - 1)'
  BY <1>1, <1>2, <1>5, <1>7
<1> QED
  BY <1>1, <1>6, <1>7, FileOfFrames

\* Phases do not matter.
LEMMA TurnKeepsFile ==
  ASSUME Frames, ZeroIsFile, UNCHANGED zero, NEW p,
         \/ UNCHANGED stack
         \/ stack # <<>> /\ stack' = [stack EXCEPT ![Len(stack)].phase = p]
  PROVE  ZeroIsFile'
<1>0. PICK n \in Nat : n = Len(stack)
  BY DEF Frames
<1>1. /\ Len(stack') = n
      /\ \A i \in 1..n : /\ stack'[i].kind = stack[i].kind
                         /\ stack'[i].ast = stack[i].ast
                         /\ stack'[i].original_path = stack[i].original_path
  <2>1. CASE UNCHANGED stack
    BY <1>0, <2>1
  <2>2. CASE stack # <<>> /\ stack' = [stack EXCEPT ![Len(stack)].phase = p]
    <3>1. \A i \in 1..n : stack[i] \in Frame
      BY <1>0 DEF Frames
    <3>2. stack' = [stack EXCEPT ![n].phase = p] /\ n \in 1..n /\ Len(stack') = n
      BY <1>0, <2>2 DEF Frames
    <3> QED
      BY <1>0, <3>1, <3>2 DEF Frames, Frame
  <2> QED
    BY <2>1, <2>2
<1>2. \A i \in 1..n : FileIn(i - 1)' = FileIn(i - 1)
  <2>1. \A i \in 1..(n + 1) : FileIn(i - 1)' = FileIn(i - 1)
    BY <1>1, FilesAreStable
  <2> QED
    BY <2>1
<1>3. FileIn(n)' = FileIn(n)
  BY <1>1, FileInIsStable
<1>4. /\ zero = FileIn(n)
      /\ \A i \in 1..n : stack[i].kind = "source" => stack[i].original_path = FileIn(i - 1)
  BY <1>0, FileOfFrames
<1>5. \A i \in 1..n : stack'[i].kind = "source" => stack'[i].original_path = FileIn(i - 1)'
  BY <1>1, <1>2, <1>4
<1> QED
  BY <1>1, <1>3, <1>4, <1>5, FileOfFrames

LEMMA ZeroStep ==
  ASSUME IInv, Next, ZeroIsFile, exception'.what \notin {"break", "continue", "error"}
  PROVE  ZeroIsFile'
<1>1. Frames /\ zero \in Paths /\ OthersCountOne /\ exception \in Exceptions
  BY DEF IInv, TypeOK
<1>2. ASSUME UNCHANGED <<stack, zero>> PROVE ZeroIsFile'
  BY <1>1, <1>2, TurnKeepsFile
<1>3. ASSUME NEW kind, kind # "source", NEW keyword, NEW ast, NEW redirects,
             Enter(kind, keyword, ast, redirects), UNCHANGED zero
      PROVE  ZeroIsFile'
  BY <1>1, <1>3, EnterKeepsFile
<1>4. ASSUME stack # <<>>, Leave, Last(stack).kind # "source", UNCHANGED zero
      PROVE  ZeroIsFile'
  BY <1>1, <1>4, LeaveKeepsFile
<1>5. ASSUME Commands PROVE ZeroIsFile'
  <2>1. ASSUME NEW s \in {0, 1}, Simple(s) PROVE ZeroIsFile'
    BY <1>2, <2>1 DEF Simple
  <2>2. ASSUME NEW f \in Functions, DefineFunction(f) \/ UnsetFunction(f) PROVE ZeroIsFile'
    BY <1>2, <2>2 DEF DefineFunction, UnsetFunction
  <2>3. ASSUME NEW keyword \in Keywords, NEW redirects \in Redirections, EnterLoop(keyword, redirects)
        PROVE  ZeroIsFile'
    BY <1>3, <2>3 DEF EnterLoop
  <2>4. ASSUME NEW f \in Functions, NEW redirects \in Redirections, CallFunction(f, redirects)
        PROVE  ZeroIsFile'
    BY <1>2, <1>3, <2>4 DEF CallFunction
  <2>5. ASSUME NEW path \in Files, NEW redirects \in Redirections, Source(path, redirects)
        PROVE  ZeroIsFile'
    BY <1>1, <2>5, EnterKeepsFile DEF Source
  <2>6. ASSUME NEW redirects \in Redirections, Eval(redirects) PROVE ZeroIsFile'
    BY <1>3, <2>6 DEF Eval
  <2>7. ASSUME Substitute PROVE ZeroIsFile'
    BY <1>3, <2>7 DEF Substitute
  <2>8. ASSUME StartIteration \/ EndIteration PROVE ZeroIsFile'
    BY <1>1, <2>8, TurnKeepsFile DEF StartIteration, EndIteration, InLoop
  <2>9. ASSUME LeaveLoop PROVE ZeroIsFile'
    BY <1>4, <2>9 DEF LeaveLoop, InLoop
  <2>10. ASSUME NEW negated \in BOOLEAN, EndFrame(negated) PROVE ZeroIsFile'
    BY <1>1, <2>10, LeaveKeepsFile DEF EndFrame
  <2>11. ASSUME EndScript PROVE ZeroIsFile'
    BY <1>2, <2>11 DEF EndScript
  <2> QED
    BY <1>5, <2>1, <2>2, <2>3, <2>4, <2>5, <2>6, <2>7, <2>8, <2>9, <2>10, <2>11 DEF Commands
<1>6. ASSUME Throws PROVE ZeroIsFile'
  <2>1. ASSUME NEW what \in {"break", "continue"}, NEW count \in 1..MaxCount,
               BreakOrContinue(what, count)
        PROVE  FALSE
    BY <2>1 DEF BreakOrContinue, Throw
  <2>2. ASSUME NEW s \in Statuses, Return(s) PROVE ZeroIsFile'
    BY <1>2, <2>2 DEF Return, Throw
  <2>3. ASSUME NEW s \in Statuses, Fail(s) PROVE FALSE
    BY <2>3 DEF Fail, Throw
  <2>4. ASSUME NEW path \in Files, SourceFails(path) PROVE FALSE
    BY <2>4 DEF SourceFails
  <2> QED
    BY <1>6, <2>1, <2>2, <2>3, <2>4 DEF Throws
<1>7. ASSUME Propagation PROVE ZeroIsFile'
  <2>1. CASE Unwind
    <3>1. UNCHANGED exception /\ exception # NoException /\ ~Handles(Last(stack))
      BY <2>1 DEF Unwind, Raised
    <3>2. exception.what = "return"
      <4>1. exception.what = "none" => exception = NoException
        BY <1>1 DEF Exceptions, OthersCountOne, NoException
      <4> QED
        BY <1>1, <3>1, <4>1 DEF Exceptions
    <3>3. Last(stack).kind # "source"
      BY <3>1, <3>2 DEF Handles, HasScope
    <3> QED
      BY <1>4, <2>1, <3>3 DEF Unwind
  <2>2. CASE Rethrow
    <3>1. exception.what \in {"break", "continue"}
      BY <1>1, <2>2 DEF Rethrow, OthersCountOne
    <3>2. exception'.what = exception.what
      BY <1>1, <2>2 DEF Rethrow, Exceptions
    <3> QED
      BY <3>1, <3>2
  <2>3. CASE CatchBreak
    <3>1. Last(stack).kind = "loop"
      BY <2>3 DEF CatchBreak, Handles
    <3> QED
      BY <1>4, <2>3, <3>1 DEF CatchBreak
  <2>4. CASE CatchContinue
    BY <1>1, <2>4, TurnKeepsFile DEF CatchContinue
  <2>5. ASSUME NEW negated \in BOOLEAN, CatchReturn(negated) PROVE ZeroIsFile'
    BY <1>1, <2>5, LeaveKeepsFile DEF CatchReturn
  <2>6. CASE Escape
    BY <1>2, <2>6 DEF Escape
  <2> QED
    BY <1>7, <2>1, <2>2, <2>3, <2>4, <2>5, <2>6 DEF Propagation
<1> QED
  BY <1>2, <1>5, <1>6, <1>7 DEF Next, Stopped, vars

\* $0 stops being the file that is executed only while break, continue or an
\* error passes through a source command (source_builtin::exec).
THEOREM ZeroIsLostByJumps == Spec => ZeroLostByJumpsOnly
<1>1. IInv /\ [Next]_vars =>
          [(ZeroIsFile /\ ~ZeroIsFile') => exception'.what \in {"break", "continue", "error"}]_vars
  BY ZeroStep
<1> QED
  BY <1>1, Inductive, PTL DEF Spec, ZeroLostByJumpsOnly

----------------------------------------------------------------------------
(* Unwinding implements ControlFlow: exceptions that leave the frames one  *)
(* at a time, with handlers that count, are jumps, for every nesting depth *)
(* and every count.                                                        *)

(* The loops around a construct.                                           *)

IsBody(c) == c.kind = "loop" /\ c.phase = "body"

\* The loops from position i on.
Inside(n, i) == {j \in Bodies(n) : j >= i}

LEMMA BodiesAreFinite ==
  ASSUME NEW n \in Seq(Construct), NEW i \in Nat
  PROVE  /\ Bodies(n) \subseteq 1..Len(n) /\ Inside(n, i) \subseteq 1..Len(n)
         /\ Cardinality(Bodies(n)) \in Nat /\ Cardinality(Inside(n, i)) \in Nat
<1>1. Bodies(n) \subseteq 1..Len(n) /\ Inside(n, i) \subseteq 1..Len(n) /\ Len(n) \in Nat
  BY DEF Bodies, Inside
<1> QED
  BY <1>1, PositionsAreFinite

\* There is a count-th loop as long as there are count loops.
LEMMA LoopExists ==
  ASSUME NEW n \in Seq(Construct), NEW count \in Nat \ {0}, HasLoop(n, count)
  PROVE  /\ LoopsAt(n, count) # {}
         /\ Loop(n, count) \in Bodies(n)
         /\ Loop(n, count) \in 1..Len(n)
<1> DEFINE T == {i \in 1..Len(n) : Cardinality(Inside(n, i)) >= count}
<1>1. Len(n) \in Nat /\ Bodies(n) \subseteq 1..Len(n) /\ Cardinality(Bodies(n)) >= count
  BY BodiesAreFinite DEF HasLoop
<1>2. T # {}
  <2>1. Bodies(n) # {}
    BY <1>1, FS_EmptySet
  <2>2. 1 \in 1..Len(n)
    BY <1>1, <2>1
  <2>3. Inside(n, 1) = Bodies(n)
    BY <1>1 DEF Inside
  <2> QED
    BY <1>1, <2>2, <2>3
<1>3. PICK i \in T : \A j \in T : j <= i
  <2>1. T \subseteq 1..Len(n)
    OBVIOUS
  <2> QED
    BY <1>1, <1>2, <2>1, LargestExists
<1>4. /\ Cardinality(Inside(n, i)) \in Nat /\ Cardinality(Inside(n, i)) >= count
      /\ Cardinality(Inside(n, i + 1)) \in Nat
  <2>1. i \in Nat /\ i + 1 \in Nat
    BY <1>1
  <2> QED
    BY <2>1, BodiesAreFinite
<1>5. Cardinality(Inside(n, i + 1)) < count
  <2>1. CASE i = Len(n)
    <3>1. Inside(n, i + 1) = {}
      BY <1>1, <2>1 DEF Inside
    <3>2. Cardinality(Inside(n, i + 1)) = 0
      BY <3>1, FS_EmptySet, Zenon
    <3> QED
      BY <3>2
  <2>2. CASE i # Len(n)
    <3>1. i + 1 \in 1..Len(n) /\ ~(i + 1 <= i)
      BY <1>1, <2>2
    <3>2. i + 1 \notin T
      BY <1>3, <3>1
    <3> QED
      BY <1>4, <3>1, <3>2
  <2> QED
    BY <2>1, <2>2
<1>6. i \in Bodies(n)
  <2>1. CASE i \notin Bodies(n)
    <3>1. Inside(n, i) = Inside(n, i + 1)
      BY <1>1, <2>1 DEF Inside
    <3> QED
      BY <1>4, <1>5, <3>1
  <2> QED
    BY <2>1
<1>7. Cardinality(Inside(n, i)) = Cardinality(Inside(n, i + 1)) + 1
  <2>1. Inside(n, i) = Inside(n, i + 1) \cup {i} /\ i \notin Inside(n, i + 1)
    BY <1>1, <1>6 DEF Inside
  <2>2. IsFiniteSet(Inside(n, i + 1))
    BY <1>1, BodiesAreFinite, PositionsAreFinite
  <2> QED
    BY <2>1, <2>2, FS_AddElement
<1>8. i \in LoopsAt(n, count)
  BY <1>4, <1>5, <1>6, <1>7 DEF LoopsAt, Inside
<1>9. Loop(n, count) \in LoopsAt(n, count)
  BY <1>8 DEF Loop
<1> QED
  BY <1>1, <1>8, <1>9 DEF LoopsAt

----------------------------------------------------------------------------
(* One more construct.                                                     *)

LEMMA BodiesOfAppend ==
  ASSUME NEW m \in Seq(Construct), NEW c \in Construct
  PROVE  /\ Len(Append(m, c)) = Len(m) + 1
         /\ Bodies(Append(m, c)) = IF IsBody(c) THEN Bodies(m) \cup {Len(m) + 1} ELSE Bodies(m)
         /\ Returnable(Append(m, c)) = IF HasScope(c.kind) THEN Returnable(m) \cup {Len(m) + 1}
                                       ELSE Returnable(m)
<1>1. PICK n \in Seq(Construct) : n = Append(m, c)
  <2>1. Append(m, c) \in Seq(Construct)
    OBVIOUS
  <2> QED
    BY <2>1
<1>2. /\ Len(n) = Len(m) + 1 /\ Len(m) \in Nat
      /\ \A i \in 1..Len(m) : n[i] = m[i]
      /\ n[Len(m) + 1] = c
  BY <1>1
<1>3. 1..(Len(m) + 1) = (1..Len(m)) \cup {Len(m) + 1}
  BY <1>2
<1>4. Bodies(n) = IF IsBody(c) THEN Bodies(m) \cup {Len(m) + 1} ELSE Bodies(m)
  BY <1>2, <1>3 DEF Bodies, IsBody
<1>5. Returnable(n) = IF HasScope(c.kind) THEN Returnable(m) \cup {Len(m) + 1} ELSE Returnable(m)
  BY <1>2, <1>3 DEF Returnable, HasScope
<1> QED
  BY <1>1, <1>2, <1>4, <1>5

LEMMA PrefixOfAppend ==
  ASSUME NEW m \in Seq(Construct), NEW c \in Construct
  PROVE  /\ \A l \in 0..Len(m) : SubSeq(Append(m, c), 1, l) = SubSeq(m, 1, l)
         /\ SubSeq(Append(m, c), 1, Len(m)) = m
         /\ SubSeq(Append(m, c), 1, Len(m) + 1) = Append(m, c)
<1>1. ASSUME NEW l \in 0..Len(m) PROVE SubSeq(Append(m, c), 1, l) = SubSeq(m, 1, l)
  BY <1>1
<1> QED
  BY <1>1

\* A loop in its body is the first of the loops to leave.
LEMMA LoopsOfAppend ==
  ASSUME NEW m \in Seq(Construct), NEW c \in Construct, IsBody(c), NEW count \in Nat \ {0}
  PROVE  /\ HasLoop(Append(m, c), 1)
         /\ Loop(Append(m, c), 1) = Len(m) + 1
         /\ count # 1 => /\ HasLoop(Append(m, c), count) <=> HasLoop(m, count - 1)
                         /\ Loop(Append(m, c), count) = Loop(m, count - 1)
<1>1. PICK n \in Seq(Construct) : n = Append(m, c)
  <2>1. Append(m, c) \in Seq(Construct)
    OBVIOUS
  <2> QED
    BY <2>1
<1>2. PICK l \in Nat : l = Len(m)
  OBVIOUS
<1>3. /\ Len(n) = l + 1 /\ Bodies(n) = Bodies(m) \cup {l + 1} /\ Bodies(m) \subseteq 1..l
      /\ Cardinality(Bodies(m)) \in Nat
  BY <1>1, <1>2, BodiesOfAppend, BodiesAreFinite
<1>4. Cardinality(Bodies(n)) = Cardinality(Bodies(m)) + 1
  BY <1>3, OneMorePosition
<1>5. ASSUME NEW i \in Bodies(m)
      PROVE  /\ Cardinality(Inside(n, i)) = Cardinality(Inside(m, i)) + 1
             /\ Cardinality(Inside(m, i)) \in Nat \ {0}
  <2>1. i \in 1..l /\ Inside(m, i) \subseteq 1..l /\ i \in Inside(m, i)
    BY <1>3 DEF Inside
  <2>2. Inside(n, i) = Inside(m, i) \cup {l + 1}
    BY <1>3, <2>1 DEF Inside
  <2>3. Cardinality(Inside(m, i)) # 0
    BY <2>1, PositionsAreFinite, FS_EmptySet
  <2> QED
    BY <2>1, <2>2, <2>3, OneMorePosition, PositionsAreFinite
<1>6. Cardinality(Inside(n, l + 1)) = 1
  <2>1. Inside(n, l + 1) = {l + 1}
    BY <1>3 DEF Inside
  <2> QED
    BY <2>1, FS_Singleton
<1>7. LoopsAt(n, 1) = {l + 1}
  <2>1. \A i \in Bodies(m) : Cardinality(Inside(n, i)) # 1
    BY <1>5
  <2> QED
    BY <1>3, <1>6, <2>1 DEF LoopsAt, Inside
<1>8. ASSUME count # 1 PROVE LoopsAt(n, count) = LoopsAt(m, count - 1)
  <2>1. LoopsAt(n, count) = {i \in Bodies(n) : Cardinality(Inside(n, i)) = count}
    BY DEF LoopsAt, Inside
  <2>2. LoopsAt(m, count - 1) = {i \in Bodies(m) : Cardinality(Inside(m, i)) = count - 1}
    BY DEF LoopsAt, Inside
  <2>3. \A i \in Bodies(m) : Cardinality(Inside(n, i)) = count
                              <=> Cardinality(Inside(m, i)) = count - 1
    BY <1>5
  <2> QED
    BY <1>3, <1>6, <1>8, <2>1, <2>2, <2>3
<1> QED
  BY <1>1, <1>2, <1>3, <1>4, <1>7, <1>8 DEF Loop, HasLoop

\* Other constructs do not count.
LEMMA LoopsPastAppend ==
  ASSUME NEW m \in Seq(Construct), NEW c \in Construct, ~IsBody(c), NEW count
  PROVE  /\ HasLoop(Append(m, c), count) <=> HasLoop(m, count)
         /\ Loop(Append(m, c), count) = Loop(m, count)
<1>1. Bodies(Append(m, c)) = Bodies(m)
  BY BodiesOfAppend
<1> QED
  BY <1>1 DEF Loop, LoopsAt, HasLoop

----------------------------------------------------------------------------
(* A jump that passes, or ends at, the innermost construct.                *)

Jumps == {"break", "continue", "return", "error"}

\* A construct that handles the exception: Handles, of a frame.
Stops(c, what) ==
    \/ IsBody(c) /\ what \in {"break", "continue"}
    \/ HasScope(c.kind) /\ what = "return"

LEMMA InnermostReturnableIs ==
  ASSUME NEW m \in Seq(Construct), NEW c \in Construct
  PROVE  /\ HasScope(c.kind) => InnermostReturnable(Append(m, c)) = Len(m) + 1
         /\ ~HasScope(c.kind) => InnermostReturnable(Append(m, c)) = InnermostReturnable(m)
         /\ Returnable(m) # {} => InnermostReturnable(m) \in 1..Len(m)
<1>1. Len(m) \in Nat /\ Returnable(m) \subseteq 1..Len(m)
  BY DEF Returnable
<1>2. ASSUME HasScope(c.kind) PROVE InnermostReturnable(Append(m, c)) = Len(m) + 1
  <2>1. PICK S : S = Returnable(m) \cup {Len(m) + 1}
    OBVIOUS
  <2>2. Len(m) + 1 \in S /\ S \subseteq Nat /\ \A j \in S : j <= Len(m) + 1
    BY <1>1, <2>1
  <2>3. Returnable(Append(m, c)) = S
    BY <1>2, <2>1, BodiesOfAppend
  <2> QED
    BY <2>2, <2>3, LargestOf DEF InnermostReturnable
<1>3. ASSUME ~HasScope(c.kind)
      PROVE  InnermostReturnable(Append(m, c)) = InnermostReturnable(m)
  BY <1>3, BodiesOfAppend DEF InnermostReturnable
<1>4. ASSUME Returnable(m) # {} PROVE InnermostReturnable(m) \in 1..Len(m)
  BY <1>1, <1>4, LargestExists DEF InnermostReturnable
<1> QED
  BY <1>2, <1>3, <1>4

\* The two parts of Leaves that depend on a position.
LEMMA LeavesAt ==
  ASSUME NEW m \in Seq(Construct), NEW c \in Construct, NEW l \in 1..Len(m)
  PROVE  /\ SubSeq(Append(m, c), 1, l - 1) = SubSeq(m, 1, l - 1)
         /\ SubSeq(Append(m, c), 1, l) = SubSeq(m, 1, l)
<1>1. l \in 0..Len(m) /\ l - 1 \in 0..Len(m)
  OBVIOUS
<1> QED
  BY <1>1, PrefixOfAppend

\* What does not stop a jump does not matter to it.
LEMMA JumpPasses ==
  ASSUME NEW m \in Seq(Construct), NEW c \in Construct,
         NEW what \in Jumps, NEW count \in Nat \ {0}, ~Stops(c, what)
  PROVE  /\ Leaves(Append(m, c), what, count) = Leaves(m, what, count)
         /\ Catches(Append(m, c), what, count) <=> Catches(m, what, count)
<1>1. CASE what \in {"break", "continue"}
  <2>1. ~IsBody(c)
    BY <1>1 DEF Stops
  <2>2. /\ HasLoop(Append(m, c), count) <=> HasLoop(m, count)
        /\ Loop(Append(m, c), count) = Loop(m, count)
    BY <2>1, LoopsPastAppend
  <2>3. CASE HasLoop(m, count)
    <3>1. PICK l \in 1..Len(m) : l = Loop(m, count)
      BY <2>3, LoopExists
    <3>2. /\ SubSeq(Append(m, c), 1, l - 1) = SubSeq(m, 1, l - 1)
          /\ SubSeq(Append(m, c), 1, l) = SubSeq(m, 1, l)
      BY LeavesAt
    <3> QED
      BY <1>1, <2>2, <2>3, <3>1, <3>2 DEF Leaves, Catches
  <2>4. CASE ~HasLoop(m, count)
    BY <1>1, <2>2, <2>4 DEF Leaves, Catches
  <2> QED
    BY <2>3, <2>4
<1>2. CASE what = "return"
  <2>1. ~HasScope(c.kind)
    BY <1>2 DEF Stops
  <2>2. Returnable(Append(m, c)) = Returnable(m)
    BY <2>1, BodiesOfAppend
  <2>3. CASE Returnable(m) # {}
    <3>1. PICK l \in 1..Len(m) : l = InnermostReturnable(m) /\ l = InnermostReturnable(Append(m, c))
      BY <2>1, <2>3, InnermostReturnableIs
    <3>2. SubSeq(Append(m, c), 1, l - 1) = SubSeq(m, 1, l - 1)
      BY LeavesAt
    <3> QED
      BY <1>2, <2>2, <2>3, <3>1, <3>2 DEF Leaves, Catches
  <2>4. CASE Returnable(m) = {}
    BY <1>2, <2>2, <2>4 DEF Leaves, Catches
  <2> QED
    BY <2>3, <2>4
<1>3. CASE what = "error"
  BY <1>3 DEF Leaves, Catches
<1> QED
  BY <1>1, <1>2, <1>3 DEF Jumps

\* A loop that is left counts for one.
LEMMA JumpCounts ==
  ASSUME NEW m \in Seq(Construct), NEW c \in Construct, IsBody(c),
         NEW what \in {"break", "continue"}, NEW count \in Nat \ {0}, count # 1
  PROVE  /\ Leaves(Append(m, c), what, count) = Leaves(m, what, count - 1)
         /\ Catches(Append(m, c), what, count) <=> Catches(m, what, count - 1)
<1>1. /\ HasLoop(Append(m, c), count) <=> HasLoop(m, count - 1)
      /\ Loop(Append(m, c), count) = Loop(m, count - 1)
  BY LoopsOfAppend
<1>2. CASE HasLoop(m, count - 1)
  <2>1. count - 1 \in Nat \ {0}
    OBVIOUS
  <2>2. PICK l \in 1..Len(m) : l = Loop(m, count - 1)
    BY <1>2, <2>1, LoopExists
  <2>3. /\ SubSeq(Append(m, c), 1, l - 1) = SubSeq(m, 1, l - 1)
        /\ SubSeq(Append(m, c), 1, l) = SubSeq(m, 1, l)
    BY LeavesAt
  <2> QED
    BY <1>1, <1>2, <2>2, <2>3 DEF Leaves, Catches
<1>3. CASE ~HasLoop(m, count - 1)
  BY <1>1, <1>3 DEF Leaves, Catches
<1> QED
  BY <1>2, <1>3

\* The phase of the last construct changes: d is c with another phase.
LEMMA PhaseOfAppend ==
  ASSUME NEW m \in Seq(Construct), NEW c \in Construct, NEW d \in Construct, d.kind = c.kind
  PROVE  [Append(m, c) EXCEPT ![Len(m) + 1].phase = d.phase] = Append(m, d)
<1>1. [c EXCEPT !.phase = d.phase] = d
  BY DEF Construct
<1>2. PICK n \in Seq(Construct) : n = Append(m, c)
  <2>1. Append(m, c) \in Seq(Construct)
    OBVIOUS
  <2> QED
    BY <2>1
<1>3. PICK q \in Seq(Construct) : q = Append(m, d)
  <2>1. Append(m, d) \in Seq(Construct)
    OBVIOUS
  <2> QED
    BY <2>1
<1>4. /\ Len(n) = Len(m) + 1 /\ Len(q) = Len(m) + 1
      /\ n[Len(m) + 1] = c /\ q[Len(m) + 1] = d
      /\ \A i \in 1..Len(m) : n[i] = m[i] /\ q[i] = m[i]
  BY <1>2, <1>3
<1>5. [n EXCEPT ![Len(m) + 1] = d] = q
  BY <1>4
<1>6. [n EXCEPT ![Len(m) + 1].phase = d.phase]
        = [n EXCEPT ![Len(m) + 1] = [n[Len(m) + 1] EXCEPT !.phase = d.phase]]
  OBVIOUS
<1>7. [n EXCEPT ![Len(m) + 1].phase = d.phase] = q
  BY <1>1, <1>4, <1>5, <1>6, Zenon
<1> QED
  BY <1>2, <1>3, <1>7, Zenon

\* A jump that ends at the innermost construct.
LEMMA JumpEnds ==
  ASSUME NEW m \in Seq(Construct), NEW c \in Construct, NEW what \in Jumps, Stops(c, what),
         NEW d \in Construct, d.kind = c.kind, d.phase = "between"
  PROVE  /\ Catches(Append(m, c), what, 1)
         /\ Leaves(Append(m, c), what, 1) = IF what = "continue" THEN Append(m, d) ELSE m
<1>1. Len(m) \in Nat /\ Len(m) + 1 - 1 = Len(m)
  OBVIOUS
<1>2. CASE what = "return"
  <2>1. HasScope(c.kind)
    BY <1>2 DEF Stops
  <2>2. Returnable(Append(m, c)) # {} /\ InnermostReturnable(Append(m, c)) = Len(m) + 1
    BY <2>1, BodiesOfAppend, InnermostReturnableIs
  <2> QED
    BY <1>1, <1>2, <2>2, PrefixOfAppend DEF Leaves, Catches
<1>3. CASE what \in {"break", "continue"}
  <2>1. IsBody(c)
    BY <1>3 DEF Stops
  <2>2. HasLoop(Append(m, c), 1) /\ Loop(Append(m, c), 1) = Len(m) + 1
    BY <2>1, LoopsOfAppend
  <2>3. CASE what = "break"
    BY <1>1, <2>2, <2>3, PrefixOfAppend DEF Leaves, Catches
  <2>4. CASE what = "continue"
    <3>1. Leaves(Append(m, c), what, 1) = [Append(m, c) EXCEPT ![Len(m) + 1].phase = "between"]
      BY <2>2, <2>4, PrefixOfAppend DEF Leaves
    <3>2. [Append(m, c) EXCEPT ![Len(m) + 1].phase = d.phase] = Append(m, d)
      BY PhaseOfAppend, Zenon
    <3>3. Catches(Append(m, c), what, 1)
      BY <2>2, <2>4 DEF Catches
    <3> QED
      BY <2>4, <3>1, <3>2, <3>3, Zenon
  <2> QED
    BY <1>3, <2>3, <2>4
<1> QED
  BY <1>2, <1>3 DEF Stops

\* Nothing is left of nothing.
LEMMA JumpFromNothing ==
  ASSUME NEW what \in Jumps, NEW count \in Nat \ {0}
  PROVE  Leaves(<<>>, what, count) = <<>> /\ ~Catches(<<>>, what, count)
<1>1. Bodies(<<>>) = {} /\ Returnable(<<>>) = {}
  BY DEF Bodies, Returnable
<1>2. ~HasLoop(<<>>, count)
  <2>1. Cardinality(Bodies(<<>>)) = 0
    BY <1>1, FS_EmptySet, Zenon
  <2> QED
    BY <2>1 DEF HasLoop
<1> QED
  BY <1>1, <1>2 DEF Leaves, Catches, Jumps

----------------------------------------------------------------------------
(* The refinement.                                                         *)

\* What an exception of the walker is.
LEMMA Exception ==
  ASSUME IInv
  PROVE  /\ exception.count \in Nat \ {0}
         /\ exception # NoException => exception.what \in Jumps
         /\ Raised => exception.what \in Jumps
  BY BoundsAssumption DEF IInv, TypeOK, Exceptions, OthersCountOne, NoException, Jumps, Raised

LEMMA SameConstruct ==
  ASSUME NEW c \in Construct, NEW d \in Construct, c.kind = d.kind, c.phase = d.phase
  PROVE  c = d
BY DEF Construct

LEMMA SameNest ==
  ASSUME NEW s \in Seq(Construct), NEW t \in Seq(Construct), Len(s) = Len(t),
         \A i \in 1..Len(s) : s[i].kind = t[i].kind /\ s[i].phase = t[i].phase
  PROVE  s = t
<1>1. ASSUME NEW i \in 1..Len(s) PROVE s[i] = t[i]
  <2>1. s[i] \in Construct /\ t[i] \in Construct
    OBVIOUS
  <2> QED
    BY <2>1, SameConstruct
<1> QED
  BY <1>1

\* Shape has what its definition says.
LEMMA ShapeIs ==
  ASSUME NEW n \in Nat, NEW frames \in Seq(Frame), n = Len(frames),
         NEW nest, nest = [i \in 1..n |-> [kind |-> frames[i].kind, phase |-> frames[i].phase]]
  PROVE  /\ nest \in Seq(Construct)
         /\ Len(nest) = n
         /\ \A i \in 1..n : nest[i].kind = frames[i].kind /\ nest[i].phase = frames[i].phase
<1>1. ASSUME NEW i \in 1..n
      PROVE  [kind |-> frames[i].kind, phase |-> frames[i].phase] \in Construct
  <2>1. PICK frame \in Frame : frame = frames[i]
    OBVIOUS
  <2>2. frame.kind \in Kinds /\ frame.phase \in {"between", "body"}
    BY DEF Frame
  <2> QED
    BY <2>1, <2>2 DEF Construct
<1>2. nest \in Seq(Construct) /\ Len(nest) = n
  BY <1>1
<1> QED
  BY <1>2

LEMMA ShapesAre ==
  ASSUME Frames, Frames', NEW n \in Nat, n = Len(stack), NEW k \in Nat, k = Len(stack')
  PROVE  /\ Shape \in Seq(Construct) /\ Len(Shape) = n
         /\ Shape' \in Seq(Construct) /\ Len(Shape') = k
         /\ \A i \in 1..n : Shape[i].kind = stack[i].kind /\ Shape[i].phase = stack[i].phase
         /\ \A i \in 1..k : Shape'[i].kind = stack'[i].kind /\ Shape'[i].phase = stack'[i].phase
<1>1. stack \in Seq(Frame) /\ stack' \in Seq(Frame)
  BY DEF Frames
<1>2. Shape = [i \in 1..n |-> [kind |-> stack[i].kind, phase |-> stack[i].phase]]
  BY DEF Shape
<1>3. Shape' = [i \in 1..k |-> [kind |-> stack'[i].kind, phase |-> stack'[i].phase]]
  BY DEF Shape
<1> QED
  BY <1>1, <1>2, <1>3, ShapeIs

LEMMA ShapeOfEnter ==
  ASSUME Frames, Frames', NEW kind \in Kinds, NEW keyword, NEW ast, NEW redirects,
         Enter(kind, keyword, ast, redirects)
  PROVE  Shape' = Append(Shape, [kind |-> kind,
                                 phase |-> IF kind = "loop" THEN "between" ELSE "body"])
<1>0. PICK n \in Nat : n = Len(stack)
  BY DEF Frames
<1>1. /\ Len(stack') = n + 1
      /\ \A i \in 1..n : stack'[i] = stack[i]
      /\ stack'[n + 1].kind = kind
      /\ stack'[n + 1].phase = IF kind = "loop" THEN "between" ELSE "body"
  BY <1>0 DEF Frames, Enter
<1>2. PICK s \in Seq(Construct) :
          /\ s = Shape /\ Len(s) = n
          /\ \A i \in 1..n : s[i].kind = stack[i].kind /\ s[i].phase = stack[i].phase
  BY <1>0, <1>1, ShapesAre
<1>3. PICK t \in Seq(Construct) :
          /\ t = Shape' /\ Len(t) = n + 1
          /\ \A i \in 1..(n + 1) : t[i].kind = stack'[i].kind /\ t[i].phase = stack'[i].phase
  BY <1>0, <1>1, ShapesAre
<1>4. PICK e \in Construct : e = [kind |-> kind, phase |-> IF kind = "loop" THEN "between" ELSE "body"]
  <2>1. [kind |-> kind, phase |-> IF kind = "loop" THEN "between" ELSE "body"] \in Construct
    BY DEF Construct
  <2> QED
    BY <2>1
<1>5. PICK u \in Seq(Construct) : u = Append(s, e)
  <2>1. Append(s, e) \in Seq(Construct)
    OBVIOUS
  <2> QED
    BY <2>1
<1>6. Len(u) = n + 1 /\ u[n + 1] = e /\ \A i \in 1..n : u[i] = s[i]
  BY <1>2, <1>5
<1>7. \A i \in 1..(n + 1) : t[i].kind = u[i].kind /\ t[i].phase = u[i].phase
  <2>1. \A i \in 1..(n + 1) : i \in 1..n \/ i = n + 1
    OBVIOUS
  <2>2. ASSUME NEW i \in 1..n PROVE t[i].kind = u[i].kind /\ t[i].phase = u[i].phase
    <3>1. i \in 1..(n + 1)
      OBVIOUS
    <3>2. stack'[i] = stack[i] /\ u[i] = s[i]
      BY <1>1, <1>6
    <3>3. s[i].kind = stack[i].kind /\ s[i].phase = stack[i].phase
      BY <1>2
    <3>4. t[i].kind = stack'[i].kind /\ t[i].phase = stack'[i].phase
      BY <1>3, <3>1
    <3> QED
      BY <3>2, <3>3, <3>4
  <2>3. t[n + 1].kind = u[n + 1].kind /\ t[n + 1].phase = u[n + 1].phase
    <3>1. n + 1 \in 1..(n + 1)
      OBVIOUS
    <3>2. t[n + 1].kind = kind /\ e.kind = kind
      BY <1>1, <1>3, <1>4, <3>1
    <3>3. t[n + 1].phase = e.phase
      BY <1>1, <1>3, <1>4, <3>1
    <3> QED
      BY <1>6, <3>2, <3>3
  <2> QED
    BY <2>1, <2>2, <2>3
<1>8. t = u
  BY <1>3, <1>6, <1>7, SameNest
<1> QED
  BY <1>2, <1>3, <1>4, <1>5, <1>8

\* Leaving a frame takes the last construct away.
LEMMA ShapeOfLeave ==
  ASSUME Frames, Frames', stack # <<>>, Leave
  PROVE  /\ Shape' \in Seq(Construct)
         /\ \E c \in Construct : /\ Shape = Append(Shape', c)
                                 /\ c.kind = Last(stack).kind
                                 /\ c.phase = Last(stack).phase
<1>0. PICK m \in Nat : m + 1 = Len(stack)
  <2>1. Len(stack) \in Nat /\ Len(stack) # 0
    BY DEF Frames
  <2>2. Len(stack) - 1 \in Nat /\ (Len(stack) - 1) + 1 = Len(stack)
    BY <2>1
  <2> QED
    BY <2>2
<1>1. /\ Len(stack') = m
      /\ \A i \in 1..m : stack'[i] = stack[i]
      /\ Last(stack) = stack[m + 1]
  BY <1>0 DEF Frames, Leave, Front, Last
<1>2. PICK s \in Seq(Construct) :
          /\ s = Shape /\ Len(s) = m + 1
          /\ \A i \in 1..(m + 1) : s[i].kind = stack[i].kind /\ s[i].phase = stack[i].phase
  BY <1>0, <1>1, ShapesAre
<1>3. PICK t \in Seq(Construct) :
          /\ t = Shape' /\ Len(t) = m
          /\ \A i \in 1..m : t[i].kind = stack'[i].kind /\ t[i].phase = stack'[i].phase
  BY <1>0, <1>1, ShapesAre
<1>4. PICK c \in Construct : c = s[m + 1]
  BY <1>2
<1>5. PICK u \in Seq(Construct) : u = Append(t, c)
  <2>1. Append(t, c) \in Seq(Construct)
    OBVIOUS
  <2> QED
    BY <2>1
<1>6. Len(u) = m + 1 /\ u[m + 1] = c /\ \A i \in 1..m : u[i] = t[i]
  BY <1>3, <1>5
<1>7. \A i \in 1..(m + 1) : s[i].kind = u[i].kind /\ s[i].phase = u[i].phase
  <2>1. \A i \in 1..(m + 1) : i \in 1..m \/ i = m + 1
    OBVIOUS
  <2>2. ASSUME NEW i \in 1..m PROVE s[i].kind = u[i].kind /\ s[i].phase = u[i].phase
    <3>1. i \in 1..(m + 1)
      OBVIOUS
    <3>2. stack'[i] = stack[i] /\ u[i] = t[i]
      BY <1>1, <1>6
    <3>3. s[i].kind = stack[i].kind /\ s[i].phase = stack[i].phase
      BY <1>2, <3>1
    <3>4. t[i].kind = stack'[i].kind /\ t[i].phase = stack'[i].phase
      BY <1>3
    <3> QED
      BY <3>2, <3>3, <3>4
  <2> QED
    BY <1>4, <1>6, <2>1, <2>2
<1>8. s = u
  BY <1>2, <1>6, <1>7, SameNest
<1>9. c.kind = Last(stack).kind /\ c.phase = Last(stack).phase
  BY <1>1, <1>2, <1>4
<1> QED
  BY <1>2, <1>3, <1>5, <1>8, <1>9

\* A phase of a frame is that of a construct.
LEMMA ShapeOfTurn ==
  ASSUME Frames, Frames', stack # <<>>, NEW p \in {"between", "body"},
         stack' = [stack EXCEPT ![Len(stack)].phase = p]
  PROVE  \E m \in Seq(Construct), c \in Construct, d \in Construct :
               /\ Shape = Append(m, c)
               /\ Shape' = Append(m, d)
               /\ d.kind = c.kind
               /\ d.phase = p
               /\ c.kind = Last(stack).kind
               /\ c.phase = Last(stack).phase
<1>0. PICK m \in Nat : m + 1 = Len(stack)
  <2>1. Len(stack) \in Nat /\ Len(stack) # 0
    BY DEF Frames
  <2>2. Len(stack) - 1 \in Nat /\ (Len(stack) - 1) + 1 = Len(stack)
    BY <2>1
  <2> QED
    BY <2>2
<1>1. /\ Len(stack') = m + 1
      /\ \A i \in 1..m : stack'[i] = stack[i]
      /\ stack'[m + 1].kind = stack[m + 1].kind
      /\ stack'[m + 1].phase = p
      /\ Last(stack) = stack[m + 1]
  <2>1. stack \in Seq(Frame) /\ m + 1 \in 1..Len(stack)
    BY <1>0 DEF Frames
  <2>2. stack[m + 1] \in Frame
    BY <1>0, <2>1
  <2>3. [stack[m + 1] EXCEPT !.phase = p].kind = stack[m + 1].kind
        /\ [stack[m + 1] EXCEPT !.phase = p].phase = p
    BY <2>2 DEF Frame
  <2>4. stack' = [stack EXCEPT ![m + 1] = [stack[m + 1] EXCEPT !.phase = p]]
    BY <1>0
  <2> QED
    BY <1>0, <2>1, <2>3, <2>4 DEF Last
<1>2. PICK s \in Seq(Construct) :
          /\ s = Shape /\ Len(s) = m + 1
          /\ \A i \in 1..(m + 1) : s[i].kind = stack[i].kind /\ s[i].phase = stack[i].phase
  BY <1>0, <1>1, ShapesAre
<1>3. PICK t \in Seq(Construct) :
          /\ t = Shape' /\ Len(t) = m + 1
          /\ \A i \in 1..(m + 1) : t[i].kind = stack'[i].kind /\ t[i].phase = stack'[i].phase
  BY <1>0, <1>1, ShapesAre
<1>4. PICK c \in Construct : c = s[m + 1]
  BY <1>2
<1>5. PICK d \in Construct : d.kind = c.kind /\ d.phase = p
  <2>1. /\ [kind |-> c.kind, phase |-> p] \in Construct
        /\ [kind |-> c.kind, phase |-> p].kind = c.kind
        /\ [kind |-> c.kind, phase |-> p].phase = p
    BY DEF Construct
  <2> QED
    BY <2>1
<1>6. PICK small \in Seq(Construct) : Len(small) = m /\ \A i \in 1..m : small[i] = s[i]
  <2>1. SubSeq(s, 1, m) \in Seq(Construct) /\ Len(SubSeq(s, 1, m)) = m
        /\ \A i \in 1..m : SubSeq(s, 1, m)[i] = s[i]
    BY <1>2
  <2> QED
    BY <2>1
<1>7. PICK u \in Seq(Construct) : u = Append(small, c)
  <2>1. Append(small, c) \in Seq(Construct)
    OBVIOUS
  <2> QED
    BY <2>1
<1>8. PICK v \in Seq(Construct) : v = Append(small, d)
  <2>1. Append(small, d) \in Seq(Construct)
    OBVIOUS
  <2> QED
    BY <2>1
<1>9. /\ Len(u) = m + 1 /\ u[m + 1] = c /\ \A i \in 1..m : u[i] = s[i]
      /\ Len(v) = m + 1 /\ v[m + 1] = d /\ \A i \in 1..m : v[i] = s[i]
  BY <1>6, <1>7, <1>8
<1>10. s = u
  <2>1. \A i \in 1..(m + 1) : i \in 1..m \/ i = m + 1
    OBVIOUS
  <2>2. \A i \in 1..(m + 1) : s[i].kind = u[i].kind /\ s[i].phase = u[i].phase
    BY <1>4, <1>9, <2>1
  <2> QED
    BY <1>2, <1>9, <2>2, SameNest
<1>11. \A i \in 1..(m + 1) : t[i].kind = v[i].kind /\ t[i].phase = v[i].phase
  <2>1. \A i \in 1..(m + 1) : i \in 1..m \/ i = m + 1
    OBVIOUS
  <2>2. t[m + 1].kind = v[m + 1].kind /\ t[m + 1].phase = v[m + 1].phase
    <3>1. m + 1 \in 1..(m + 1)
      OBVIOUS
    <3> QED
      BY <1>1, <1>2, <1>3, <1>4, <1>5, <1>9, <3>1
  <2>3. ASSUME NEW i \in 1..m PROVE t[i].kind = v[i].kind /\ t[i].phase = v[i].phase
    <3>1. i \in 1..(m + 1)
      OBVIOUS
    <3>2. stack'[i] = stack[i] /\ v[i] = s[i]
      BY <1>1, <1>9
    <3>3. s[i].kind = stack[i].kind /\ s[i].phase = stack[i].phase
      BY <1>2, <3>1
    <3>4. t[i].kind = stack'[i].kind /\ t[i].phase = stack'[i].phase
      BY <1>3, <3>1
    <3> QED
      BY <3>2, <3>3, <3>4
  <2> QED
    BY <2>1, <2>2, <2>3
<1>12. t = v
  BY <1>3, <1>9, <1>11, SameNest
<1>13. c.kind = Last(stack).kind /\ c.phase = Last(stack).phase
  BY <1>1, <1>2, <1>4
<1>14. Shape = Append(small, c) /\ Shape' = Append(small, d)
  BY <1>2, <1>3, <1>7, <1>8, <1>10, <1>12, Zenon
<1> QED
  BY <1>5, <1>13, <1>14, Zenon

----------------------------------------------------------------------------
(* Steps.                                                                  *)

\* ControlFlow computes jumps as Nesting does.
LEMMA SameJumps ==
  ASSUME NEW n, NEW what, NEW count
  PROVE  /\ Control!Leaves(n, what, count) = Leaves(n, what, count)
         /\ Control!Catches(n, what, count) = Catches(n, what, count)
         /\ Control!Kinds = Kinds
<1>0. ASSUME NEW S PROVE Control!Cardinality(S) = Cardinality(S)
  BY Zenon DEF Control!Cardinality, Cardinality
<1>1. /\ Control!Bodies(n) = Bodies(n) /\ Control!Returnable(n) = Returnable(n)
      /\ Control!Kinds = Kinds
  BY Zenon DEF Control!Bodies, Bodies, Control!Returnable, Returnable, Control!Kinds, Kinds
<1>2. Control!LoopsAt(n, count) = LoopsAt(n, count)
  BY <1>0, <1>1, Zenon DEF Control!LoopsAt, LoopsAt
<1>3. Control!Loop(n, count) = Loop(n, count)
  BY <1>2, Zenon DEF Control!Loop, Loop
<1>4. Control!HasLoop(n, count) = HasLoop(n, count)
  BY <1>0, <1>1, Zenon DEF Control!HasLoop, HasLoop
<1>5. Control!InnermostReturnable(n) = InnermostReturnable(n)
  BY <1>1, Zenon DEF Control!InnermostReturnable, InnermostReturnable, Control!Largest, Largest
<1>6. Control!Leaves(n, what, count) = Leaves(n, what, count)
  BY <1>1, <1>3, <1>4, <1>5, Zenon DEF Control!Leaves, Leaves
<1>7. Control!Catches(n, what, count) = Catches(n, what, count)
  BY <1>1, <1>4, Zenon DEF Control!Catches, Catches
<1> QED
  BY <1>1, <1>6, <1>7

\* Nothing in flight: what ControlFlow sees is what there is.
LEMMA Calm ==
  /\ Running => Nest = Shape /\ Fate = "running"
  /\ Running' => Nest' = Shape' /\ Fate' = "running"
BY DEF Running, Raised, Nest, Fate

\* A jump has happened when the exception is thrown.
LEMMA InFlight ==
  /\ Raised => /\ Nest = Leaves(Shape, exception.what, exception.count)
               /\ Fate = IF Catches(Shape, exception.what, exception.count)
                          THEN "running" ELSE "escaped"
  /\ Raised' => /\ Nest' = Leaves(Shape', exception'.what, exception'.count)
                /\ Fate' = IF Catches(Shape', exception'.what, exception'.count)
                           THEN "running" ELSE "escaped"
BY DEF Raised, Nest, Fate

LEMMA Opens ==
  ASSUME Frames, Frames', Running, Running', NEW kind \in Kinds,
         NEW keyword, NEW ast, NEW redirects, Enter(kind, keyword, ast, redirects)
  PROVE  Control!Next
<1>1. Control!Open(kind)
  BY Calm, ShapeOfEnter DEF Control!Open
<1> QED
  BY <1>1, SameJumps DEF Control!Next

LEMMA Closes ==
  ASSUME Frames, Frames', Running, Running', stack # <<>>, Leave,
         Last(stack).kind = "loop" => Last(stack).phase = "between"
  PROVE  Control!Next
<1>1. PICK m \in Seq(Construct), c \in Construct :
          m = Shape' /\ Shape = Append(m, c) /\ c.kind = Last(stack).kind /\ c.phase = Last(stack).phase
  BY ShapeOfLeave
<1>2. PICK n \in Seq(Construct) : n = Append(m, c)
  <2>1. Append(m, c) \in Seq(Construct)
    OBVIOUS
  <2> QED
    BY <2>1
<1>3. /\ Len(n) = Len(m) + 1 /\ n # <<>> /\ n[Len(n)] = c
      /\ Len(n) - 1 = Len(m)
  BY <1>2
<1>4. SubSeq(n, 1, Len(n) - 1) = m
  BY <1>2, <1>3, PrefixOfAppend
<1>5. Nest = n /\ Nest' = m /\ Fate = "running" /\ Fate' = "running"
  BY <1>1, <1>2, Calm
<1>6. Control!Close
  BY <1>1, <1>3, <1>4, <1>5 DEF Control!Close, Control!Innermost
<1> QED
  BY <1>6 DEF Control!Next

LEMMA Turns ==
  ASSUME Frames, Frames', Running, Running', stack # <<>>, Last(stack).kind = "loop",
         NEW p \in {"between", "body"}, Last(stack).phase # p,
         stack' = [stack EXCEPT ![Len(stack)].phase = p]
  PROVE  Control!Next
<1>1. PICK m \in Seq(Construct), c \in Construct, d \in Construct :
          /\ Shape = Append(m, c) /\ Shape' = Append(m, d)
          /\ d.kind = c.kind /\ d.phase = p
          /\ c.kind = Last(stack).kind /\ c.phase = Last(stack).phase
  BY ShapeOfTurn
<1>2. PICK n \in Seq(Construct) : n = Append(m, c)
  <2>1. Append(m, c) \in Seq(Construct)
    OBVIOUS
  <2> QED
    BY <2>1
<1>3. Len(n) = Len(m) + 1 /\ n # <<>> /\ n[Len(n)] = c
  BY <1>2
<1>4. d.phase = IF n[Len(n)].phase = "body" THEN "between" ELSE "body"
  BY <1>1, <1>3 DEF Construct
<1>5. [n EXCEPT ![Len(n)].phase = d.phase] = Append(m, d)
  <2>1. [Append(m, c) EXCEPT ![Len(m) + 1].phase = d.phase] = Append(m, d)
    BY <1>1, PhaseOfAppend, Zenon
  <2> QED
    BY <1>2, <1>3, <2>1, Zenon
<1>6. Nest = n /\ Nest' = Append(m, d) /\ Fate = "running" /\ Fate' = "running"
  BY <1>1, <1>2, Calm
<1>7. Nest' = [Nest EXCEPT ![Len(Nest)].phase = IF @ = "body" THEN "between" ELSE "body"]
  BY <1>4, <1>5, <1>6, Zenon
<1>8. Control!Turn
  BY <1>1, <1>3, <1>6, <1>7 DEF Control!Turn, Control!Innermost
<1> QED
  BY <1>8 DEF Control!Next

LEMMA Jumping ==
  ASSUME Running, NEW what \in Jumps, NEW count \in 1..MaxCount,
         exception' = [what |-> what, count |-> count],
         UNCHANGED <<stack, mode>>
  PROVE  Control!Next
<1>1. Raised' /\ exception'.what = what /\ exception'.count = count
  BY DEF Running, Raised, Jumps, NoException
<1>2. Shape' = Shape
  BY DEF Shape
<1>3. Control!Jump(what, count)
  BY <1>1, <1>2, Calm, InFlight, SameJumps DEF Control!Jump
<1> QED
  BY <1>3 DEF Control!Next, Jumps

\* The frame that does not handle an exception does not stop the jump.
LEMMA HandlesIsStops ==
  ASSUME NEW c, c.kind = Last(stack).kind, c.phase = Last(stack).phase
  PROVE  Handles(Last(stack)) <=> Stops(c, exception.what)
BY DEF Handles, Stops, IsBody

LEMMA UnwindStutters ==
  ASSUME IInv, IInv', Unwind
  PROVE  UNCHANGED <<Nest, Fate>>
<1>1. stack # <<>> /\ Leave /\ Raised /\ Raised' /\ exception' = exception
      /\ ~Handles(Last(stack))
  BY DEF Unwind, Raised
<1>2. PICK m \in Seq(Construct), c \in Construct :
          m = Shape' /\ Shape = Append(m, c) /\ c.kind = Last(stack).kind /\ c.phase = Last(stack).phase
  BY <1>1, ShapeOfLeave DEF IInv
<1>3. PICK what \in Jumps, count \in Nat \ {0} : what = exception.what /\ count = exception.count
  BY <1>1, Exception
<1>4. ~Stops(c, what)
  BY <1>1, <1>2, <1>3, HandlesIsStops
<1>5. /\ Leaves(Append(m, c), what, count) = Leaves(m, what, count)
      /\ Catches(Append(m, c), what, count) <=> Catches(m, what, count)
  BY <1>4, JumpPasses
<1> QED
  BY <1>1, <1>2, <1>3, <1>5, InFlight

LEMMA RethrowStutters ==
  ASSUME IInv, IInv', Rethrow
  PROVE  UNCHANGED <<Nest, Fate>>
<1>1. /\ stack # <<>> /\ Leave /\ Raised /\ Handles(Last(stack)) /\ exception.count # 1
      /\ exception' = [exception EXCEPT !.count = @ - 1] /\ mode' = mode
  BY DEF Rethrow
<1>2. PICK m \in Seq(Construct), c \in Construct :
          m = Shape' /\ Shape = Append(m, c) /\ c.kind = Last(stack).kind /\ c.phase = Last(stack).phase
  BY <1>1, ShapeOfLeave DEF IInv
<1>3. PICK what \in Jumps, count \in Nat \ {0} : what = exception.what /\ count = exception.count
  BY <1>1, Exception
<1>4. what \in {"break", "continue"} /\ exception'.what = what /\ exception'.count = count - 1
  BY <1>1, <1>3 DEF IInv, OthersCountOne, TypeOK, Exceptions, Jumps
<1>5. Raised'
  BY <1>1, <1>4 DEF Raised, NoException
<1>6. IsBody(c)
  BY <1>1, <1>2, <1>3, <1>4, HandlesIsStops DEF Stops
<1>7. /\ Leaves(Append(m, c), what, count) = Leaves(m, what, count - 1)
      /\ Catches(Append(m, c), what, count) <=> Catches(m, what, count - 1)
  BY <1>1, <1>3, <1>4, <1>6, JumpCounts
<1> QED
  BY <1>1, <1>2, <1>3, <1>4, <1>5, <1>7, InFlight

\* break ends behind a loop, return behind a call or a file.
LEMMA CatchStutters ==
  ASSUME IInv, IInv', Raised, exception.what \in {"break", "return"}, exception.count = 1,
         stack # <<>>, Handles(Last(stack)), Leave, exception' = NoException, mode' = mode
  PROVE  UNCHANGED <<Nest, Fate>>
<1>1. PICK m \in Seq(Construct), c \in Construct :
          m = Shape' /\ Shape = Append(m, c) /\ c.kind = Last(stack).kind /\ c.phase = Last(stack).phase
  BY ShapeOfLeave DEF IInv
<1>2. PICK what \in Jumps : what = exception.what /\ what # "continue"
  BY DEF Jumps
<1>3. Stops(c, what)
  BY <1>1, <1>2, HandlesIsStops
<1>4. PICK d \in Construct : d.kind = c.kind /\ d.phase = "between"
  <2>1. /\ [kind |-> c.kind, phase |-> "between"] \in Construct
        /\ [kind |-> c.kind, phase |-> "between"].kind = c.kind
        /\ [kind |-> c.kind, phase |-> "between"].phase = "between"
    BY DEF Construct
  <2> QED
    BY <2>1
<1>5. Catches(Append(m, c), what, 1) /\ Leaves(Append(m, c), what, 1) = m
  BY <1>2, <1>3, <1>4, JumpEnds
<1>6. Running'
  BY DEF Raised, Running
<1> QED
  BY <1>1, <1>2, <1>5, <1>6, Calm, InFlight

\* continue ends between two iterations of a loop.
LEMMA ContinueStutters ==
  ASSUME IInv, IInv', CatchContinue
  PROVE  UNCHANGED <<Nest, Fate>>
<1>1. /\ Raised /\ exception.what = "continue" /\ exception.count = 1
      /\ stack # <<>> /\ Handles(Last(stack))
      /\ exception' = NoException /\ mode' = mode
      /\ stack' = [stack EXCEPT ![Len(stack)].phase = "between"]
  BY DEF CatchContinue
<1>2. PICK m \in Seq(Construct), c \in Construct, d \in Construct :
          /\ Shape = Append(m, c) /\ Shape' = Append(m, d)
          /\ d.kind = c.kind /\ d.phase = "between"
          /\ c.kind = Last(stack).kind /\ c.phase = Last(stack).phase
  BY <1>1, ShapeOfTurn DEF IInv
<1>3. Stops(c, "continue")
  BY <1>1, <1>2, HandlesIsStops
<1>4. Catches(Append(m, c), "continue", 1) /\ Leaves(Append(m, c), "continue", 1) = Append(m, d)
  BY <1>2, <1>3, JumpEnds DEF Jumps
<1>5. Running'
  BY <1>1 DEF Raised, Running
<1> QED
  BY <1>1, <1>2, <1>4, <1>5, Calm, InFlight

\* Nothing is left to catch the exception.
LEMMA EscapeStutters ==
  ASSUME IInv, IInv', Escape
  PROVE  UNCHANGED <<Nest, Fate>>
<1>1. Raised /\ stack = <<>> /\ mode' = "escaped" /\ stack' = stack /\ exception' = exception
  BY DEF Escape
<1>2. PICK what \in Jumps, count \in Nat \ {0} : what = exception.what /\ count = exception.count
  BY <1>1, Exception
<1>3. Shape = <<>> /\ Shape' = <<>>
  BY <1>1 DEF Shape
<1>4. Leaves(<<>>, what, count) = <<>> /\ ~Catches(<<>>, what, count)
  BY JumpFromNothing
<1>5. Nest = <<>> /\ Fate = "escaped"
  BY <1>1, <1>2, <1>3, <1>4, InFlight
<1>6. Nest' = Leaves(Shape', exception'.what, exception'.count)
  BY <1>1 DEF Nest, Raised
<1>7. Fate' = "escaped"
  BY <1>1 DEF Fate, Raised
<1> QED
  BY <1>1, <1>2, <1>3, <1>4, <1>5, <1>6, <1>7

\* A command that is not a construct, and a call of a function that is gone.
LEMMA SimpleStutters ==
  ASSUME Running, UNCHANGED <<stack, exception>>, mode' \in {"running", "crashed"}
  PROVE  UNCHANGED <<Nest, Fate>>
<1>1. Shape' = Shape
  BY DEF Shape
<1>2. exception = NoException /\ exception' = NoException /\ mode = "running"
  BY DEF Running
<1>3. Nest = Shape /\ Nest' = Shape'
  BY <1>2, Zenon DEF Nest
<1>4. ~Raised /\ ~Raised'
  BY <1>2 DEF Raised
<1>5. Fate = "running" /\ Fate' = "running"
  BY <1>2, <1>4 DEF Fate
<1> QED
  BY <1>1, <1>3, <1>5

LEMMA ImplementsInit == Init => Control!Init
<1> SUFFICES ASSUME Init PROVE Control!Init
  OBVIOUS
<1>1. Shape = <<>>
  BY DEF Init, Shape
<1>2. Running
  BY DEF Init, Running
<1> QED
  BY <1>1, <1>2, Calm DEF Control!Init

LEMMA CommandsImplement ==
  ASSUME IInv, IInv', Commands
  PROVE  Control!Next \/ UNCHANGED <<Nest, Fate>>
<1> USE DEF IInv
<1>0. Running
  BY DEF Commands, Simple, DefineFunction, UnsetFunction, EnterLoop, CallFunction, Source, Eval,
         Substitute, StartIteration, EndIteration, LeaveLoop, EndFrame, EndScript,
         ExecutesCommands, InLoop
<1>1. CASE (\E s \in {0, 1} : Simple(s)) \/ (\E f \in Functions : DefineFunction(f) \/ UnsetFunction(f))
  <2>1. UNCHANGED <<stack, exception, mode>> /\ mode = "running"
    BY <1>0, <1>1 DEF Simple, DefineFunction, UnsetFunction, Running
  <2> QED
    BY <1>0, <2>1, SimpleStutters
<1>2. ASSUME NEW redirects \in Redirections, NEW keyword \in Keywords, EnterLoop(keyword, redirects)
      PROVE  Control!Next
  <2>1. Running' /\ Enter("loop", keyword, Last(ast_stack), redirects)
    BY <1>0, <1>2 DEF EnterLoop, Running
  <2> QED
    BY <1>0, <2>1, Opens DEF Kinds
<1>3. ASSUME NEW redirects \in Redirections, NEW f \in Functions, CallFunction(f, redirects)
      PROVE  Control!Next \/ UNCHANGED <<Nest, Fate>>
  <2>1. CASE functions[f] = Dangling
    <3>1. UNCHANGED <<stack, exception>> /\ mode' = "crashed"
      BY <1>3, <2>1 DEF CallFunction
    <3> QED
      BY <1>0, <3>1, SimpleStutters
  <2>2. CASE functions[f] # Dangling
    <3>1. Running' /\ Enter("call", "none", functions[f], redirects)
      BY <1>0, <1>3, <2>2 DEF CallFunction, Running
    <3> QED
      BY <1>0, <3>1, Opens DEF Kinds
  <2> QED
    BY <2>1, <2>2
<1>4. ASSUME NEW redirects \in Redirections, NEW path \in Files, Source(path, redirects)
      PROVE  Control!Next
  <2>1. Running' /\ Enter("source", "none", path, redirects)
    BY <1>0, <1>4 DEF Source, Running
  <2> QED
    BY <1>0, <2>1, Opens DEF Kinds
<1>5. ASSUME NEW redirects \in Redirections, Eval(redirects) PROVE Control!Next
  <2>1. Running' /\ Enter("eval", "none", Len(stack) + 1, redirects)
    BY <1>0, <1>5 DEF Eval, Running
  <2> QED
    BY <1>0, <2>1, Opens DEF Kinds
<1>6. CASE Substitute
  <2>1. Running' /\ Enter("substitution", "none", Len(stack) + 1, TRUE)
    BY <1>0, <1>6 DEF Substitute, Running
  <2> QED
    BY <1>0, <2>1, Opens DEF Kinds
<1>7. CASE StartIteration
  <2>1. /\ Running' /\ stack # <<>> /\ Last(stack).kind = "loop" /\ Last(stack).phase # "body"
        /\ stack' = [stack EXCEPT ![Len(stack)].phase = "body"]
    BY <1>0, <1>7 DEF StartIteration, InLoop, Running
  <2> QED
    BY <1>0, <2>1, Turns
<1>8. CASE EndIteration
  <2>1. /\ Running' /\ stack # <<>> /\ Last(stack).kind = "loop" /\ Last(stack).phase # "between"
        /\ stack' = [stack EXCEPT ![Len(stack)].phase = "between"]
    BY <1>0, <1>8 DEF EndIteration, InLoop, Running
  <2> QED
    BY <1>0, <2>1, Turns
<1>9. CASE LeaveLoop
  <2>1. Running' /\ stack # <<>> /\ Leave /\ Last(stack).phase = "between"
    BY <1>0, <1>9 DEF LeaveLoop, InLoop, Running
  <2> QED
    BY <1>0, <2>1, Closes
<1>10. ASSUME NEW negated \in BOOLEAN, EndFrame(negated) PROVE Control!Next
  <2>1. Running' /\ stack # <<>> /\ Leave /\ Last(stack).kind # "loop"
    BY <1>0, <1>10 DEF EndFrame, Running
  <2> QED
    BY <1>0, <2>1, Closes
<1>11. CASE EndScript
  <2>1. /\ stack = <<>> /\ stack' = stack
        /\ exception = NoException /\ exception' = exception /\ mode' = "ended"
    BY <1>0, <1>11 DEF EndScript, Running
  <2>2. Shape = <<>> /\ Shape' = <<>>
    BY <2>1 DEF Shape
  <2>3. Nest = <<>> /\ Fate = "running"
    BY <1>0, <2>2, Calm
  <2>4. Nest' = <<>>
    BY <2>1, <2>2 DEF Nest
  <2>5. ~Raised'
    BY <2>1 DEF Raised
  <2>6. Fate' = "ended"
    BY <2>1, <2>5 DEF Fate
  <2>7. Control!End
    BY <2>3, <2>4, <2>6 DEF Control!End
  <2> QED
    BY <2>7 DEF Control!Next
<1> QED
  BY <1>1, <1>2, <1>3, <1>4, <1>5, <1>6, <1>7, <1>8, <1>9, <1>10, <1>11 DEF Commands

LEMMA ThrowsImplement ==
  ASSUME IInv, Throws
  PROVE  Control!Next
<1>1. \E what \in Jumps, count \in 1..MaxCount :
          /\ Running /\ exception' = [what |-> what, count |-> count]
          /\ UNCHANGED <<stack, mode>>
  <2>1. 1 \in 1..MaxCount
    BY BoundsAssumption
  <2> QED
    BY <2>1 DEF Throws, BreakOrContinue, Return, Fail, SourceFails, Throw, ExecutesCommands, Jumps
<1> QED
  BY <1>1, Jumping

LEMMA PropagationImplements ==
  ASSUME IInv, IInv', Propagation
  PROVE  UNCHANGED <<Nest, Fate>>
<1>1. CASE CatchBreak
  BY <1>1, CatchStutters DEF CatchBreak
<1>2. ASSUME NEW negated \in BOOLEAN, CatchReturn(negated) PROVE UNCHANGED <<Nest, Fate>>
  <2>1. exception.count = 1
    BY <1>2 DEF CatchReturn, IInv, OthersCountOne
  <2> QED
    BY <1>2, <2>1, CatchStutters DEF CatchReturn
<1> QED
  BY <1>1, <1>2, UnwindStutters, RethrowStutters, ContinueStutters, EscapeStutters DEF Propagation

LEMMA StepImplements ==
  IInv /\ IInv' /\ [Next]_vars => [Control!Next]_<<Nest, Fate>>
<1> SUFFICES ASSUME IInv, IInv', [Next]_vars PROVE Control!Next \/ UNCHANGED <<Nest, Fate>>
  OBVIOUS
<1>1. CASE Stopped \/ UNCHANGED vars
  <2>1. UNCHANGED <<stack, exception, mode>>
    BY <1>1 DEF Stopped, vars
  <2>2. Shape' = Shape /\ (Raised' <=> Raised)
    BY <2>1 DEF Shape, Raised
  <2> QED
    BY <2>1, <2>2, Zenon DEF Nest, Fate
<1> QED
  BY <1>1, CommandsImplement, ThrowsImplement, PropagationImplements DEF Next

\* break n, continue n, return and errors, carried out frame by frame
\* (rethrow_unless_correct_frame and the handlers of loops, calls and source),
\* are the jumps of ControlFlow, at any depth and for any count.
THEOREM FramesImplementJumps == Spec => ImplementsControlFlow
<1>1. Spec => Control!Init
  BY ImplementsInit DEF Spec
<1>2. Spec => [][Control!Next]_<<Nest, Fate>>
  BY Inductive, StepImplements, PTL DEF Spec
<1> QED
  BY <1>1, <1>2 DEF ImplementsControlFlow, Control!Spec, Control!controlVars

=============================================================================
