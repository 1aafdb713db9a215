---------------------------- MODULE ScopesProofs ----------------------------
(* Proofs about Scopes, for any sets of variables, words and inputs and    *)
(* any bound on the array indexes and on the depth of calls.               *)
EXTENDS Scopes, FiniteSetTheorems, SequenceTheorems, WellFoundedInduction, TLAPS

----------------------------------------------------------------------------
(* Largest elements: what Level and get_max_index choose exists.           *)

\* A non-empty set of numbers up to a bound has a largest element.
LEMMA LargestExists ==
  ASSUME NEW top \in Nat, NEW T \in SUBSET (0..top), T # {}
  PROVE  \E i \in T : \A j \in T : j <= i
<1> DEFINE Mirror == {top - i : i \in T}
<1>1. Mirror \subseteq Nat /\ Mirror # {}
  <2>1. \A i \in T : i \in 0..top
    OBVIOUS
  <2>2. \A i \in T : top - i \in Nat
    BY <2>1
  <2>3. PICK i : i \in T
    OBVIOUS
  <2>4. top - i \in Mirror
    BY <2>3
  <2> QED
    BY <2>2, <2>4
<1>2. \E d \in Mirror : \A e \in Mirror : ~(<<e, d>> \in OpToRel(<, Nat))
  BY <1>1, NatLessThanWellFounded, WFMin, Zenon
<1>3. PICK d \in Mirror : \A e \in Mirror : ~(<<e, d>> \in OpToRel(<, Nat))
  BY <1>2
<1>4. \A e \in Mirror : ~(e < d)
  BY <1>1, <1>3 DEF OpToRel
<1>5. PICK i \in T : d = top - i
  OBVIOUS
<1>6. ASSUME NEW j \in T PROVE j <= i
  <2>1. top - j \in Mirror
    OBVIOUS
  <2>2. ~(top - j < top - i)
    BY <1>4, <1>5, <2>1
  <2>3. i \in Int /\ j \in Int
    OBVIOUS
  <2> HIDE DEF Mirror
  <2> QED
    BY <2>2, <2>3
<1> QED
  BY <1>5, <1>6

\* A scope that binds n and is inside all others that do is the level of n.
LEMMA LevelIs ==
  ASSUME NEW s \in Seq(Scope), NEW n, NEW i \in Binders(s, n),
         \A j \in Binders(s, n) : j <= i
  PROVE  Level(s, n) = i
<1>1. Binders(s, n) \subseteq Int
  BY DEF Binders
<1>2. \A k \in Binders(s, n) : (\A j \in Binders(s, n) : j <= k) => k = i
  BY <1>1
<1> QED
  BY <1>2 DEF Level

\* The level of a variable is 0, or the innermost scope that binds it.
LEMMA LevelFacts ==
  ASSUME NEW s \in Seq(Scope), NEW n
  PROVE  /\ Level(s, n) \in 0..Len(s)
         /\ Level(s, n) = 0 <=> Binders(s, n) = {}
         /\ Level(s, n) # 0 =>
               /\ Level(s, n) \in 1..Len(s)
               /\ s[Level(s, n)][n] # None
               /\ \A j \in Binders(s, n) : j <= Level(s, n)
<1>1. Len(s) \in Nat
  BY LenProperties
<1>2. CASE Binders(s, n) = {}
  BY <1>1, <1>2 DEF Level
<1>3. CASE Binders(s, n) # {}
  <2>1. Binders(s, n) \in SUBSET (0..Len(s))
    BY <1>1 DEF Binders
  <2>2. PICK i \in Binders(s, n) : \A j \in Binders(s, n) : j <= i
    BY <1>1, <1>3, <2>1, LargestExists
  <2>3. Level(s, n) = i
    BY <2>2, LevelIs
  <2>4. i \in 1..Len(s) /\ s[i][n] # None
    BY <2>2 DEF Binders
  <2> QED
    BY <1>1, <1>3, <2>2, <2>3, <2>4
<1> QED
  BY <1>2, <1>3

----------------------------------------------------------------------------
(* The operations of class variable.                                       *)

\* What a missing or a present element reads as is a word.
LEMMA GetValueType ==
  ASSUME NEW var \in Variable, NEW index
  PROVE  get_value(var, index) \in Words
  BY WordsAssumption DEF get_value, Elements, Variable, ValueMap

\* get_max_index is an index.
LEMMA MaxIndexType ==
  ASSUME NEW var \in Variable
  PROVE  get_max_index(var) \in Indexes
<1>1. Elements(var) \in SUBSET (0..MaxIndex)
  BY DEF Elements, Indexes
<1>2. CASE Elements(var) = {}
  <2>1. 0 \in Indexes
    BY IndexAssumption DEF Indexes
  <2>2. get_max_index(var) = CHOOSE i \in Indexes : i = 0
    BY <1>2 DEF get_max_index
  <2> QED
    BY <2>1, <2>2
<1>3. CASE Elements(var) # {}
  <2>1. \E i \in Elements(var) : \A j \in Elements(var) : j <= i
    BY <1>1, <1>3, IndexAssumption, LargestExists
  <2>2. \E i \in Indexes :
           /\ Elements(var) = {} => i = 0
           /\ Elements(var) # {} => i \in Elements(var) /\ \A j \in Elements(var) : j <= i
    BY <1>1, <1>3, <2>1 DEF Indexes
  <2> QED
    BY <2>2 DEF get_max_index
<1> QED
  BY <1>2, <1>3

\* A scalar is a variable.
LEMMA ScalarType ==
  ASSUME NEW v \in Words, NEW ro \in BOOLEAN, NEW index \in Indexes
  PROVE  Scalar(v, ro, index) \in Variable /\ Scalar(v, ro, index).readonly = ro
  BY DEF Scalar, Variable, ValueMap, NoElements

\* A variable with another element is a variable.
LEMMA WithValueType ==
  ASSUME NEW var \in Variable, NEW v \in Words, NEW index \in Indexes
  PROVE  /\ WithValue(var, v, index) \in Variable
         /\ WithValue(var, v, index).readonly = var.readonly
  BY DEF WithValue, Variable, ValueMap

\* A variable without an element is a variable.
LEMMA WithoutValueType ==
  ASSUME NEW var \in Variable, NEW index \in Indexes
  PROVE  /\ WithoutValue(var, index) \in Variable
         /\ WithoutValue(var, index).readonly = var.readonly
  BY DEF WithoutValue, Variable, ValueMap

\* An array is a variable.
LEMMA ArrayType ==
  ASSUME NEW values \in ValueMap
  PROVE  ArrayOf(values) \in Variable /\ ~ArrayOf(values).readonly
  BY DEF ArrayOf, Variable

\* Positional parameters are a variable.
LEMMA PositionalType ==
  ASSUME NEW args \in Seq(Words)
  PROVE  Positional(args) \in Variable /\ ~Positional(args).readonly
<1>1. \A i \in 1..Len(args) : args[i] \in Words
  BY ElementOfSeq
<1>2. [i \in Indexes |-> IF i \in 1..Len(args) THEN args[i] ELSE Absent] \in ValueMap
  BY <1>1 DEF ValueMap
<1> QED
  BY <1>2, ArrayType DEF Positional

\* shift leaves a map of elements.
LEMMA ShiftedType ==
  ASSUME NEW var \in Variable, NEW k
  PROVE  Shifted(var, k) \in ValueMap
<1>1. NoElements \in ValueMap
  BY DEF NoElements, ValueMap
<1>2. \A i \in Indexes : var.value[i] \in Words \cup {Absent}
  BY DEF Variable, ValueMap
<1>3. \A i \in Indexes : get_value(var, i + k) \in Words
  BY GetValueType
<1> QED
  BY <1>1, <1>2, <1>3 DEF Shifted, ValueMap

----------------------------------------------------------------------------
(* Sequences of scopes.                                                    *)

\* What every reachable sequence of scopes is: typed, never empty, with $0 in
\* the global scope and nowhere else, and $0 its only readonly variable.
Sound(s) ==
    /\ s \in Seq(Scope)
    /\ Len(s) >= 1
    /\ s[1]["0"] # None
    /\ \A i \in 2..Len(s) : s[i]["0"] = None
    /\ \A i \in 1..Len(s), n \in Names :
          s[i][n] # None => (s[i][n].readonly <=> i = 1 /\ n = "0")

\* r is s but for variable n of scope i.
Changes(s, r, i, n) ==
    /\ Len(r) = Len(s)
    /\ \A j \in 1..Len(s), m \in Names :
          (j # i \/ m # n) => r[j][m] = s[j][m]

\* Where set_value writes n.
Place(s, n) == IF Level(s, n) = 0 THEN 1 ELSE Level(s, n)

\* Every element of a sound sequence is a scope.
LEMMA ScopeAt ==
  ASSUME NEW s \in Seq(Scope), NEW i \in 1..Len(s), NEW n \in Names
  PROVE  /\ s[i] \in Scope
         /\ s[i][n] \in Variable \cup {None}
<1>1. s[i] \in Scope
  BY ElementOfSeq
<1> QED
  BY <1>1 DEF Scope

\* Bind replaces one variable of one scope.
LEMMA BindFacts ==
  ASSUME NEW s \in Seq(Scope), NEW i \in 1..Len(s), NEW n \in Names,
         NEW var \in Variable \cup {None}
  PROVE  /\ Bind(s, i, n, var) \in Seq(Scope)
         /\ Len(Bind(s, i, n, var)) = Len(s)
         /\ \A j \in 1..Len(s), m \in Names :
               Bind(s, i, n, var)[j][m] = IF j = i /\ m = n THEN var ELSE s[j][m]
<1> DEFINE row == [s[i] EXCEPT ![n] = var]
<1>1. row \in Scope /\ \A m \in Names : row[m] = IF m = n THEN var ELSE s[i][m]
  BY ScopeAt DEF Scope
<1>2. Bind(s, i, n, var) = [s EXCEPT ![i] = row]
  BY DEF Bind
<1> HIDE DEF row
<1>3. /\ [s EXCEPT ![i] = row] \in Seq(Scope)
      /\ Len([s EXCEPT ![i] = row]) = Len(s)
      /\ \A j \in 1..Len(s) : [s EXCEPT ![i] = row][j] = IF j = i THEN row ELSE s[j]
  BY <1>1, ExceptSeq
<1> QED
  BY <1>1, <1>2, <1>3

\* A variable that is not $0 may be bound anywhere, if it is not readonly.
LEMMA BindSound ==
  ASSUME NEW s, Sound(s), NEW i \in 1..Len(s), NEW n \in Names \ {"0"},
         NEW var \in Variable \cup {None},
         var # None => ~var.readonly
  PROVE  Sound(Bind(s, i, n, var)) /\ Changes(s, Bind(s, i, n, var), i, n)
<1> DEFINE r == Bind(s, i, n, var)
<1>1. s \in Seq(Scope) /\ Len(s) \in Nat /\ "0" \in Names
  BY LenProperties DEF Sound, Names
<1>2. /\ r \in Seq(Scope)
      /\ Len(r) = Len(s)
      /\ \A j \in 1..Len(s), m \in Names :
            r[j][m] = IF j = i /\ m = n THEN var ELSE s[j][m]
  BY <1>1, BindFacts
<1> HIDE DEF r
<1>3. Sound(r)
  BY <1>1, <1>2 DEF Sound
<1>4. Changes(s, r, i, n)
  BY <1>2 DEF Changes
<1> QED
  BY <1>3, <1>4 DEF r

\* $0 is defined anew, readonly as before.
LEMMA ZeroSound ==
  ASSUME NEW s, Sound(s), NEW path \in Words
  PROVE  /\ Sound(define(s, "0", Scalar(path, TRUE, 0)))
         /\ Changes(s, define(s, "0", Scalar(path, TRUE, 0)), 1, "0")
         /\ define(s, "0", Scalar(path, TRUE, 0))[1]["0"] = Scalar(path, TRUE, 0)
<1> DEFINE var == Scalar(path, TRUE, 0)
           r   == define(s, "0", var)
<1>1. s \in Seq(Scope) /\ Len(s) \in Nat /\ 1 \in 1..Len(s) /\ "0" \in Names
  BY LenProperties DEF Sound, Names
<1>2. var \in Variable /\ var.readonly /\ var # None
  <2>1. 0 \in Indexes
    BY IndexAssumption DEF Indexes
  <2> QED
    BY <2>1, ScalarType, NoneAssumption
<1> HIDE DEF var
<1>3. /\ r \in Seq(Scope)
      /\ Len(r) = Len(s)
      /\ \A j \in 1..Len(s), m \in Names :
            r[j][m] = IF j = 1 /\ m = "0" THEN var ELSE s[j][m]
  BY <1>1, <1>2, BindFacts DEF define
<1> HIDE DEF r
<1>4. Sound(r)
  BY <1>1, <1>2, <1>3 DEF Sound
<1>5. Changes(s, r, 1, "0") /\ r[1]["0"] = var
  BY <1>1, <1>3 DEF Changes
<1> QED
  BY <1>4, <1>5 DEF r, var

\* $0 is found in the global scope, and is readonly; nothing else is.
LEMMA ZeroLevel ==
  ASSUME NEW s, Sound(s)
  PROVE  Level(s, "0") = 1 /\ IsReadonly(s, "0")
<1>1. s \in Seq(Scope) /\ Len(s) \in Nat /\ 1 \in 1..Len(s) /\ "0" \in Names
  BY LenProperties DEF Sound, Names
<1>2. 1 \in Binders(s, "0") /\ \A j \in Binders(s, "0") : j <= 1
  BY <1>1 DEF Sound, Binders
<1>3. Level(s, "0") = 1
  BY <1>1, <1>2, LevelIs
<1> QED
  BY <1>1, <1>3 DEF IsReadonly, resolve_variable, Sound

\* What resolve_variable finds is a variable.
LEMMA ResolvedType ==
  ASSUME NEW s, Sound(s), NEW n \in Names, Level(s, n) # 0
  PROVE  /\ resolve_variable(s, n) \in Variable
         /\ Level(s, n) \in 1..Len(s)
         /\ resolve_variable(s, n).readonly <=> n = "0"
<1>1. s \in Seq(Scope)
  BY DEF Sound
<1>2. Level(s, n) \in 1..Len(s) /\ s[Level(s, n)][n] # None
  BY <1>1, LevelFacts
<1>3. s[Level(s, n)][n] \in Variable
  BY <1>1, <1>2, ScopeAt
<1>4. n = "0" => Level(s, n) = 1
  BY ZeroLevel
<1> QED
  BY <1>2, <1>3, <1>4 DEF resolve_variable, Sound

\* A variable is written in an existing scope.
LEMMA PlaceFacts ==
  ASSUME NEW s, Sound(s), NEW n \in Names
  PROVE  Place(s, n) \in 1..Len(s)
<1>1. 1 \in 1..Len(s)
  BY LenProperties DEF Sound
<1> QED
  BY <1>1, ResolvedType DEF Place

\* The four ways in which a command writes or removes a variable n that is not
\* readonly: each touches n at its level only, or in the global scope.
LEMMA SetValueSound ==
  ASSUME NEW s, Sound(s), NEW n \in Names \ {"0"}, NEW v \in Words,
         NEW index \in Indexes
  PROVE  /\ Sound(set_value(s, n, v, index))
         /\ Changes(s, set_value(s, n, v, index), Place(s, n), n)
<1>1. CASE Level(s, n) = 0
  <2>1. Scalar(v, FALSE, index) \in Variable /\ ~Scalar(v, FALSE, index).readonly
    BY ScalarType
  <2>2. 1 \in 1..Len(s)
    BY LenProperties DEF Sound
  <2> QED
    BY <1>1, <2>1, <2>2, BindSound DEF set_value, define, Place
<1>2. CASE Level(s, n) # 0
  <2> DEFINE var == WithValue(resolve_variable(s, n), v, index)
  <2>1. resolve_variable(s, n) \in Variable /\ Level(s, n) \in 1..Len(s)
        /\ ~resolve_variable(s, n).readonly
    BY <1>2, ResolvedType
  <2>2. var \in Variable /\ var.readonly = resolve_variable(s, n).readonly
    BY <2>1, WithValueType
  <2> HIDE DEF var
  <2>3. Sound(Bind(s, Level(s, n), n, var))
        /\ Changes(s, Bind(s, Level(s, n), n, var), Level(s, n), n)
    BY <2>1, <2>2, BindSound
  <2> QED
    BY <1>2, <2>3 DEF set_value, Place, var
<1> QED
  BY <1>1, <1>2

\* Doing nothing is a change of at most one variable.
LEMMA NoChange ==
  ASSUME NEW s, NEW i, NEW n
  PROVE  Changes(s, s, i, n)
  BY DEF Changes

\* unset changes one variable, where it is found.
LEMMA UnsetSound ==
  ASSUME NEW s, Sound(s), NEW n \in Names \ {"0"}
  PROVE  Sound(unset(s, n)) /\ Changes(s, unset(s, n), Place(s, n), n)
<1>1. CASE Level(s, n) = 0
  BY <1>1, NoChange DEF unset
<1>2. CASE Level(s, n) # 0
  <2>1. Level(s, n) \in 1..Len(s)
    BY <1>2, ResolvedType
  <2>2. Sound(Bind(s, Level(s, n), n, None))
        /\ Changes(s, Bind(s, Level(s, n), n, None), Level(s, n), n)
    BY <2>1, BindSound
  <2> QED
    BY <1>2, <2>2 DEF unset, Place
<1> QED
  BY <1>1, <1>2

\* unset of an element changes one variable, where it is found.
LEMMA UnsetElementSound ==
  ASSUME NEW s, Sound(s), NEW n \in Names \ {"0"}, NEW index \in Indexes
  PROVE  /\ Sound(unset_element(s, n, index))
         /\ Changes(s, unset_element(s, n, index), Place(s, n), n)
<1>1. CASE Level(s, n) = 0
  BY <1>1, NoChange DEF unset_element
<1>2. CASE Level(s, n) # 0
  <2> DEFINE var == WithoutValue(resolve_variable(s, n), index)
  <2>1. resolve_variable(s, n) \in Variable /\ Level(s, n) \in 1..Len(s)
        /\ ~resolve_variable(s, n).readonly
    BY <1>2, ResolvedType
  <2>2. var \in Variable /\ var.readonly = resolve_variable(s, n).readonly
    BY <2>1, WithoutValueType
  <2> HIDE DEF var
  <2>3. Sound(Bind(s, Level(s, n), n, var))
        /\ Changes(s, Bind(s, Level(s, n), n, var), Level(s, n), n)
    BY <2>1, <2>2, BindSound
  <2> QED
    BY <1>2, <2>3 DEF unset_element, Place, var
<1> QED
  BY <1>1, <1>2

\* n+=(...) changes one variable, where it is found.
LEMMA AppendWordsSound ==
  ASSUME NEW s, Sound(s), NEW n \in Names \ {"0"}, NEW words \in Seq(Words)
  PROVE  /\ Sound(AppendWords(s, n, words))
         /\ Changes(s, AppendWords(s, n, words), Place(s, n), n)
<1>1. CASE words = <<>>
  BY <1>1, NoChange DEF AppendWords
<1>2. CASE words # <<>>
  <2> DEFINE index == AppendIndex(s, n)
             old   == IF Level(s, n) = 0 THEN ArrayOf(NoElements) ELSE resolve_variable(s, n)
             val   == [i \in Indexes |->
                         IF i >= index /\ i < index + Len(words)
                         THEN words[i - index + 1] ELSE old.value[i]]
             var   == [old EXCEPT !.value = val]
  <2>1. index \in Nat
    <3>1. Level(s, n) # 0 => get_max_index(resolve_variable(s, n)) \in Nat
      BY ResolvedType, MaxIndexType DEF Indexes
    <3> QED
      BY <3>1 DEF AppendIndex
  <2>2. old \in Variable /\ ~old.readonly
    <3>1. NoElements \in ValueMap
      BY DEF NoElements, ValueMap
    <3> QED
      BY <3>1, ArrayType, ResolvedType
  <2> HIDE DEF index, old
  <2>3. val \in ValueMap
    <3>1. Len(words) \in Nat
      BY LenProperties
    <3>2. ASSUME NEW i \in Indexes, i >= index, i < index + Len(words)
          PROVE  words[i - index + 1] \in Words
      <4>1. i \in Nat
        BY IndexAssumption DEF Indexes
      <4>2. i - index + 1 \in 1..Len(words)
        BY <2>1, <3>1, <3>2, <4>1
      <4> QED
        BY <4>2, ElementOfSeq
    <3>3. \A i \in Indexes : old.value[i] \in Words \cup {Absent}
      BY <2>2 DEF Variable, ValueMap
    <3> QED
      BY <3>2, <3>3 DEF ValueMap
  <2> HIDE DEF val
  <2>4. var \in Variable /\ ~var.readonly
    BY <2>2, <2>3 DEF Variable
  <2>5. AppendWords(s, n, words) = Bind(s, Place(s, n), n, var)
    BY <1>2 DEF AppendWords, Place, var, val, old, index
  <2>6. Place(s, n) \in 1..Len(s)
    BY PlaceFacts
  <2> HIDE DEF var
  <2> QED
    BY <2>4, <2>5, <2>6, BindSound
<1> QED
  BY <1>1, <1>2

----------------------------------------------------------------------------
(* The scopes around a command.                                            *)

\* At most one scope has lost its variable n.
LosesOne(s, r, n) == \E k \in 1..Len(s) + 1 : Binders(s, n) \subseteq Binders(r, n) \cup {k}

\* What HiddenVariablesKeep, ReadonlyKept and UnsetRevealsNext ask of a command
\* that ends: the scopes are as many as before, $0 is as before, no variable
\* is lost twice, and a scope other than the innermost one differs only at a
\* variable whose level it is.
Quiet(s, r) ==
    /\ Sound(r)
    /\ Len(r) = Len(s)
    /\ r[1]["0"] = s[1]["0"]
    /\ \A n \in Names : LosesOne(s, r, n)
    /\ \A n \in Names, i \in 2..Len(s) :
          (i < Len(s) /\ r[i][n] # s[i][n]) => i = Level(s, n)

\* A change at the level of its variable, in the global scope or in the
\* innermost one is quiet.
LEMMA DirectQuiet ==
  ASSUME NEW s, Sound(s), NEW r, Sound(r), NEW n \in Names \ {"0"},
         NEW i \in {1, Len(s), Place(s, n)}, Changes(s, r, i, n)
  PROVE  Quiet(s, r)
<1>1. Len(s) \in Nat /\ Len(s) >= 1 /\ "0" \in Names
  BY LenProperties DEF Sound, Names
<1>2. r[1]["0"] = s[1]["0"]
  BY <1>1 DEF Changes
<1>3. ASSUME NEW m \in Names, NEW j \in 2..Len(s), j < Len(s), r[j][m] # s[j][m]
      PROVE  j = Level(s, m)
  <2>1. j = i /\ m = n
    BY <1>1, <1>3 DEF Changes
  <2>2. i = Place(s, n)
    BY <1>1, <1>3, <2>1
  <2> QED
    BY <1>1, <1>3, <2>1, <2>2 DEF Place
<1>4. ASSUME NEW m \in Names PROVE LosesOne(s, r, m)
  <2>1. i \in 1..Len(s) + 1
    BY <1>1, LevelFacts DEF Place, Sound
  <2>2. Binders(s, m) \subseteq Binders(r, m) \cup {i}
    BY <1>1, <1>4 DEF Changes, Binders
  <2> QED
    BY <2>1, <2>2 DEF LosesOne
<1> QED
  BY <1>2, <1>3, <1>4 DEF Quiet, Changes

\* The empty scope and the prefixes are scopes without $0.
LEMMA EmptyScopeFacts ==
  EmptyScope \in Scope /\ \A n \in Names : EmptyScope[n] = None
  BY DEF EmptyScope, Scope

\* The assignments in front of a command.
LEMMA PrefixFacts ==
  ASSUME NEW prefix \in Prefixes
  PROVE  /\ prefix \in Scope
         /\ prefix["0"] = None
         /\ \A n \in Names : prefix[n] # None => ~prefix[n].readonly
<1>1. "0" \in Names
  BY DEF Names
<1>2. CASE prefix = EmptyScope
  BY <1>1, <1>2, EmptyScopeFacts
<1>3. CASE prefix # EmptyScope
  <2>1. PICK n \in PrefixNames, v \in Values :
           prefix = Prefix(n, v)
    BY <1>3 DEF Prefixes
  <2>2. n \in Names /\ n # "0" /\ v \in Words
    BY NamesAssumption, InputsAssumption DEF Names
  <2> DEFINE var == Scalar(v, FALSE, 0)
  <2>3. var \in Variable /\ ~var.readonly
    <3>1. 0 \in Indexes
      BY IndexAssumption DEF Indexes
    <3> QED
      BY <2>2, <3>1, ScalarType
  <2>4. prefix = [EmptyScope EXCEPT ![n] = var]
    BY <2>1 DEF Prefix
  <2> HIDE DEF var
  <2>5. prefix \in Scope /\ \A m \in Names : prefix[m] = IF m = n THEN var ELSE None
    BY <2>2, <2>3, <2>4, EmptyScopeFacts DEF Scope
  <2> QED
    BY <1>1, <2>2, <2>3, <2>5
<1> QED
  BY <1>2, <1>3

\* The scope of a command comes on top of the others.
LEMMA EnterSound ==
  ASSUME Sound(scopes), NEW prefix \in Prefixes
  PROVE  /\ Sound(Enter(prefix))
         /\ Len(Enter(prefix)) = Len(scopes) + 1
         /\ \A i \in 1..Len(scopes) : Enter(prefix)[i] = scopes[i]
         /\ Enter(prefix)[Len(scopes) + 1] = prefix
<1> DEFINE s == Enter(prefix)
<1>1. scopes \in Seq(Scope) /\ Len(scopes) \in Nat /\ Len(scopes) >= 1
  BY LenProperties DEF Sound
<1>2. /\ s \in Seq(Scope)
      /\ Len(s) = Len(scopes) + 1
      /\ \A i \in 1..Len(scopes) : s[i] = scopes[i]
      /\ s[Len(scopes) + 1] = prefix
  BY <1>1, PrefixFacts, AppendProperties DEF Enter
<1> HIDE DEF s
<1>3. Sound(s)
  BY <1>1, <1>2, PrefixFacts DEF Sound
<1> QED
  BY <1>2, <1>3 DEF s

\* All but the last element of a sequence.
LEMMA LeaveFacts ==
  ASSUME NEW S, NEW s \in Seq(S), Len(s) # 0
  PROVE  /\ Leave(s) \in Seq(S)
         /\ Len(Leave(s)) = Len(s) - 1
         /\ \A i \in 1..Len(s) - 1 : Leave(s)[i] = s[i]
<1> DEFINE n == Len(s) - 1
<1>1. Len(s) \in Nat /\ n \in Nat
  BY LenProperties
<1>2. \A i \in 1..n : s[i] \in S
  BY <1>1, ElementOfSeq
<1>3. 1 \in Int /\ n \in Int
  BY <1>1
<1>4. Leave(s) = SubSeq(s, 1, n)
  BY DEF Leave
<1> HIDE DEF n
<1>5. /\ SubSeq(s, 1, n) \in Seq(S)
      /\ Len(SubSeq(s, 1, n)) = IF 1 <= n THEN n - 1 + 1 ELSE 0
      /\ \A i \in 1..n - 1 + 1 : SubSeq(s, 1, n)[i] = s[1 + i - 1]
  BY <1>2, <1>3, SubSeqProperties
<1>6. n - 1 + 1 = n /\ (IF 1 <= n THEN n - 1 + 1 ELSE 0) = n
  BY <1>1
<1>7. \A i \in 1..n : SubSeq(s, 1, n)[i] = s[i]
  <2> TAKE i \in 1..n
  <2>1. 1 + i - 1 = i
    BY <1>1
  <2> QED
    BY <1>5, <1>6, <2>1
<1> QED
  BY <1>4, <1>5, <1>6, <1>7 DEF n

\* Leaving a scope keeps the others.
LEMMA LeaveSound ==
  ASSUME NEW s, Sound(s), Len(s) >= 2
  PROVE  /\ Sound(Leave(s))
         /\ Len(Leave(s)) = Len(s) - 1
         /\ \A i \in 1..Len(s) - 1 : Leave(s)[i] = s[i]
<1> DEFINE r == Leave(s)
<1>1. s \in Seq(Scope) /\ Len(s) \in Nat
  BY LenProperties DEF Sound
<1>2. /\ r \in Seq(Scope)
      /\ Len(r) = Len(s) - 1
      /\ \A i \in 1..Len(s) - 1 : r[i] = s[i]
  BY <1>1, LeaveFacts
<1> HIDE DEF r
<1>3. Sound(r)
  BY <1>1, <1>2 DEF Sound
<1> QED
  BY <1>2, <1>3 DEF r

\* A command with a scope of its own: what it does in this scope is forgotten,
\* and what else it does happens at the level of the variable outside.
LEMMA EnterLeaveQuiet ==
  ASSUME Sound(scopes), NEW prefix \in Prefixes, NEW r, Sound(r),
         NEW n \in Names \ {"0"},
         Changes(Enter(prefix), r, Place(Enter(prefix), n), n)
  PROVE  Quiet(scopes, Leave(r))
<1> DEFINE s == Enter(prefix)
           top == Len(scopes)
<1>1. /\ scopes \in Seq(Scope) /\ top \in Nat /\ top >= 1 /\ "0" \in Names
      /\ s \in Seq(Scope)
  BY LenProperties, EnterSound DEF Sound, Names
<1>2. Len(s) = top + 1 /\ \A i \in 1..top : s[i] = scopes[i]
  BY EnterSound
<1>3. Len(r) = top + 1
  BY <1>2 DEF Changes
<1>4. Sound(Leave(r)) /\ Len(Leave(r)) = top /\ \A i \in 1..top : Leave(r)[i] = r[i]
  BY <1>1, <1>3, LeaveSound
<1>5. Leave(r)[1]["0"] = scopes[1]["0"]
  BY <1>1, <1>2, <1>4 DEF Changes
<1>6. ASSUME NEW m \in Names, NEW i \in 2..top, i < top, Leave(r)[i][m] # scopes[i][m]
      PROVE  i = Level(scopes, m)
  <2>1. r[i][m] # s[i][m]
    BY <1>1, <1>2, <1>4, <1>6
  <2>2. m = n /\ i = Place(s, n)
    BY <1>1, <1>2, <1>6, <2>1 DEF Changes
  <2>3. i = Level(s, n) /\ Level(s, n) # 0
    BY <1>6, <2>2 DEF Place
  <2>4. s[i][n] # None /\ \A j \in Binders(s, n) : j <= i
    BY <1>1, <2>3, LevelFacts
  <2>5. Binders(scopes, n) \subseteq Binders(s, n) /\ i \in Binders(scopes, n)
    BY <1>1, <1>2, <1>6, <2>4 DEF Binders
  <2> QED
    BY <1>1, <2>2, <2>4, <2>5, LevelIs
<1>7. ASSUME NEW m \in Names PROVE LosesOne(scopes, Leave(r), m)
  <2>1. Place(s, n) \in 1..top + 1
    BY <1>1, <1>2, LevelFacts DEF Place
  <2>2. Binders(scopes, m) \subseteq Binders(Leave(r), m) \cup {Place(s, n)}
    <3> SUFFICES ASSUME NEW j \in 1..top, scopes[j][m] # None, j # Place(s, n)
                 PROVE  Leave(r)[j][m] # None
      BY <1>4 DEF Binders
    <3>1. j \in 1..Len(s)
      BY <1>1, <1>2
    <3>2. r[j][m] = s[j][m]
      BY <1>7, <3>1 DEF Changes
    <3> QED
      BY <1>2, <1>4, <3>2
  <2> QED
    BY <2>1, <2>2 DEF LosesOne
<1> QED
  BY <1>4, <1>5, <1>6, <1>7 DEF Quiet

\* A command without one: its assignments change the innermost scope.
LEMMA OverlaySound ==
  ASSUME Sound(scopes), NEW prefix \in Prefixes, CanOverlay(prefix)
  PROVE  /\ Sound(Overlay(prefix))
         /\ Len(Overlay(prefix)) = Len(scopes)
         /\ \A i \in 1..Len(scopes), n \in Names :
               Overlay(prefix)[i][n] =
                  IF i = Len(scopes) /\ prefix[n] # None THEN prefix[n] ELSE scopes[i][n]
<1> DEFINE top == Len(scopes)
           row == [n \in Names |-> IF prefix[n] # None THEN prefix[n] ELSE scopes[top][n]]
           o   == Overlay(prefix)
<1>1. scopes \in Seq(Scope) /\ top \in Nat /\ top >= 1 /\ top \in 1..top /\ "0" \in Names
  BY LenProperties DEF Sound, Names
<1>2. row \in Scope
  BY <1>1, PrefixFacts, ScopeAt DEF Scope
<1>3. \A n \in Names : row[n] = IF prefix[n] # None THEN prefix[n] ELSE scopes[top][n]
  OBVIOUS
<1>4. o = [scopes EXCEPT ![top] = row]
  BY DEF Overlay
<1> HIDE DEF row
<1>5. /\ [scopes EXCEPT ![top] = row] \in Seq(Scope)
      /\ Len([scopes EXCEPT ![top] = row]) = top
      /\ \A j \in 1..top : [scopes EXCEPT ![top] = row][j] = IF j = top THEN row ELSE scopes[j]
  BY <1>1, <1>2, ExceptSeq
<1> HIDE DEF o
<1>6. /\ o \in Seq(Scope)
      /\ Len(o) = top
      /\ \A i \in 1..top, n \in Names :
            o[i][n] = IF i = top /\ prefix[n] # None THEN prefix[n] ELSE scopes[i][n]
  BY <1>3, <1>4, <1>5
<1>7. top = 1 => \A n \in Names : prefix[n] = None
  BY EmptyScopeFacts DEF CanOverlay
<1>8. Sound(o)
  BY <1>1, <1>6, <1>7, PrefixFacts DEF Sound
<1> QED
  BY <1>6, <1>8 DEF o

\* Assignments in front of local, set, declare and eval touch the innermost scope only.
LEMMA OverlayQuiet ==
  ASSUME Sound(scopes), NEW prefix \in Prefixes, CanOverlay(prefix),
         NEW r, Sound(r), NEW n \in Names \ {"0"},
         NEW k \in {1, Len(scopes), Place(Overlay(prefix), n)},
         Changes(Overlay(prefix), r, k, n)
  PROVE  Quiet(scopes, r)
<1> DEFINE o == Overlay(prefix)
           top == Len(scopes)
<1>1. /\ scopes \in Seq(Scope) /\ top \in Nat /\ top >= 1 /\ "0" \in Names
      /\ o \in Seq(Scope)
  BY LenProperties, OverlaySound DEF Sound, Names
<1>2. /\ Len(o) = top
      /\ \A i \in 1..top, m \in Names :
            o[i][m] = IF i = top /\ prefix[m] # None THEN prefix[m] ELSE scopes[i][m]
  BY OverlaySound
<1>3. Len(r) = top
  BY <1>2 DEF Changes
<1>4. r[1]["0"] = scopes[1]["0"]
  BY <1>1, <1>2, PrefixFacts DEF Changes
<1>5. ASSUME NEW m \in Names, NEW i \in 2..top, i < top, r[i][m] # scopes[i][m]
      PROVE  i = Level(scopes, m)
  <2>1. r[i][m] # o[i][m]
    BY <1>1, <1>2, <1>5
  <2>2. m = n /\ i = k
    BY <1>1, <1>2, <1>5, <2>1 DEF Changes
  <2>3. i = Level(o, n) /\ Level(o, n) # 0
    BY <1>1, <1>5, <2>2 DEF Place
  <2>4. o[i][n] # None /\ \A j \in Binders(o, n) : j <= i
    BY <1>1, <2>3, LevelFacts
  <2>5. Binders(scopes, n) \subseteq Binders(o, n) /\ i \in Binders(scopes, n)
    BY <1>1, <1>2, <1>5, <2>4, PrefixFacts DEF Binders
  <2> QED
    BY <1>1, <2>2, <2>4, <2>5, LevelIs
<1>6. ASSUME NEW m \in Names PROVE LosesOne(scopes, r, m)
  <2>1. k \in 1..top + 1
    BY <1>1, <1>2, LevelFacts DEF Place
  <2>2. Binders(scopes, m) \subseteq Binders(r, m) \cup {k}
    <3> SUFFICES ASSUME NEW j \in 1..top, scopes[j][m] # None, j # k
                 PROVE  r[j][m] # None
      BY <1>3 DEF Binders
    <3>1. r[j][m] = o[j][m]
      BY <1>2, <1>6 DEF Changes
    <3>2. o[j][m] # None
      BY <1>2, <1>6
    <3> QED
      BY <3>1, <3>2
  <2> QED
    BY <2>1, <2>2 DEF LosesOne
<1> QED
  BY <1>3, <1>4, <1>5, <1>6 DEF Quiet

----------------------------------------------------------------------------
(* Steps.                                                                  *)

\* How a command that is neither a call nor a return may end.
Outcome ==
    \/ \E r : Quiet(scopes, r) /\ Becomes(r)
    \/ Throw(scopes)
    \/ mode' = "crashed" /\ UNCHANGED <<scopes, calls>>

\* Names a script assigns are names, and none of them is $0.
LEMMA NameFacts ==
  /\ VarNames \subseteq Names \ {"0"}
  /\ Targets \subseteq Names
  /\ "*" \in Names \ {"0"}
  /\ 0 \in Indexes
  BY NamesAssumption, IndexAssumption DEF Names, Indexes

\* set_value touches one variable, where it is found.
LEMMA SetValueQuiet ==
  ASSUME NEW s, Sound(s), NEW n \in Names \ {"0"}, NEW v \in Words, NEW index \in Indexes
  PROVE  Quiet(s, set_value(s, n, v, index))
  BY SetValueSound, DirectQuiet

\* Assignments are quiet.
LEMMA AssignmentOutcome ==
  ASSUME Sound(scopes), Assignments
  PROVE  Outcome
<1>1. PICK n \in VarNames :
         \/ \E v \in Values, index \in Indexes : Assign(n, v, index)
         \/ \E values \in ArrayValues : AssignArray(n, values)
         \/ \E words \in WordLists : AppendArray(n, words)
  BY DEF Assignments
<1>2. n \in Names \ {"0"}
  BY NameFacts
<1>3. ASSUME NEW v \in Values, NEW index \in Indexes, Assign(n, v, index)
      PROVE  Outcome
  BY <1>2, <1>3, SetValueQuiet, InputsAssumption DEF Assign, Outcome
<1>4. ASSUME NEW values \in ArrayValues, AssignArray(n, values)
      PROVE  Outcome
  <2>1. ArrayOf(values) \in Variable /\ ~ArrayOf(values).readonly
    BY InputsAssumption, ArrayType
  <2>2. 1 \in 1..Len(scopes)
    BY LenProperties DEF Sound
  <2>3. Sound(define(scopes, n, ArrayOf(values)))
        /\ Changes(scopes, define(scopes, n, ArrayOf(values)), 1, n)
    BY <1>2, <2>1, <2>2, BindSound DEF define
  <2>4. Quiet(scopes, define(scopes, n, ArrayOf(values)))
    BY <1>2, <2>3, DirectQuiet
  <2> QED
    BY <1>4, <2>4 DEF AssignArray, Outcome
<1>5. ASSUME NEW words \in WordLists, AppendArray(n, words)
      PROVE  Outcome
  <2>1. words \in Seq(Words)
    BY InputsAssumption
  <2>2. Quiet(scopes, AppendWords(scopes, n, words))
    BY <1>2, <2>1, AppendWordsSound, DirectQuiet
  <2> QED
    BY <1>5, <2>2 DEF AppendArray, Outcome
<1> QED
  BY <1>1, <1>3, <1>4, <1>5

\* Expansions that assign are quiet or throw.
LEMMA ExpansionOutcome ==
  ASSUME Sound(scopes), Expansions
  PROVE  Outcome
<1>1. PICK target \in Expandable, v \in Values :
         \/ AssignDefaultIfNull(target[1], v, target[2])
         \/ AssignDefaultIfUnset(target[1], v, target[2])
  BY DEF Expansions
<1>2. target[1] \in Names /\ target[2] \in Indexes /\ v \in Words
  BY NameFacts, InputsAssumption DEF Expandable
<1>3. IF IsReadonly(scopes, target[1])
      THEN Throw(scopes)
      ELSE Becomes(set_value(scopes, target[1], v, target[2]))
  BY <1>1 DEF AssignDefaultIfNull, AssignDefaultIfUnset
<1>4. target[1] = "0" => IsReadonly(scopes, target[1])
  BY ZeroLevel
<1> QED
  BY <1>2, <1>3, <1>4, SetValueQuiet DEF Outcome

\* Builtins are quiet, throw or crash.
LEMMA BuiltinOutcome ==
  ASSUME Sound(scopes), Builtins
  PROVE  Outcome
<1>1. PICK prefix \in Prefixes :
        \/ \E n \in Targets, v \in Values : Read(prefix, n, v)
        \/ \E n \in VarNames, v \in Values :
              \/ Export(prefix, n, v)
              \/ \E index \in Indexes : Local(prefix, n, v, index)
              \/ Declare(prefix, n, v)
              \/ DeclareGlobal(prefix, n, v)
        \/ \E n \in VarNames, values \in ArrayValues :
              \/ LocalArray(prefix, n, values)
              \/ \E option_global \in BOOLEAN : DeclareArray(prefix, n, values, option_global)
        \/ \E n \in Targets : Unset(prefix, n)
        \/ \E n \in Targets, index \in Indexes : UnsetElement(prefix, n, index)
        \/ Eval(prefix)
        \/ \E args \in ArgLists : SetPositional(prefix, args)
        \/ \E k \in ShiftNumbers : Shift(prefix, k)
  BY DEF Builtins
<1> DEFINE e == Enter(prefix)
           o == Overlay(prefix)
<1>2. Sound(e)
  BY EnterSound
<1>3. IsReadonly(e, "0")
  BY <1>2, ZeroLevel
<1>4. CanOverlay(prefix) => Sound(o) /\ Len(o) = Len(scopes)
  BY OverlaySound
<1>5. Len(scopes) \in Nat /\ Len(scopes) >= 1
  BY LenProperties DEF Sound
\* What the commands without a scope of their own do.
<1>6. ASSUME CanOverlay(prefix), NEW n \in Names \ {"0"}, NEW v \in Words,
             Becomes(set_value(o, n, v, 0))
      PROVE  Outcome
  <2>1. Quiet(scopes, set_value(o, n, v, 0))
    BY <1>4, <1>6, NameFacts, SetValueSound, OverlayQuiet
  <2> QED
    BY <1>6, <2>1 DEF Outcome
<1>7. ASSUME CanOverlay(prefix), NEW n \in Names \ {"0"}, NEW var \in Variable,
             ~var.readonly, Becomes(define_local(o, n, var)) \/ Becomes(define(o, n, var))
      PROVE  Outcome
  <2>1. Sound(o) /\ Len(o) = Len(scopes) /\ 1 \in 1..Len(o) /\ Len(o) \in 1..Len(o)
    BY <1>4, <1>5, <1>7
  <2>2. ASSUME NEW k \in {1, Len(scopes)}
        PROVE  Quiet(scopes, Bind(o, k, n, var))
    <3>1. k \in 1..Len(o)
      BY <2>1
    <3>2. Sound(Bind(o, k, n, var)) /\ Changes(o, Bind(o, k, n, var), k, n)
      BY <1>7, <2>1, <3>1, BindSound
    <3> QED
      BY <1>7, <3>2, OverlayQuiet
  <2>3. Quiet(scopes, define_local(o, n, var)) /\ Quiet(scopes, define(o, n, var))
    BY <2>1, <2>2 DEF define_local, define
  <2> QED
    BY <1>7, <2>3 DEF Outcome
<1>8. ASSUME NEW v \in Words, NEW index \in Indexes
      PROVE  Scalar(v, FALSE, index) \in Variable /\ ~Scalar(v, FALSE, index).readonly
  BY ScalarType
<1>9. ASSUME NEW values \in ArrayValues
      PROVE  ArrayOf(values) \in Variable /\ ~ArrayOf(values).readonly
  BY InputsAssumption, ArrayType
<1>10. Len(scopes) # 1 => CanOverlay(prefix)
  <2>1. \A k \in Nat : k >= 1 => k = 1 \/ k > 1
    OBVIOUS
  <2> QED
    BY <1>5, <2>1, Zenon DEF CanOverlay
<1> HIDE DEF e, o
<1>11. ASSUME NEW n \in Targets, NEW v \in Values, Read(prefix, n, v)
       PROVE  Outcome
  <2>1. n \in Names /\ (n = "0" => IsReadonly(e, n))
    BY <1>3, NameFacts
  <2>2. n # "0" => Quiet(scopes, Leave(set_value(e, n, v, 0)))
    BY <1>2, <2>1, NameFacts, InputsAssumption, SetValueSound, EnterLeaveQuiet DEF e
  <2> QED
    BY <1>11, <2>1, <2>2 DEF Read, Outcome, e
<1>12. ASSUME NEW n \in VarNames, NEW v \in Values, Export(prefix, n, v)
       PROVE  Outcome
  <2>1. Quiet(scopes, Leave(set_value(e, n, v, 0)))
    BY <1>2, NameFacts, InputsAssumption, SetValueSound, EnterLeaveQuiet DEF e
  <2> QED
    BY <1>12, <2>1 DEF Export, Outcome, e
<1>13. ASSUME NEW n \in VarNames, NEW v \in Values, NEW index \in Indexes,
              Local(prefix, n, v, index)
       PROVE  Outcome
  BY <1>7, <1>8, <1>10, <1>13, NameFacts, InputsAssumption DEF Local, Outcome, o
<1>14. ASSUME NEW n \in VarNames, NEW v \in Values, Declare(prefix, n, v)
       PROVE  Outcome
  <2>1. CASE ~CanOverlay(prefix)
    BY <1>14, <2>1 DEF Declare, Outcome
  <2>2. CASE CanOverlay(prefix) /\ Len(scopes) > 1
    BY <1>7, <1>8, <1>14, <2>2, NameFacts, InputsAssumption DEF Declare, o
  <2>3. CASE CanOverlay(prefix) /\ ~(Len(scopes) > 1)
    <3>1. Becomes(set_value(scopes, n, v, 0))
      BY <1>14, <2>3 DEF Declare
    <3> QED
      BY <3>1, NameFacts, InputsAssumption, SetValueQuiet DEF Outcome
  <2> QED
    BY <2>1, <2>2, <2>3
<1>15. ASSUME NEW n \in VarNames, NEW v \in Values, DeclareGlobal(prefix, n, v)
       PROVE  Outcome
  BY <1>6, <1>15, NameFacts, InputsAssumption DEF DeclareGlobal, Outcome, o
<1>16. ASSUME NEW n \in VarNames, NEW values \in ArrayValues, LocalArray(prefix, n, values)
       PROVE  Outcome
  BY <1>7, <1>9, <1>10, <1>16, NameFacts DEF LocalArray, Outcome, o
<1>17. ASSUME NEW n \in VarNames, NEW values \in ArrayValues,
              NEW option_global \in BOOLEAN, DeclareArray(prefix, n, values, option_global)
       PROVE  Outcome
  BY <1>7, <1>9, <1>17, NameFacts DEF DeclareArray, Outcome, o
<1>18. ASSUME NEW n \in Targets, Unset(prefix, n)
       PROVE  Outcome
  <2>1. n \in Names
    BY NameFacts
  <2>2. n # "0" => Quiet(scopes, Leave(unset(e, n)))
    BY <1>2, <2>1, UnsetSound, EnterLeaveQuiet DEF e
  <2> QED
    BY <1>18, <2>2 DEF Unset, Outcome, e
<1>19. ASSUME NEW n \in Targets, NEW index \in Indexes, UnsetElement(prefix, n, index)
       PROVE  Outcome
  <2>1. n \in Names
    BY NameFacts
  <2>2. n # "0" => Quiet(scopes, Leave(unset_element(e, n, index)))
    BY <1>2, <2>1, UnsetElementSound, EnterLeaveQuiet DEF e
  <2> QED
    BY <1>19, <2>2 DEF UnsetElement, Outcome, e
<1>20. ASSUME Eval(prefix)
       PROVE  Outcome
  <2>1. CanOverlay(prefix) => Quiet(scopes, o)
    BY <1>4, NoChange, NameFacts, OverlayQuiet DEF o
  <2> QED
    BY <1>20, <2>1 DEF Eval, Outcome, o
<1>21. ASSUME NEW args \in ArgLists, SetPositional(prefix, args)
       PROVE  Outcome
  <2>1. Positional(args) \in Variable /\ ~Positional(args).readonly
    BY InputsAssumption, PositionalType
  <2> QED
    BY <1>7, <1>21, <2>1, NameFacts DEF SetPositional, Outcome, o
<1>22. ASSUME NEW k \in ShiftNumbers, Shift(prefix, k)
       PROVE  Outcome
  <2> DEFINE var == resolve_variable(e, "*")
             new == [var EXCEPT !.value = Shifted(var, k)]
  <2>0. Quiet(scopes, scopes)
    <3>1. 1 \in 1..Len(scopes) + 1
      BY LenProperties DEF Sound
    <3>2. \A n \in Names : LosesOne(scopes, scopes, n)
      BY <3>1 DEF LosesOne
    <3> QED
      BY <3>2 DEF Quiet
  <2>1. CASE k < 0
    BY <1>22, <2>0, <2>1 DEF Shift, Outcome
  <2>2. CASE ~(k < 0) /\ Level(e, "*") = 0
    BY <1>22, <2>2 DEF Shift, Outcome, e
  <2>3. CASE ~(k < 0) /\ Level(e, "*") # 0
    <3>1. var \in Variable /\ Level(e, "*") \in 1..Len(e) /\ ~var.readonly
      BY <1>2, <2>3, NameFacts, ResolvedType
    <3>2. Shifted(var, k) \in ValueMap
      BY <3>1, ShiftedType
    <3> HIDE DEF var
    <3>3. new \in Variable /\ ~new.readonly
      BY <3>1, <3>2 DEF Variable
    <3> HIDE DEF new
    <3>4. Sound(Bind(e, Level(e, "*"), "*", new))
          /\ Changes(e, Bind(e, Level(e, "*"), "*", new), Place(e, "*"), "*")
      BY <1>2, <2>3, <3>1, <3>3, NameFacts, BindSound DEF Place
    <3>5. Quiet(scopes, Leave(Bind(e, Level(e, "*"), "*", new)))
      BY <3>4, NameFacts, EnterLeaveQuiet DEF e
    <3>6. \/ Becomes(scopes)
          \/ Becomes(Leave(Bind(e, Level(e, "*"), "*", new)))
      BY <1>22, <2>3 DEF Shift, new, var, e
    <3> QED
      BY <2>0, <3>5, <3>6 DEF Outcome
  <2> QED
    BY <2>1, <2>2, <2>3
<1> QED
  BY <1>1, <1>11, <1>12, <1>13, <1>14, <1>15, <1>16, <1>17, <1>18, <1>19,
     <1>20, <1>21, <1>22

----------------------------------------------------------------------------
(* Calls and returns.                                                      *)

\* FileOf, with the stack of calls as a parameter.
FileIn(c, k) ==
    LET sources == {j \in 1..k : c[j].kind = "source"}
    IN IF sources = {} THEN Script
       ELSE c[CHOOSE j \in sources : \A l \in sources : l <= j].path

\* The file of k calls is that of the k-th one, or else the one before.
LEMMA FileInStep ==
  ASSUME NEW c, NEW k \in Nat \ {0}
  PROVE  FileIn(c, k) = IF c[k].kind = "source" THEN c[k].path ELSE FileIn(c, k - 1)
<1> DEFINE S == {j \in 1..k : c[j].kind = "source"}
<1>1. CASE c[k].kind = "source"
  <2>1. k \in S /\ \A j \in S : j <= k
    BY <1>1
  <2>2. \A i \in S : (\A j \in S : j <= i) => i = k
    BY <2>1
  <2>3. (CHOOSE i \in S : \A j \in S : j <= i) = k
    <3> HIDE DEF S
    <3> QED
      BY <2>1, <2>2
  <2>4. S # {}
    BY <2>1
  <2>5. FileIn(c, k) = IF S = {} THEN Script ELSE c[CHOOSE i \in S : \A j \in S : j <= i].path
    BY Zenon DEF FileIn
  <2> QED
    BY <1>1, <2>3, <2>4, <2>5
<1>2. CASE c[k].kind # "source"
  <2> DEFINE D == {j \in 1..(k - 1) : c[j].kind = "source"}
  <2>1. S = D
    BY <1>2
  <2>2. FileIn(c, k) = IF S = {} THEN Script ELSE c[CHOOSE i \in S : \A j \in S : j <= i].path
    BY Zenon DEF FileIn
  <2>3. FileIn(c, k - 1) = IF D = {} THEN Script ELSE c[CHOOSE i \in D : \A j \in D : j <= i].path
    BY Zenon DEF FileIn
  <2> HIDE DEF S, D
  <2> QED
    BY <1>2, <2>1, <2>2, <2>3
<1> QED
  BY <1>1, <1>2

\* It depends on the first k calls only, and is a path.
LEMMA FileInAgrees ==
  ASSUME NEW c, NEW d, NEW k \in Nat, \A j \in 1..k : c[j] = d[j]
  PROVE  FileIn(c, k) = FileIn(d, k)
<1> DEFINE S == {j \in 1..k : c[j].kind = "source"}
           D == {j \in 1..k : d[j].kind = "source"}
<1>1. S = D
  OBVIOUS
<1>2. FileIn(c, k) = IF S = {} THEN Script ELSE c[CHOOSE i \in S : \A j \in S : j <= i].path
  BY Zenon DEF FileIn
<1>3. FileIn(d, k) = IF D = {} THEN Script ELSE d[CHOOSE i \in D : \A j \in D : j <= i].path
  BY Zenon DEF FileIn
<1>4. ASSUME S # {} PROVE (CHOOSE i \in S : \A j \in S : j <= i) \in 1..k
  <2>1. S \in SUBSET (0..k) /\ S \in SUBSET (1..k)
    OBVIOUS
  <2> HIDE DEF S
  <2>2. \E i \in S : \A j \in S : j <= i
    BY <1>4, <2>1, LargestExists
  <2> QED
    BY <2>1, <2>2
<1> HIDE DEF S, D
<1> QED
  BY <1>1, <1>2, <1>3, <1>4

\* The file around the first k calls is a path.
LEMMA FileInType ==
  ASSUME NEW c \in Seq(Call), NEW k \in 0..Len(c)
  PROVE  FileIn(c, k) \in Words
<1> DEFINE S == {j \in 1..k : c[j].kind = "source"}
<1>1. FileIn(c, k) = IF S = {} THEN Script ELSE c[CHOOSE i \in S : \A j \in S : j <= i].path
  BY Zenon DEF FileIn
<1>2. ASSUME S # {} PROVE (CHOOSE i \in S : \A j \in S : j <= i) \in 1..Len(c)
  <2>1. Len(c) \in Nat
    BY LenProperties
  <2>2. S \in SUBSET (0..k) /\ S \in SUBSET (1..Len(c)) /\ k \in Nat
    BY <2>1
  <2> HIDE DEF S
  <2>3. \E i \in S : \A j \in S : j <= i
    BY <1>2, <2>2, LargestExists
  <2> QED
    BY <2>2, <2>3
<1> HIDE DEF S
<1>3. ASSUME NEW i \in 1..Len(c) PROVE c[i].path \in Words
  <2>1. c[i] \in Call
    BY ElementOfSeq
  <2> QED
    BY <2>1 DEF Call
<1> QED
  BY <1>1, <1>2, <1>3, PathsAssumption

\* A call adds a scope and leaves the others alone, $0 apart.
LEMMA CallFunctionScopes ==
  ASSUME Sound(scopes), NEW prefix \in Prefixes, NEW args \in ArgLists,
         CallFunction(prefix, args)
  PROVE  /\ Sound(scopes')
         /\ Len(scopes') = Len(scopes) + 1
         /\ \A i \in 1..Len(scopes), n \in Names : scopes'[i][n] = scopes[i][n]
<1> DEFINE e == Enter(prefix)
<1>1. /\ Sound(e) /\ Len(e) = Len(scopes) + 1
      /\ \A i \in 1..Len(scopes) : e[i] = scopes[i]
  BY EnterSound
<1>2. Len(scopes) \in Nat
  BY LenProperties DEF Sound
<1>3. Positional(args) \in Variable /\ ~Positional(args).readonly
  BY InputsAssumption, PositionalType
<1>4. scopes' = Bind(e, Len(e), "*", Positional(args))
  BY DEF CallFunction, define_local
<1> HIDE DEF e
<1>5. Sound(scopes') /\ Changes(e, scopes', Len(e), "*")
  <2>1. Len(e) \in 1..Len(e)
    BY <1>1, <1>2
  <2> QED
    BY <1>1, <1>3, <1>4, <2>1, NameFacts, BindSound
<1> QED
  BY <1>1, <1>2, <1>5 DEF Changes

\* What source does to the scopes.
LEMMA SourceScopes ==
  ASSUME Sound(scopes), NEW prefix \in Prefixes, NEW path \in Files,
         Source(prefix, path)
  PROVE  /\ Sound(scopes')
         /\ Len(scopes') = Len(scopes) + 1
         /\ scopes'[1]["0"] = Scalar(path, TRUE, 0)
         /\ \A i \in 2..Len(scopes), n \in Names : scopes'[i][n] = scopes[i][n]
<1>1. /\ Sound(Enter(prefix)) /\ Len(Enter(prefix)) = Len(scopes) + 1
      /\ \A i \in 1..Len(scopes) : Enter(prefix)[i] = scopes[i]
  BY EnterSound
<1>2. Len(scopes) \in Nat /\ path \in Words
  BY LenProperties, PathsAssumption DEF Sound
<1>3. scopes' = define(Enter(prefix), "0", Scalar(path, TRUE, 0))
  BY DEF Source
<1>4. /\ Sound(scopes') /\ Changes(Enter(prefix), scopes', 1, "0")
      /\ scopes'[1]["0"] = Scalar(path, TRUE, 0)
  BY <1>1, <1>2, <1>3, ZeroSound
<1> QED
  BY <1>1, <1>2, <1>4 DEF Changes

\* A return removes the innermost scope; the end of a file restores $0 as well.
LEMMA ReturnScopes ==
  ASSUME Sound(scopes), Len(scopes) >= 2, ReturnFromFunction
  PROVE  /\ Sound(scopes')
         /\ Len(scopes') = Len(scopes) - 1
         /\ \A i \in 1..Len(scopes) - 1 : scopes'[i] = scopes[i]
  BY LeaveSound DEF ReturnFromFunction

\* What the end of a sourced file does to the scopes.
LEMMA EndSourceScopes ==
  ASSUME Sound(scopes), Len(scopes) >= 2, EndSource, Innermost.original_path \in Words
  PROVE  /\ Sound(scopes')
         /\ Len(scopes') = Len(scopes) - 1
         /\ scopes'[1]["0"] = Scalar(Innermost.original_path, TRUE, 0)
         /\ \A i \in 2..Len(scopes) - 1, n \in Names : scopes'[i][n] = scopes[i][n]
<1> DEFINE var == Scalar(Innermost.original_path, TRUE, 0)
           d == define(scopes, "0", var)
<1>1. Len(scopes) \in Nat
  BY LenProperties DEF Sound
<1>2. Sound(d) /\ Changes(scopes, d, 1, "0") /\ d[1]["0"] = var
  BY ZeroSound
<1>3. scopes' = Leave(d)
  BY DEF EndSource
<1> HIDE DEF d, var
<1>4. /\ Sound(scopes') /\ Len(scopes') = Len(scopes) - 1
      /\ \A i \in 1..Len(scopes) - 1 : scopes'[i] = d[i]
  BY <1>2, <1>3, LeaveSound DEF Changes
<1>5. scopes'[1]["0"] = var
  BY <1>1, <1>2, <1>4
<1>6. \A i \in 2..Len(scopes) - 1, n \in Names : scopes'[i][n] = scopes[i][n]
  BY <1>1, <1>2, <1>4 DEF Changes
<1> QED
  BY <1>4, <1>5, <1>6 DEF var

----------------------------------------------------------------------------
(* The invariant.                                                          *)

IInv == TypeOK /\ Sound(scopes) /\ ZeroIsCurrentFile

\* The invariant in terms of FileIn, in both states of a step.
LEMMA ZeroIn ==
  /\ ZeroIsCurrentFile <=>
       (Running =>
          /\ scopes[1]["0"] = Scalar(FileIn(calls, Len(calls)), TRUE, 0)
          /\ \A k \in 1..Len(calls) :
                calls[k].kind = "source" => calls[k].original_path = FileIn(calls, k - 1))
  /\ ZeroIsCurrentFile' <=>
       (Running' =>
          /\ scopes'[1]["0"] = Scalar(FileIn(calls', Len(calls')), TRUE, 0)
          /\ \A k \in 1..Len(calls') :
                calls'[k].kind = "source" => calls'[k].original_path = FileIn(calls', k - 1))
  BY DEF ZeroIsCurrentFile, FileOf, FileIn

\* The invariant holds initially.
LEMMA InitIInv == Init => IInv
<1> SUFFICES ASSUME Init PROVE IInv
  OBVIOUS
<1> DEFINE var == Scalar(Script, TRUE, 0)
           row == [EmptyScope EXCEPT !["0"] = var]
<1>1. var \in Variable /\ var.readonly /\ var # None
  BY ScalarType, NameFacts, PathsAssumption, NoneAssumption
<1>2. scopes = <<row>> /\ calls = <<>> /\ mode = "running"
  BY DEF Init
<1>3. "0" \in Names
  BY DEF Names
<1> HIDE DEF var
<1>4. row \in Scope /\ row["0"] = var /\ \A n \in Names \ {"0"} : row[n] = None
  BY <1>1, <1>3, EmptyScopeFacts DEF Scope
<1> HIDE DEF row
<1>5. scopes \in Seq(Scope) /\ Len(scopes) = 1 /\ scopes[1] = row
  BY <1>2, <1>4
<1>6. Sound(scopes)
  BY <1>1, <1>3, <1>4, <1>5 DEF Sound
<1>7. TypeOK
  BY <1>2, <1>5, EmptySeq DEF TypeOK
<1>8. Len(calls) = 0
  BY <1>2
<1>9. FileIn(calls, Len(calls)) = Script
  BY <1>8 DEF FileIn
<1>10. ZeroIsCurrentFile
  <2>1. scopes[1]["0"] = Scalar(FileIn(calls, Len(calls)), TRUE, 0)
    BY <1>4, <1>5, <1>9 DEF var
  <2>2. \A k \in 1..Len(calls) : FALSE
    BY <1>8
  <2> QED
    BY <2>1, <2>2, ZeroIn
<1> QED
  BY <1>6, <1>7, <1>10 DEF IInv

\* An exception ends the run, with only the global scope left.
LEMMA ThrowIInv ==
  ASSUME NEW s, Sound(s), Throw(s)
  PROVE  IInv'
<1>1. scopes' = <<s[1]>> /\ calls' = <<>> /\ mode' = "thrown"
  BY DEF Throw
<1>2. Len(s) \in Nat /\ 1 \in 1..Len(s)
  BY LenProperties DEF Sound
<1>3. s[1] \in Scope
  BY <1>2, ScopeAt, NameFacts DEF Sound
<1>4. scopes' \in Seq(Scope) /\ Len(scopes') = 1 /\ scopes'[1] = s[1]
  BY <1>1, <1>3
<1>5. Sound(scopes')
  BY <1>2, <1>4 DEF Sound
<1>6. TypeOK'
  BY <1>1, <1>4, EmptySeq DEF TypeOK
<1>7. ZeroIsCurrentFile'
  BY <1>1, ZeroIn DEF Running
<1> QED
  BY <1>5, <1>6, <1>7 DEF IInv

\* Steps that are quiet, throw or crash keep the invariant.
LEMMA OutcomeIInv ==
  ASSUME IInv, Outcome
  PROVE  IInv'
<1>1. ASSUME NEW r, Quiet(scopes, r), Becomes(r)
      PROVE  IInv'
  <2>1. scopes' = r /\ calls' = calls /\ mode' = mode
    BY <1>1 DEF Becomes
  <2>2. Sound(scopes') /\ TypeOK'
    BY <1>1, <2>1 DEF Quiet, Sound, TypeOK, IInv
  <2>3. ZeroIsCurrentFile'
    BY <1>1, <2>1, ZeroIn DEF Quiet, Running, IInv
  <2> QED
    BY <2>2, <2>3 DEF IInv
<1>2. CASE Throw(scopes)
  BY <1>2, ThrowIInv DEF IInv
<1>3. CASE mode' = "crashed" /\ UNCHANGED <<scopes, calls>>
  <2>1. Sound(scopes') /\ TypeOK'
    BY <1>3 DEF Sound, TypeOK, IInv
  <2>2. ZeroIsCurrentFile'
    BY <1>3, ZeroIn DEF Running
  <2> QED
    BY <2>1, <2>2 DEF IInv
<1> QED
  BY <1>1, <1>2, <1>3 DEF Outcome

\* So does a call ...
LEMMA CallFunctionIInv ==
  ASSUME IInv, NEW prefix \in Prefixes, NEW args \in ArgLists, CallFunction(prefix, args)
  PROVE  IInv'
<1> DEFINE c   == [kind |-> "function", path |-> Empty, original_path |-> Empty]
           top == Len(calls)
<1>1. /\ calls \in Seq(Call) /\ top \in Nat /\ Len(scopes) = top + 1
      /\ Sound(scopes) /\ mode = "running"
  BY LenProperties DEF IInv, TypeOK, CallFunction, Running
<1>2. /\ Sound(scopes') /\ Len(scopes') = Len(scopes) + 1
      /\ \A i \in 1..Len(scopes), n \in Names : scopes'[i][n] = scopes[i][n]
  BY <1>1, CallFunctionScopes
<1>3. c \in Call /\ c.kind = "function"
  BY WordsAssumption DEF Call
<1>4. calls' = Append(calls, c) /\ mode' = mode
  BY DEF CallFunction
<1> HIDE DEF c
<1>5. /\ calls' \in Seq(Call) /\ Len(calls') = top + 1
      /\ \A k \in 1..top : calls'[k] = calls[k]
      /\ calls'[top + 1] = c
  BY <1>1, <1>3, <1>4, AppendProperties
<1>6. TypeOK'
  BY <1>1, <1>2, <1>4, <1>5 DEF TypeOK, Sound
<1>7. \A k \in 0..top : FileIn(calls', k) = FileIn(calls, k)
  <2> TAKE k \in 0..top
  <2>1. k \in Nat /\ \A j \in 1..k : calls'[j] = calls[j]
    BY <1>1, <1>5
  <2> QED
    BY <2>1, FileInAgrees
<1>8. FileIn(calls', top + 1) = FileIn(calls, top)
  <2>1. FileIn(calls', top + 1) = FileIn(calls', top + 1 - 1)
    BY <1>1, <1>3, <1>5, FileInStep
  <2> QED
    BY <1>1, <1>7, <2>1
<1>9. scopes'[1]["0"] = scopes[1]["0"]
  BY <1>1, <1>2 DEF Names
<1>10. scopes'[1]["0"] = Scalar(FileIn(calls', Len(calls')), TRUE, 0)
  BY <1>1, <1>5, <1>8, <1>9, ZeroIn DEF IInv, Running
<1>11. \A k \in 1..Len(calls') :
          calls'[k].kind = "source" => calls'[k].original_path = FileIn(calls', k - 1)
  BY <1>1, <1>3, <1>5, <1>7, ZeroIn DEF IInv, Running
<1>12. ZeroIsCurrentFile'
  BY <1>10, <1>11, ZeroIn
<1> QED
  BY <1>2, <1>6, <1>12 DEF IInv

\* ... a sourced file ...
LEMMA SourceIInv ==
  ASSUME IInv, NEW prefix \in Prefixes, NEW path \in Files, Source(prefix, path)
  PROVE  IInv'
<1> DEFINE c   == [kind |-> "source", path |-> path,
                   original_path |-> resolve(Enter(prefix), "0", 0)]
           top == Len(calls)
<1>1. /\ calls \in Seq(Call) /\ top \in Nat /\ Len(scopes) = top + 1
      /\ Sound(scopes) /\ mode = "running" /\ "0" \in Names
  BY LenProperties DEF IInv, TypeOK, Source, Running, Names
<1>2. /\ Sound(scopes') /\ Len(scopes') = Len(scopes) + 1
      /\ scopes'[1]["0"] = Scalar(path, TRUE, 0)
  BY <1>1, SourceScopes
\* What source saves is the file it is executed in.
<1>3. resolve(Enter(prefix), "0", 0) = FileIn(calls, top)
  <2>1. Sound(Enter(prefix)) /\ Enter(prefix)[1] = scopes[1]
    BY <1>1, EnterSound
  <2>2. resolve(Enter(prefix), "0", 0) = get_value(scopes[1]["0"], 0)
    BY <2>1, ZeroLevel DEF resolve, resolve_variable
  <2>3. scopes[1]["0"] = Scalar(FileIn(calls, top), TRUE, 0)
    BY <1>1, ZeroIn DEF IInv, Running
  <2>4. FileIn(calls, top) \in Words
    BY <1>1, FileInType
  <2> QED
    BY <2>2, <2>3, <2>4, NameFacts, WordsAssumption DEF get_value, Elements, Scalar, NoElements
<1>4. c \in Call /\ c.kind = "source" /\ c.path = path /\ c.original_path = FileIn(calls, top)
  <2>1. FileIn(calls, top) \in Words /\ path \in Words
    BY <1>1, FileInType, PathsAssumption
  <2>2. c = [kind |-> "source", path |-> path, original_path |-> FileIn(calls, top)]
    BY <1>3
  <2> HIDE DEF c
  <2> QED
    BY <2>1, <2>2 DEF Call
<1>5. calls' = Append(calls, c) /\ mode' = mode
  BY DEF Source
<1> HIDE DEF c
<1>6. /\ calls' \in Seq(Call) /\ Len(calls') = top + 1
      /\ \A k \in 1..top : calls'[k] = calls[k]
      /\ calls'[top + 1] = c
  BY <1>1, <1>4, <1>5, AppendProperties
<1>7. TypeOK'
  BY <1>1, <1>2, <1>5, <1>6 DEF TypeOK, Sound
<1>8. \A k \in 0..top : FileIn(calls', k) = FileIn(calls, k)
  <2> TAKE k \in 0..top
  <2>1. k \in Nat /\ \A j \in 1..k : calls'[j] = calls[j]
    BY <1>1, <1>6
  <2> QED
    BY <2>1, FileInAgrees
<1>9. FileIn(calls', top + 1) = path
  BY <1>1, <1>4, <1>6, FileInStep
<1>10. \A k \in 1..Len(calls') :
          calls'[k].kind = "source" => calls'[k].original_path = FileIn(calls', k - 1)
  BY <1>1, <1>4, <1>6, <1>8, ZeroIn DEF IInv, Running
<1>11. ZeroIsCurrentFile'
  BY <1>2, <1>6, <1>9, <1>10, ZeroIn
<1> QED
  BY <1>2, <1>7, <1>11 DEF IInv

\* Both ways to end a call: the files of the remaining calls are as before.
LEMMA LeaveCalls ==
  ASSUME IInv, calls # <<>>, calls' = Leave(calls)
  PROVE  /\ calls' \in Seq(Call) /\ Len(calls') = Len(calls) - 1
         /\ Len(calls) \in Nat \ {0} /\ Len(scopes) >= 2
         /\ \A k \in 1..Len(calls) - 1 : calls'[k] = calls[k]
         /\ \A k \in 0..Len(calls) - 1 : FileIn(calls', k) = FileIn(calls, k)
<1>1. calls \in Seq(Call) /\ Len(calls) \in Nat \ {0} /\ Len(scopes) = Len(calls) + 1
  BY EmptySeq DEF IInv, TypeOK
<1>2. /\ Leave(calls) \in Seq(Call) /\ Len(Leave(calls)) = Len(calls) - 1
      /\ \A k \in 1..Len(calls) - 1 : Leave(calls)[k] = calls[k]
  BY <1>1, LeaveFacts
<1>3. /\ calls' \in Seq(Call) /\ Len(calls') = Len(calls) - 1
      /\ \A k \in 1..Len(calls) - 1 : calls'[k] = calls[k]
  BY <1>2
<1>4. ASSUME NEW k \in 0..Len(calls) - 1
      PROVE  FileIn(calls', k) = FileIn(calls, k)
  <2>1. k \in Nat /\ \A j \in 1..k : calls'[j] = calls[j]
    BY <1>1, <1>3
  <2> QED
    BY <2>1, FileInAgrees
<1> QED
  BY <1>1, <1>3, <1>4

\* ... the end of a call ...
LEMMA ReturnIInv ==
  ASSUME IInv, ReturnFromFunction
  PROVE  IInv'
<1> DEFINE top == Len(calls)
<1>1. calls # <<>> /\ calls' = Leave(calls) /\ mode = "running" /\ mode' = mode
      /\ calls[top].kind # "source"
  BY DEF ReturnFromFunction, Running, Innermost
<1>2. /\ calls' \in Seq(Call) /\ Len(calls') = top - 1
      /\ top \in Nat \ {0} /\ Len(scopes) >= 2
      /\ \A k \in 1..top - 1 : calls'[k] = calls[k]
      /\ \A k \in 0..top - 1 : FileIn(calls', k) = FileIn(calls, k)
  BY <1>1, LeaveCalls
<1>3. /\ Sound(scopes') /\ Len(scopes') = Len(scopes) - 1
      /\ scopes'[1] = scopes[1]
  BY <1>2, ReturnScopes DEF IInv, TypeOK
<1>4. TypeOK'
  BY <1>1, <1>2, <1>3 DEF TypeOK, Sound, IInv
<1>5. FileIn(calls', top - 1) = FileIn(calls, top)
  BY <1>1, <1>2, FileInStep
<1>6. scopes'[1]["0"] = Scalar(FileIn(calls', Len(calls')), TRUE, 0)
  BY <1>1, <1>2, <1>3, <1>5, ZeroIn DEF IInv, Running
<1>7. \A k \in 1..Len(calls') :
         calls'[k].kind = "source" => calls'[k].original_path = FileIn(calls', k - 1)
  BY <1>1, <1>2, ZeroIn DEF IInv, Running
<1>8. ZeroIsCurrentFile'
  BY <1>6, <1>7, ZeroIn
<1> QED
  BY <1>3, <1>4, <1>8 DEF IInv

\* ... and the end of a file.
LEMMA EndSourceIInv ==
  ASSUME IInv, EndSource
  PROVE  IInv'
<1> DEFINE top == Len(calls)
<1>1. calls # <<>> /\ calls' = Leave(calls) /\ mode = "running" /\ mode' = mode
      /\ calls[top].kind = "source"
  BY DEF EndSource, Running, Innermost
<1>2. /\ calls' \in Seq(Call) /\ Len(calls') = top - 1
      /\ top \in Nat \ {0} /\ Len(scopes) >= 2
      /\ \A k \in 1..top - 1 : calls'[k] = calls[k]
      /\ \A k \in 0..top - 1 : FileIn(calls', k) = FileIn(calls, k)
  BY <1>1, LeaveCalls
<1>3. Innermost.original_path = FileIn(calls, top - 1)
  BY <1>1, <1>2, ZeroIn DEF IInv, Running, Innermost
<1>4. Innermost.original_path \in Words
  BY <1>2, <1>3, FileInType DEF IInv, TypeOK
<1>5. /\ Sound(scopes') /\ Len(scopes') = Len(scopes) - 1
      /\ scopes'[1]["0"] = Scalar(Innermost.original_path, TRUE, 0)
  BY <1>2, <1>4, EndSourceScopes DEF IInv
<1>6. TypeOK'
  BY <1>1, <1>2, <1>5 DEF TypeOK, Sound, IInv
<1>7. scopes'[1]["0"] = Scalar(FileIn(calls', Len(calls')), TRUE, 0)
  <2>1. FileIn(calls', Len(calls')) = FileIn(calls, top - 1)
    BY <1>2
  <2> QED
    BY <1>3, <1>5, <2>1
<1>8. \A k \in 1..Len(calls') :
         calls'[k].kind = "source" => calls'[k].original_path = FileIn(calls', k - 1)
  BY <1>1, <1>2, ZeroIn DEF IInv, Running
<1>9. ZeroIsCurrentFile'
  BY <1>7, <1>8, ZeroIn
<1> QED
  BY <1>5, <1>6, <1>9 DEF IInv

\* Every step keeps the invariant.
LEMMA NextIInv == IInv /\ [Next]_vars => IInv'
<1> SUFFICES ASSUME IInv, [Next]_vars PROVE IInv'
  OBVIOUS
<1>1. CASE Assignments \/ Expansions \/ Builtins
  <2>1. Outcome
    BY <1>1, AssignmentOutcome, ExpansionOutcome, BuiltinOutcome DEF IInv
  <2> QED
    BY <2>1, OutcomeIInv
<1>2. CASE Calls
  <2>1. ASSUME NEW prefix \in Prefixes, NEW path \in Files, SourceFails(prefix, path)
        PROVE  IInv'
    <3>1. Sound(define(Enter(prefix), "0", Scalar(path, TRUE, 0)))
      BY PathsAssumption, EnterSound, ZeroSound DEF IInv
    <3> QED
      BY <2>1, <3>1, ThrowIInv DEF SourceFails
  <2> QED
    BY <1>2, <2>1, CallFunctionIInv, SourceIInv, ReturnIInv, EndSourceIInv DEF Calls
<1>3. CASE UNCHANGED vars
  <2>1. Sound(scopes') /\ TypeOK'
    BY <1>3 DEF vars, Sound, TypeOK, IInv
  <2>2. ZeroIsCurrentFile'
    BY <1>3, ZeroIn DEF vars, Running, IInv
  <2> QED
    BY <2>1, <2>2 DEF IInv
<1> QED
  BY <1>1, <1>2, <1>3 DEF Next, Stopped

\* The inductive invariant of Scopes.
LEMMA InvariantHolds == Spec => []IInv
  BY InitIInv, NextIInv, PTL DEF Spec

----------------------------------------------------------------------------
(* Theorems.                                                               *)

\* The symbol table keeps its shape: there is one local scope for every active
\* function or sourced file, after any command, return or exception.
THEOREM TypeCorrect == Spec => []TypeOK
<1>1. IInv => TypeOK
  BY DEF IInv
<1> QED
  BY <1>1, InvariantHolds, PTL

\* The global $0 is the only readonly variable: the assertion of
\* variable::shift cannot fail, and unset and read are refused for $0 only.
THEOREM ReadonlyIsZero == Spec => []OnlyZeroIsReadonly
<1>1. IInv => OnlyZeroIsReadonly
  BY DEF IInv, Sound, OnlyZeroIsReadonly
<1> QED
  BY <1>1, InvariantHolds, PTL

\* $0 follows the nesting of sourced files and function calls to any depth, and
\* what "source" saved is what it has to put back.
THEOREM ZeroFollowsFiles == Spec => []ZeroIsCurrentFile
<1>1. IInv => ZeroIsCurrentFile
  BY DEF IInv
<1> QED
  BY <1>1, InvariantHolds, PTL

\* A caller's variable changes only while it is the visible one: dynamic scoping,
\* for any number of scopes and any command.
THEOREM HiddenVariablesStay == Spec => HiddenVariablesKeep
<1> DEFINE Kept == \A n \in Names, i \in 2..Len(scopes) :
                      (i < Len(scopes) /\ i <= Len(scopes') /\ scopes'[i][n] # scopes[i][n])
                         => i = Level(scopes, n)
<1>1. ASSUME IInv, [Next]_vars PROVE Kept
  <2>1. Sound(scopes) /\ Len(scopes) \in Nat
    BY <1>1, LenProperties DEF IInv, Sound
  <2>2. CASE Assignments \/ Expansions \/ Builtins
    <3>1. Outcome
      BY <2>1, <2>2, AssignmentOutcome, ExpansionOutcome, BuiltinOutcome
    <3>2. Throw(scopes) => Len(scopes') = 1
      BY DEF Throw
    <3> QED
      BY <2>1, <3>1, <3>2 DEF Outcome, Becomes, Quiet
  <2>3. CASE Calls
    <3>1. ASSUME NEW prefix \in Prefixes, NEW args \in ArgLists, CallFunction(prefix, args)
          PROVE  Kept
      BY <2>1, <3>1, CallFunctionScopes
    <3>2. ASSUME NEW prefix \in Prefixes, NEW path \in Files, Source(prefix, path)
          PROVE  Kept
      BY <2>1, <3>2, SourceScopes
    <3>3. ASSUME NEW prefix \in Prefixes, NEW path \in Files, SourceFails(prefix, path)
          PROVE  Kept
      BY <2>1, <3>3 DEF SourceFails, Throw
    <3>4. CASE ReturnFromFunction
      <4>1. Len(scopes) >= 2
        BY <1>1, <3>4, LeaveCalls DEF ReturnFromFunction
      <4> QED
        BY <2>1, <3>4, <4>1, ReturnScopes
    <3>5. CASE EndSource
      <4>1. Len(scopes) >= 2 /\ Len(calls) \in 1..Len(calls)
        BY <1>1, <3>5, LeaveCalls DEF EndSource
      <4>2. Innermost \in Call
        BY <1>1, <4>1, ElementOfSeq DEF IInv, TypeOK, Innermost
      <4> QED
        BY <2>1, <3>5, <4>1, <4>2, EndSourceScopes DEF Call
    <3> QED
      BY <2>3, <3>1, <3>2, <3>3, <3>4, <3>5 DEF Calls
  <2>4. CASE UNCHANGED vars
    BY <2>4 DEF vars
  <2> QED
    BY <1>1, <2>2, <2>3, <2>4 DEF Next, Stopped
<1> DEFINE Visible == \A n \in Names, i \in 2..Len(scopes) :
                      (i < Len(scopes) /\ i <= Len(scopes') /\ scopes'[i][n] # scopes[i][n])
                         => i \in Binders(scopes, n) /\ \A j \in Binders(scopes, n) : j <= i
<1>2. ASSUME IInv, [Next]_vars PROVE Visible
  <2>1. scopes \in Seq(Scope) /\ Kept
    BY <1>1, <1>2 DEF IInv, TypeOK
  <2>2. ASSUME NEW n \in Names, NEW i \in 2..Len(scopes), i = Level(scopes, n)
        PROVE  i \in Binders(scopes, n) /\ \A j \in Binders(scopes, n) : j <= i
    BY <2>1, <2>2, LevelFacts DEF Binders
  <2> QED
    BY <2>1, <2>2
<1>3. IInv /\ [Next]_vars => [Visible]_vars
  BY <1>2
<1> QED
  BY <1>3, InvariantHolds, PTL DEF Spec, HiddenVariablesKeep

\* Whatever a script does, a readonly variable of the global scope is replaced only by
\* "source" and by the end of a file, or the interpreter is abandoned.
THEOREM ReadonlyStays == Spec => ReadonlyKept
<1> DEFINE Kept == \A n \in Names :
                      (scopes[1][n] # None /\ scopes[1][n].readonly /\ scopes'[1][n] # scopes[1][n])
                         => calls' # calls \/ mode' = "thrown"
<1>1. ASSUME IInv, [Next]_vars, calls' = calls, mode' # "thrown"
      PROVE  scopes'[1]["0"] = scopes[1]["0"]
  <2>1. CASE Assignments \/ Expansions \/ Builtins
    <3>1. Outcome
      BY <1>1, <2>1, AssignmentOutcome, ExpansionOutcome, BuiltinOutcome DEF IInv
    <3> QED
      BY <1>1, <3>1 DEF Outcome, Becomes, Quiet, Throw
  <2>2. CASE Calls
    <3>1. calls \in Seq(Call) /\ Len(calls) \in Nat
      BY <1>1, LenProperties DEF IInv, TypeOK
    <3>2. \A c : Append(calls, c) # calls
      BY <3>1
    <3>3. calls # <<>> => Leave(calls) # calls
      <4>1. calls # <<>> => Len(Leave(calls)) = Len(calls) - 1
        BY <3>1, EmptySeq, LeaveFacts
      <4> QED
        BY <3>1, <4>1
    <3> QED
      BY <1>1, <2>2, <3>2, <3>3
         DEF Calls, CallFunction, Source, SourceFails, Throw, ReturnFromFunction, EndSource
  <2>3. CASE UNCHANGED vars
    BY <2>3 DEF vars
  <2> QED
    BY <1>1, <2>1, <2>2, <2>3 DEF Next, Stopped
<1>2. ASSUME IInv, NEW n \in Names, scopes[1][n] # None, scopes[1][n].readonly
      PROVE  n = "0"
  <2>1. 1 \in 1..Len(scopes)
    BY <1>2, LenProperties DEF IInv, Sound
  <2> QED
    BY <1>2, <2>1 DEF IInv, Sound
<1>3. IInv /\ [Next]_vars => [Kept]_vars
  BY <1>1, <1>2
<1> QED
  BY <1>3, InvariantHolds, PTL DEF Spec, ReadonlyKept

\* set -- of a function or a sourced file replaces the positional parameters of that
\* call and of no other, for any number of active calls.
THEOREM SetStaysLocal == Spec => SetIsLocal
<1> DEFINE Apart == \A prefix \in Prefixes, args \in ArgLists :
                       (SetPositional(prefix, args) /\ calls # <<>>) =>
                          \A i \in 1..Len(scopes) - 1 : scopes'[i]["*"] = scopes[i]["*"]
<1>1. ASSUME IInv, NEW prefix \in Prefixes, NEW args \in ArgLists,
             SetPositional(prefix, args), calls # <<>>, NEW i \in 1..Len(scopes) - 1
      PROVE  scopes'[i]["*"] = scopes[i]["*"]
  <2> DEFINE o == Overlay(prefix)
             top == Len(scopes)
  <2>1. /\ Len(calls) \in Nat \ {0} /\ top = Len(calls) + 1
        /\ i \in 1..top /\ i # top /\ "*" \in Names
    BY <1>1, EmptySeq, NameFacts DEF IInv, TypeOK
  <2>2. CanOverlay(prefix)
    BY <2>1 DEF CanOverlay
  <2>3. /\ Sound(o) /\ Len(o) = top
        /\ o[i]["*"] = scopes[i]["*"]
    BY <1>1, <2>1, <2>2, OverlaySound DEF IInv
  <2>4. Positional(args) \in Variable
    BY <1>1, InputsAssumption, PositionalType
  <2>5. scopes' = Bind(o, top, "*", Positional(args))
    BY <1>1, <2>2, <2>3 DEF SetPositional, Becomes, define_local
  <2> HIDE DEF o
  <2>6. Bind(o, top, "*", Positional(args))[i]["*"] = o[i]["*"]
    BY <2>1, <2>3, <2>4, BindFacts DEF Sound
  <2> QED
    BY <2>3, <2>5, <2>6
<1>2. IInv => [Apart]_vars
  BY <1>1
<1> QED
  BY <1>2, InvariantHolds, PTL DEF SetIsLocal

LEMMA LosesOneCounts ==
  ASSUME NEW s \in Seq(Scope), NEW r \in Seq(Scope), NEW n, LosesOne(s, r, n)
  PROVE  Cardinality(Binders(r, n)) + 1 >= Cardinality(Binders(s, n))
<1>1. PICK k \in 1..Len(s) + 1 : Binders(s, n) \subseteq Binders(r, n) \cup {k}
  BY DEF LosesOne
<1>2. IsFiniteSet(Binders(s, n)) /\ IsFiniteSet(Binders(r, n))
  <2>1. IsFiniteSet(1..Len(s)) /\ IsFiniteSet(1..Len(r))
    BY FS_Interval, LenProperties
  <2>2. Binders(s, n) \subseteq 1..Len(s) /\ Binders(r, n) \subseteq 1..Len(r)
    BY DEF Binders
  <2> QED
    BY <2>1, <2>2, FS_Subset
<1>3. /\ IsFiniteSet(Binders(r, n) \cup {k})
      /\ Cardinality(Binders(r, n) \cup {k}) = IF k \in Binders(r, n)
                                               THEN Cardinality(Binders(r, n))
                                               ELSE Cardinality(Binders(r, n)) + 1
  BY <1>2, FS_AddElement
<1>4. Cardinality(Binders(s, n)) <= Cardinality(Binders(r, n) \cup {k})
  BY <1>1, <1>3, FS_Subset
<1>5. Cardinality(Binders(s, n)) \in Nat /\ Cardinality(Binders(r, n)) \in Nat
  BY <1>2, FS_CardinalityType
<1> QED
  BY <1>3, <1>4, <1>5

\* unset, and any other command, takes a variable away from one scope: the next one
\* outwards is seen, for any number of scopes.
THEOREM UnsetReveals == Spec => UnsetRevealsNext
<1> DEFINE Reveals == \A n \in Names :
                         Len(scopes') = Len(scopes) =>
                            Cardinality(Binders(scopes', n)) + 1 >= Cardinality(Binders(scopes, n))
<1>1. ASSUME IInv, IInv', [Next]_vars, Len(scopes') = Len(scopes), NEW n \in Names
      PROVE  LosesOne(scopes, scopes', n)
  <2>1. scopes \in Seq(Scope) /\ Len(scopes) \in Nat /\ 1 \in 1..Len(scopes) + 1
    BY <1>1, LenProperties DEF IInv, Sound
  <2>2. scopes' = scopes => LosesOne(scopes, scopes', n)
    BY <2>1 DEF LosesOne
  <2>3. Len(scopes) = 1 => LosesOne(scopes, scopes', n)
    <3>1. Len(scopes) = 1 => Binders(scopes, n) \subseteq {1}
      BY DEF Binders
    <3> QED
      BY <2>1, <3>1 DEF LosesOne
  <2>4. CASE Assignments \/ Expansions \/ Builtins
    <3>1. Outcome
      BY <1>1, <2>4, AssignmentOutcome, ExpansionOutcome, BuiltinOutcome DEF IInv
    <3>2. Throw(scopes) => Len(scopes) = 1
      BY <1>1 DEF Throw
    <3> QED
      BY <2>2, <2>3, <3>1, <3>2 DEF Outcome, Becomes, Quiet
  <2>5. CASE Calls
    <3>1. ASSUME NEW prefix \in Prefixes, NEW path \in Files, SourceFails(prefix, path)
          PROVE  Len(scopes) = 1
      BY <1>1, <3>1 DEF SourceFails, Throw
    <3>2. ASSUME NEW prefix \in Prefixes, NEW args \in ArgLists, CallFunction(prefix, args)
          PROVE  FALSE
      BY <1>1, <2>1, <3>2, CallFunctionScopes DEF IInv
    <3>3. ASSUME NEW prefix \in Prefixes, NEW path \in Files, Source(prefix, path)
          PROVE  FALSE
      <4>1. Len(scopes') = Len(scopes) + 1
        BY <1>1, <3>3, SourceScopes DEF IInv
      <4> QED
        BY <1>1, <2>1, <4>1
    <3>4. ~ReturnFromFunction
      BY <1>1, <2>1, LeaveCalls, ReturnScopes DEF ReturnFromFunction, IInv, TypeOK
    <3>5. CASE EndSource
      <4>1. Len(scopes) >= 2 /\ Len(calls) \in 1..Len(calls)
        BY <1>1, <3>5, LeaveCalls DEF EndSource
      <4>2. Innermost \in Call
        BY <1>1, <4>1, ElementOfSeq DEF IInv, TypeOK, Innermost
      <4>3. Len(scopes') = Len(scopes) - 1
        BY <1>1, <3>5, <4>1, <4>2, EndSourceScopes DEF Call, IInv
      <4> QED
        BY <1>1, <2>1, <4>3
    <3> QED
      BY <2>3, <2>5, <3>1, <3>2, <3>3, <3>4, <3>5 DEF Calls
  <2>6. CASE UNCHANGED vars
    BY <2>2, <2>6 DEF vars
  <2> QED
    BY <1>1, <2>4, <2>5, <2>6 DEF Next, Stopped
<1>2. IInv /\ IInv' /\ [Next]_vars => [Reveals]_vars
  <2> SUFFICES ASSUME IInv, IInv', [Next]_vars, Len(scopes') = Len(scopes), NEW n \in Names
               PROVE  Cardinality(Binders(scopes', n)) + 1 >= Cardinality(Binders(scopes, n))
    OBVIOUS
  <2>1. scopes \in Seq(Scope) /\ scopes' \in Seq(Scope)
    BY DEF IInv, Sound
  <2> QED
    BY <1>1, <2>1, LosesOneCounts
<1> QED
  BY <1>2, InvariantHolds, PTL DEF Spec, UnsetRevealsNext


----------------------------------------------------------------------------
(* Positional parameters and arrays.                                       *)

\* The elements of a variable are finitely many.
LEMMA ElementsFinite ==
  ASSUME NEW var
  PROVE  /\ Elements(var) \in SUBSET Indexes
         /\ IsFiniteSet(Elements(var))
         /\ get_array_length(var) \in Nat
<1>1. Elements(var) \in SUBSET Indexes
  BY DEF Elements
<1>2. IsFiniteSet(Indexes)
  BY FS_Interval, IndexAssumption DEF Indexes
<1> QED
  BY <1>1, <1>2, FS_Subset, FS_CardinalityType DEF get_array_length

\* An interval has as many elements as it is long.
LEMMA IntervalLength ==
  ASSUME NEW first \in Nat, NEW n \in Nat
  PROVE  Cardinality(first..first + n - 1) = n
<1>1. first \in Int /\ first + n - 1 \in Int
  OBVIOUS
<1>2. Cardinality(first..first + n - 1)
         = IF first > first + n - 1 THEN 0 ELSE (first + n - 1) - first + 1
  BY <1>1, FS_Interval
<1> QED
  BY <1>2

\* shift on parameters without holes: what is left are the last ones, from $1 on.
LEMMA ShiftedDense ==
  ASSUME NEW var \in Variable, Dense(var), NEW k \in Nat, k <= get_array_length(var),
         NEW new, new = [var EXCEPT !.value = Shifted(var, k)]
  PROVE  /\ Dense(new)
         /\ ListOf(new) = SubSeq(ListOf(var), k + 1, get_array_length(var))
<1> DEFINE size == get_array_length(var)
           left == size - k
<1>1. size \in Nat /\ left \in Nat /\ size = left + k
  BY ElementsFinite
<1>2. Elements(var) = 1..size /\ 1..size \subseteq Indexes
  BY ElementsFinite DEF Dense
<1>3. new.value = Shifted(var, k)
  BY DEF Variable
<1>4. \A i \in Indexes : i \notin 1..size => var.value[i] = Absent
  BY <1>2 DEF Elements
<1>5. \A i \in 1..size : var.value[i] \in Words /\ var.value[i] # Absent
  BY <1>2 DEF Elements, Variable, ValueMap
<1> HIDE DEF size
<1>6. \A i \in 1..left : i \in 1..size /\ i + k \in 1..size
  BY <1>1
<1>7. \A i \in 1..left : get_value(var, i + k) = var.value[i + k]
  BY <1>2, <1>6 DEF get_value
<1>8. ASSUME NEW i \in Indexes
      PROVE  new.value[i] = IF i \in 1..left THEN var.value[i + k] ELSE Absent
  <2>1. CASE k = size
    <3>1. i \notin 1..left
      BY <1>1, <2>1
    <3>2. Shifted(var, k) = NoElements
      BY <2>1 DEF Shifted, size
    <3> QED
      BY <1>3, <3>1, <3>2 DEF NoElements
  <2>2. CASE k # size
    <3>1. Shifted(var, k)[i] = IF i \in 1..left THEN get_value(var, i + k)
                               ELSE IF i \in (left + 1)..size THEN Absent ELSE var.value[i]
      BY <2>2 DEF Shifted, size
    <3>2. i \notin 1..left => i \in (left + 1)..size \/ i \notin 1..size
      BY <1>1, IndexAssumption DEF Indexes
    <3> HIDE DEF left
    <3> QED
      BY <1>3, <1>4, <1>7, <3>1, <3>2
  <2> QED
    BY <2>1, <2>2
<1> HIDE DEF left
<1>9. Elements(new) = 1..left
  <2>1. \A i \in Indexes : new.value[i] # Absent <=> i \in 1..left
    BY <1>5, <1>6, <1>8
  <2>2. 1..left \subseteq Indexes
    BY <1>2, <1>6
  <2> QED
    BY <2>1, <2>2 DEF Elements
<1>10. get_array_length(new) = left
  <2>1. Cardinality(1..1 + left - 1) = left
    BY <1>1, IntervalLength
  <2>2. 1 + left - 1 = left
    BY <1>1
  <2> QED
    BY <1>9, <2>1, <2>2 DEF get_array_length
<1>11. Dense(new)
  BY <1>9, <1>10 DEF Dense
<1>12. ListOf(new) = [i \in 1..left |-> var.value[i + k]]
  <2>1. \A i \in 1..left : new.value[i] = var.value[i + k]
    BY <1>2, <1>6, <1>8
  <2> QED
    BY <1>10, <2>1 DEF ListOf
<1>13. SubSeq(ListOf(var), k + 1, size) = [i \in 1..left |-> var.value[i + k]]
  <2> DEFINE list == ListOf(var)
             tail == SubSeq(list, k + 1, size)
  <2>1. \A i \in 1..size : list[i] = var.value[i]
    BY DEF ListOf, size
  <2>2. /\ k + 1 \in Int /\ size \in Int
        /\ size - (k + 1) + 1 = left
        /\ (IF k + 1 <= size THEN size - (k + 1) + 1 ELSE 0) = left
        /\ \A i \in (k + 1)..size : i \in 1..size
        /\ \A i \in 1..left : k + 1 + i - 1 = i + k
    BY <1>1
  <2> HIDE DEF list
  <2>3. \A i \in (k + 1)..size : list[i] \in Words
    BY <1>5, <2>1, <2>2
  <2>4. /\ tail \in Seq(Words)
        /\ Len(tail) = left
        /\ \A i \in 1..left : tail[i] = list[k + 1 + i - 1]
    <3> DEFINE first == k + 1
    <3>1. first \in Int /\ size \in Int /\ \A i \in first..size : list[i] \in Words
      BY <2>2, <2>3
    <3>2. size - first + 1 = left /\ (IF first <= size THEN size - first + 1 ELSE 0) = left
      BY <2>2
    <3> HIDE DEF first
    <3>3. /\ SubSeq(list, first, size) \in Seq(Words)
          /\ Len(SubSeq(list, first, size)) = IF first <= size THEN size - first + 1 ELSE 0
          /\ \A i \in 1..size - first + 1 : SubSeq(list, first, size)[i] = list[first + i - 1]
      BY <3>1, SubSeqProperties
    <3> QED
      BY <3>2, <3>3 DEF first
  <2> HIDE DEF tail
  <2>5. \A i \in 1..left : tail[i] = var.value[i + k]
    BY <1>6, <2>1, <2>2, <2>4
  <2>6. tail \in [1..left -> Words]
    BY <2>4, LenProperties
  <2>7. tail = [i \in 1..left |-> var.value[i + k]]
    BY <2>5, <2>6
  <2> QED
    BY <2>7 DEF tail, list
<1> QED
  BY <1>11, <1>12, <1>13 DEF size

\* Where a variable is found after it was written where it had been found.
LEMMA ResolvedAfterBind ==
  ASSUME NEW s, Sound(s), NEW n \in Names \ {"0"}, Level(s, n) # 0,
         NEW var \in Variable
  PROVE  resolve_variable(Bind(s, Level(s, n), n, var), n) = var
<1> DEFINE i == Level(s, n)
           r == Bind(s, i, n, var)
<1>1. /\ s \in Seq(Scope) /\ i \in 1..Len(s) /\ s[i][n] # None
      /\ \A j \in Binders(s, n) : j <= i
  BY LevelFacts DEF Sound
<1>2. /\ r \in Seq(Scope) /\ Len(r) = Len(s)
      /\ \A j \in 1..Len(s) : r[j][n] = IF j = i THEN var ELSE s[j][n]
  BY <1>1, BindFacts
<1> HIDE DEF r, i
<1>3. Binders(r, n) = Binders(s, n)
  BY <1>1, <1>2, NoneAssumption DEF Binders
<1>4. i \in Binders(r, n)
  BY <1>1, <1>3 DEF Binders
<1>5. Level(r, n) = i
  BY <1>1, <1>2, <1>3, <1>4, LevelIs
<1>6. i # 0
  BY DEF i
<1> QED
  BY <1>1, <1>2, <1>5, <1>6 DEF resolve_variable, r, i

\* An empty scope around a command hides nothing.
LEMMA EnterEmpty ==
  ASSUME Sound(scopes), NEW n \in Names
  PROVE  /\ Level(Enter(EmptyScope), n) = Level(scopes, n)
         /\ resolve_variable(Enter(EmptyScope), n) = resolve_variable(scopes, n)
<1> DEFINE e == Enter(EmptyScope)
           i == Level(scopes, n)
<1>1. EmptyScope \in Prefixes
  BY DEF Prefixes
<1>2. /\ Sound(e) /\ Len(e) = Len(scopes) + 1
      /\ \A j \in 1..Len(scopes) : e[j] = scopes[j]
      /\ e[Len(scopes) + 1] = EmptyScope
  BY <1>1, EnterSound
<1>3. scopes \in Seq(Scope) /\ e \in Seq(Scope) /\ Len(scopes) \in Nat
  BY <1>2, LenProperties DEF Sound
<1> HIDE DEF e
<1>4. Binders(e, n) = Binders(scopes, n)
  BY <1>2, <1>3, EmptyScopeFacts DEF Binders
<1>5. CASE i = 0
  BY <1>3, <1>4, <1>5, LevelFacts DEF resolve_variable, e
<1>6. CASE i # 0
  <2>1. /\ i \in 1..Len(scopes) /\ scopes[i][n] # None
        /\ \A j \in Binders(scopes, n) : j <= i
    BY <1>3, <1>6, LevelFacts
  <2>2. i \in Binders(e, n)
    BY <1>4, <2>1 DEF Binders
  <2> HIDE DEF i
  <2>3. Level(e, n) = i
    BY <1>3, <1>4, <2>1, <2>2, LevelIs
  <2> QED
    BY <1>2, <1>6, <2>1, <2>3 DEF resolve_variable, e, i
<1> QED
  BY <1>5, <1>6

\* shift k drops the first k positional parameters that are seen, whichever call
\* they belong to, and nothing else of them.
THEOREM ShiftDropsTheFirst == Spec => ShiftDropsFirst
<1> DEFINE old == resolve_variable(scopes, "*")
           new == resolve_variable(scopes', "*")
           Drops == \A k \in ShiftNumbers :
              (/\ Level(scopes, "*") # 0
               /\ Dense(old) /\ k \in 0..get_array_length(old)
               /\ Shift(EmptyScope, k))
              => Dense(new) /\ ListOf(new) = SubSeq(ListOf(old), k + 1, get_array_length(old))
<1>1. ASSUME IInv, NEW k \in ShiftNumbers, Level(scopes, "*") # 0, Dense(old),
             k \in 0..get_array_length(old), Shift(EmptyScope, k)
      PROVE  Dense(new) /\ ListOf(new) = SubSeq(ListOf(old), k + 1, get_array_length(old))
  <2> DEFINE e   == Enter(EmptyScope)
             i   == Level(e, "*")
             var == [old EXCEPT !.value = Shifted(old, k)]
             r   == Bind(e, i, "*", var)
  <2>1. Sound(scopes) /\ "*" \in Names \ {"0"} /\ k \in Nat
    BY <1>1, NameFacts DEF IInv
  <2>2. i = Level(scopes, "*") /\ resolve_variable(e, "*") = old
    BY <2>1, EnterEmpty
  <2>3. old \in Variable /\ i \in 1..Len(scopes) /\ ~old.readonly
    BY <1>1, <2>1, <2>2, ResolvedType
  <2>4. ~(k > get_array_length(old)) /\ ~(k < 0)
    BY <1>1, <2>1, ElementsFinite
  <2>5. scopes' = Leave(r)
    BY <1>1, <2>2, <2>4 DEF Shift, Becomes
  <2>6. var \in Variable /\ ~var.readonly
    <3>1. Shifted(old, k) \in ValueMap
      BY <2>3, ShiftedType
    <3> QED
      BY <2>3, <3>1 DEF Variable
  <2> HIDE DEF var
  <2>7. /\ Sound(e) /\ Len(e) = Len(scopes) + 1
        /\ \A j \in 1..Len(scopes) : e[j] = scopes[j]
    BY <2>1, EnterSound DEF Prefixes
  <2>8. Len(scopes) \in Nat /\ scopes \in Seq(Scope) /\ e \in Seq(Scope) /\ i \in 1..Len(e)
    BY <2>1, <2>3, <2>7, LenProperties DEF Sound
  <2> HIDE DEF e
  <2>9. /\ Sound(r) /\ Len(r) = Len(e)
        /\ \A j \in 1..Len(e), m \in Names : r[j][m] = IF j = i /\ m = "*" THEN var ELSE e[j][m]
    <3>1. Sound(r)
      BY <2>1, <2>6, <2>7, <2>8, BindSound
    <3>2. var \in Variable \cup {None} /\ "*" \in Names
      BY <2>1, <2>6
    <3> HIDE DEF i
    <3>3. /\ Len(r) = Len(e)
          /\ \A j \in 1..Len(e), m \in Names :
                r[j][m] = IF j = i /\ m = "*" THEN var ELSE e[j][m]
      BY <2>8, <3>2, BindFacts
    <3> QED
      BY <3>1, <3>3
  <2>10. Len(r) >= 2
    BY <2>3, <2>7, <2>8, <2>9
  <2>11. /\ Sound(scopes') /\ Len(scopes') = Len(scopes)
         /\ \A j \in 1..Len(scopes) :
               scopes'[j]["*"] = IF j = i THEN var ELSE scopes[j]["*"]
    <3>1. /\ Sound(Leave(r)) /\ Len(Leave(r)) = Len(r) - 1
          /\ \A j \in 1..Len(r) - 1 : Leave(r)[j] = r[j]
      BY <2>9, <2>10, LeaveSound
    <3> HIDE DEF r
    <3>2. \A j \in 1..Len(scopes) : j \in 1..Len(r) - 1 /\ j \in 1..Len(e)
      BY <2>7, <2>8, <2>9
    <3>3. Len(r) - 1 = Len(scopes)
      BY <2>7, <2>8, <2>9
    <3>4. \A j \in 1..Len(scopes) :
             Leave(r)[j]["*"] = IF j = i THEN var ELSE scopes[j]["*"]
      BY <2>1, <2>7, <2>9, <3>1, <3>2
    <3> QED
      BY <2>5, <3>1, <3>3, <3>4
  <2> HIDE DEF r
  <2>12. scopes'[i]["*"] = var /\ var # None
    BY <2>3, <2>6, <2>11, NoneAssumption
  <2>13. Level(scopes', "*") = i
    <3>1. \A j \in Binders(scopes, "*") : j <= i
      BY <1>1, <2>2, <2>8, LevelFacts
    <3>2. Binders(scopes', "*") \subseteq Binders(scopes, "*") \cup {i}
      BY <2>11 DEF Binders
    <3>3. i \in Binders(scopes', "*")
      BY <2>3, <2>11, <2>12 DEF Binders
    <3>4. \A j \in Binders(scopes', "*") : j <= i
      BY <2>3, <2>8, <3>1, <3>2
    <3> HIDE DEF i
    <3>5. scopes' \in Seq(Scope)
      BY <2>11 DEF Sound
    <3> QED
      BY <3>3, <3>4, <3>5, LevelIs
  <2>14. new = var
    BY <2>3, <2>12, <2>13 DEF resolve_variable
  <2> HIDE DEF new
  <2> QED
    BY <1>1, <2>1, <2>3, <2>14, ShiftedDense DEF var
<1>2. IInv => [Drops]_vars
  BY <1>1
<1> QED
  BY <1>2, InvariantHolds, PTL DEF ShiftDropsFirst

\* get_max_index is the largest index of an element, or 0.
LEMMA MaxIndexFacts ==
  ASSUME NEW var
  PROVE  /\ get_max_index(var) \in Indexes
         /\ Elements(var) = {} => get_max_index(var) = 0
         /\ Elements(var) # {} => get_max_index(var) \in Elements(var)
         /\ \A j \in Elements(var) : j <= get_max_index(var)
<1> DEFINE Largest(i) == /\ Elements(var) = {} => i = 0
                         /\ Elements(var) # {} => i \in Elements(var) /\ \A j \in Elements(var) : j <= i
<1>1. Elements(var) \in SUBSET (0..MaxIndex) /\ 0 \in Indexes
  BY IndexAssumption DEF Elements, Indexes
<1>2. Elements(var) # {} => \E i \in Elements(var) : \A j \in Elements(var) : j <= i
  BY <1>1, IndexAssumption, LargestExists
<1>3. \E i \in Indexes : Largest(i)
  BY <1>1, <1>2 DEF Indexes
<1>4. get_max_index(var) = CHOOSE i \in Indexes : Largest(i)
  BY DEF get_max_index
<1>5. get_max_index(var) \in Indexes /\ Largest(get_max_index(var))
  <2> HIDE DEF Largest
  <2> QED
    BY <1>3, <1>4
<1> QED
  BY <1>5

\* The words of n+=(words) as an interval of indexes behind the elements that stay.
LEMMA AppendedVariable ==
  ASSUME NEW old \in Variable, NEW words \in Seq(Words), words # <<>>,
         NEW index \in Nat, index + Len(words) <= MaxIndex + 1,
         NEW new,
         \A i \in Indexes : new.value[i] = IF i >= index /\ i < index + Len(words)
                                           THEN words[i - index + 1] ELSE old.value[i],
         NEW kept, kept \subseteq Elements(old), \A i \in kept : i < index,
         \A i \in Elements(old) : i \in kept \/ i \in index..index + Len(words) - 1
  PROVE  /\ \A i \in kept : new.value[i] = old.value[i]
         /\ Cardinality(Elements(new) \ kept) = Len(words)
         /\ \A i \in kept, j \in Elements(new) \ kept : i < j
<1> DEFINE n == Len(words)
           taken == index..index + n - 1
<1>1. n \in Nat /\ index + n <= MaxIndex + 1 /\ \A i \in 1..n : words[i] \in Words
  BY LenProperties, ElementOfSeq
<1>2. \A i \in Indexes : new.value[i] = IF i >= index /\ i < index + n
                                        THEN words[i - index + 1] ELSE old.value[i]
  OBVIOUS
<1> HIDE DEF n
<1>3. \A i \in taken : /\ i \in Indexes /\ i >= index /\ i < index + n
                       /\ i - index + 1 \in 1..n
  BY <1>1, IndexAssumption DEF Indexes
<1>4. \A i \in Indexes : i \in taken <=> i >= index /\ i < index + n
  BY <1>1, <1>3, IndexAssumption DEF Indexes
<1>5. \A i \in taken : new.value[i] \in Words /\ new.value[i] # Absent
  BY <1>1, <1>2, <1>3, WordsAssumption
<1>6. \A i \in kept : i \in Indexes /\ i < index /\ i \notin taken
  BY <1>1, <1>3, IndexAssumption DEF Elements, Indexes
<1> HIDE DEF taken
<1>7. \A i \in Indexes : i \notin taken => new.value[i] = old.value[i]
  BY <1>2, <1>4
<1>8. Elements(new) \ kept = taken
  <2>1. ASSUME NEW i \in Indexes, new.value[i] # Absent, i \notin kept PROVE i \in taken
    <3>1. i \notin taken => i \in Elements(old)
      BY <1>7, <2>1 DEF Elements
    <3> QED
      BY <2>1, <3>1 DEF taken, n
  <2>2. \A i \in taken : i \in Indexes /\ i \notin kept
    BY <1>3, <1>6
  <2> QED
    BY <1>5, <2>1, <2>2 DEF Elements
<1>9. Cardinality(taken) = n
  BY <1>1, IntervalLength DEF taken
<1>10. \A i \in kept, j \in taken : i < j
  <2> SUFFICES ASSUME NEW i \in kept, NEW j \in taken PROVE i < j
    OBVIOUS
  <2>1. i < index /\ j >= index /\ i \in Int /\ j \in Int
    BY <1>3, <1>6, IndexAssumption DEF Indexes
  <2> QED
    BY <2>1
<1> QED
  BY <1>6, <1>7, <1>8, <1>9, <1>10 DEF n

\* n+=(words) adds as many elements as there are words, all behind those that n had,
\* and loses none, but for an empty element 0 without others, wherever n is found.
THEOREM AppendKeeps == Spec => AppendKeepsElements
<1> DEFINE Before(n) == resolve_variable(scopes, n)
           After(n) == resolve_variable(scopes', n)
           Stay(n, words) == IF Elements(Before(n)) = {0} /\ Before(n).value[0] = Empty /\ words # <<>>
                             THEN {} ELSE Elements(Before(n))
           Kept(n, words) ==
              /\ \A i \in Stay(n, words) : After(n).value[i] = Before(n).value[i]
              /\ Cardinality(Elements(After(n)) \ Stay(n, words)) = Len(words)
              /\ \A i \in Stay(n, words), j \in Elements(After(n)) \ Stay(n, words) : i < j
           Keeps == \A n \in VarNames, words \in WordLists :
                       (Level(scopes, n) # 0 /\ AppendArray(n, words)) => Kept(n, words)
<1>1. ASSUME IInv, NEW n \in VarNames, NEW words \in WordLists, Level(scopes, n) # 0,
             AppendArray(n, words)
      PROVE  Kept(n, words)
  <2> DEFINE old == Before(n)
             index == AppendIndex(scopes, n)
             var == [old EXCEPT !.value =
                       [i \in Indexes |-> IF i >= index /\ i < index + Len(words)
                                          THEN words[i - index + 1] ELSE old.value[i]]]
             kept == Stay(n, words)
  <2>1. Sound(scopes) /\ n \in Names \ {"0"} /\ words \in Seq(Words)
    BY <1>1, NameFacts, InputsAssumption DEF IInv
  <2>2. old \in Variable /\ ~old.readonly
    BY <1>1, <2>1, ResolvedType
  <2>3. scopes' = AppendWords(scopes, n, words) /\ index + Len(words) <= MaxIndex + 1
    BY <1>1 DEF AppendArray, Becomes, Fits
  <2>4. CASE words = <<>>
    <3>1. scopes' = scopes /\ After(n) = old /\ kept = Elements(old) /\ Len(words) = 0
      BY <2>3, <2>4 DEF AppendWords
    <3>2. Elements(old) \ Elements(old) = {} /\ Cardinality({}) = 0
      BY FS_EmptySet
    <3> HIDE DEF Before, After, Stay
    <3> QED
      BY <3>1, <3>2
  <2>5. CASE words # <<>>
    <3>1. index = IF 1 + get_max_index(old) = 1 /\ is_null(old, 0)
                  THEN 0 ELSE 1 + get_max_index(old)
      BY <1>1 DEF AppendIndex, is_unset_or_null
    <3>2. scopes' = Bind(scopes, Level(scopes, n), n, var)
      BY <1>1, <2>3, <2>5 DEF AppendWords
    <3>3. Elements(old) \subseteq Nat /\ get_max_index(old) \in Nat
      BY MaxIndexFacts, IndexAssumption DEF Elements, Indexes
    <3>4. index \in Nat
      BY <3>1, <3>3
    <3>5. Len(words) \in Nat /\ Len(words) >= 1
      BY <2>1, <2>5, EmptySeq
    <3>6. var \in Variable
      <4>1. \A i \in Indexes : i >= index /\ i < index + Len(words) => words[i - index + 1] \in Words
        <5> SUFFICES ASSUME NEW i \in Indexes, i >= index, i < index + Len(words)
                     PROVE  words[i - index + 1] \in Words
          OBVIOUS
        <5>1. i - index + 1 \in 1..Len(words)
          BY <3>4, <3>5, IndexAssumption DEF Indexes
        <5> QED
          BY <2>1, <5>1, ElementOfSeq
      <4> HIDE DEF index
      <4>2. \A i \in Indexes : old.value[i] \in Words \cup {Absent}
        BY <2>2 DEF Variable, ValueMap
      <4> HIDE DEF Before
      <4> QED
        BY <2>2, <4>1, <4>2 DEF Variable, ValueMap
    <3>11. \A i \in Indexes : var.value[i] = IF i >= index /\ i < index + Len(words)
                                             THEN words[i - index + 1] ELSE old.value[i]
      <4> HIDE DEF Before, index
      <4> QED
        BY <2>2 DEF Variable
    <3> HIDE DEF var
    <3>7. After(n) = var
      BY <1>1, <2>1, <3>2, <3>6, ResolvedAfterBind
    <3> HIDE DEF Before, After, index
    <3>8. kept \subseteq Elements(old)
      OBVIOUS
    <3>9. /\ \A i \in kept : i < index
          /\ \A i \in Elements(old) : i \in kept \/ i \in index..index + Len(words) - 1
      <4>1. CASE index = 0
        <5>1. get_max_index(old) = 0 /\ is_null(old, 0)
          BY <3>1, <3>3, <4>1
        <5>2. Elements(old) \subseteq {0}
          BY <3>3, <5>1, MaxIndexFacts
        <5>3. Elements(old) = {0} => old.value[0] = Empty
          BY <5>1 DEF is_null, get_value
        <5>4. kept = {}
          BY <2>5, <5>2, <5>3
        <5>5. 0 \in index..index + Len(words) - 1
          BY <3>5, <4>1
        <5> HIDE DEF kept
        <5> QED
          BY <5>2, <5>4, <5>5
      <4>2. CASE index # 0
        <5>1. index = 1 + get_max_index(old) /\ ~(get_max_index(old) = 0 /\ is_null(old, 0))
          BY <3>1, <3>3, <4>2
        <5>2. \A i \in Elements(old) : i < index
          BY <3>3, <5>1, MaxIndexFacts
        <5>3. kept = Elements(old)
          <6> SUFFICES ASSUME Elements(old) = {0}, old.value[0] = Empty PROVE FALSE
            OBVIOUS
          <6>1. get_max_index(old) = 0
            BY MaxIndexFacts
          <6>2. is_null(old, 0)
            BY DEF is_null, get_value
          <6> QED
            BY <5>1, <6>1, <6>2
        <5> HIDE DEF kept
        <5> QED
          BY <5>2, <5>3
      <4> QED
        BY <4>1, <4>2
    <3> HIDE DEF kept
    <3>10. /\ \A i \in kept : var.value[i] = old.value[i]
           /\ Cardinality(Elements(var) \ kept) = Len(words)
           /\ \A i \in kept, j \in Elements(var) \ kept : i < j
      <4> HIDE DEF old
      <4>1. kept \subseteq Elements(old) /\ index + Len(words) <= MaxIndex + 1
        BY <2>3, <3>8
      <4> QED
        BY <2>1, <2>2, <2>5, <3>4, <3>9, <3>11, <4>1, AppendedVariable
    <3> QED
      BY <3>7, <3>10 DEF kept
  <2> QED
    BY <2>4, <2>5
<1>2. IInv => [Keeps]_vars
  BY <1>1
<1> QED
  BY <1>2, InvariantHolds, PTL DEF AppendKeepsElements
=============================================================================
