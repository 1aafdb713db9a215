--------------------------- MODULE InheritProofs ---------------------------
(***************************************************************************)
(* Proofs about Inherit, for any eclasses, names, argument lists and depth *)
(* of nested inherits.                                                     *)
(***************************************************************************)
EXTENDS Inherit, TLAPS, SequenceTheorems

\* The types of the variables, apart from frames.
Types ==
    /\ ECLASS_DEPTH \in 0..MaxDepth
    /\ ECLASS \in Eclasses \cup {None}
    /\ export_funcs_var \in 0..MaxDepth
    /\ export_functions \in [1..MaxDepth -> SUBSET Functions]
    /\ metadata \in [Keys -> Texts \cup {None}]
    /\ E_ \in [Keys -> Seq(Texts)]
    /\ INHERITED \in Seq(Eclasses)
    /\ functions \in [Functions -> Eclasses \cup {None}]
    /\ mode \in {"running", "thrown"}
    /\ exports \subseteq (Eclasses \cup {Ebuild}) \X Functions
    /\ jumped \in BOOLEAN

\* Only the innermost inherit can be between two eclasses.
OuterInFile == \A i \in 1..Len(frames) : i < Len(frames) => frames[i].current # None

\* Where the caller's metadata is: in B while an eclass runs, else in place.
Saved ==
    /\ \A i \in 1..Len(frames) : frames[i].current # None => frames[i].B = frames[i].caller
    /\ frames # <<>> /\ Top.current = None =>
          \A k \in Keys : Text(metadata[k]) = Top.caller[k]

FramesOK ==
    /\ frames \in Seq(Frame)
    /\ Len(frames) <= ECLASS_DEPTH
    /\ \A i \in 1..Len(frames) : frames[i].current # None => export_funcs_var # 0

MInv == Types /\ FramesOK /\ OuterInFile /\ Saved

----------------------------------------------------------------------------
(* Sequences of frames.                                                    *)

\* The innermost frame is a frame.
LEMMA TopType ==
  ASSUME frames \in Seq(Frame), frames # <<>>
  PROVE  /\ Len(frames) \in Nat /\ Len(frames) >= 1
         /\ Len(frames) \in 1..Len(frames)
         /\ Top \in Frame
<1>1. Len(frames) \in Nat /\ Len(frames) # 0
  BY EmptySeq, LenProperties
<1>2. Len(frames) >= 1 /\ Len(frames) \in 1..Len(frames)
  BY <1>1
<1> QED
  BY <1>1, <1>2, ElementOfSeq DEF Top

\* The innermost frame changes.
LEMMA Replaced ==
  ASSUME frames \in Seq(Frame), frames # <<>>, NEW frame \in Frame, frames' = WithTop(frame)
  PROVE  /\ frames' \in Seq(Frame)
         /\ Len(frames') = Len(frames)
         /\ frames' # <<>>
         /\ Top' = frame
         /\ \A i \in 1..Len(frames) : i < Len(frames) => frames'[i] = frames[i]
<1>1. Len(frames) \in Nat /\ Len(frames) >= 1 /\ Len(frames) \in 1..Len(frames)
  BY TopType
<1>2. frames' = [frames EXCEPT ![Len(frames)] = frame]
  BY DEF WithTop
<1>3. frames' \in Seq(Frame) /\ Len(frames') = Len(frames)
  BY <1>1, <1>2, ExceptSeq
<1>4. frames'[Len(frames)] = frame
  BY <1>1, <1>2, ExceptSeq
<1>5. \A i \in 1..Len(frames) : i < Len(frames) => frames'[i] = frames[i]
  BY <1>1, <1>2, ExceptSeq
<1>6. frames' # <<>>
  BY <1>1, <1>3, EmptySeq
<1> QED
  BY <1>3, <1>4, <1>5, <1>6 DEF Top

\* inherit is entered.
LEMMA Pushed ==
  ASSUME frames \in Seq(Frame), NEW frame \in Frame, frames' = Append(frames, frame)
  PROVE  /\ frames' \in Seq(Frame)
         /\ Len(frames) \in Nat
         /\ Len(frames') = Len(frames) + 1
         /\ frames' # <<>>
         /\ Top' = frame
         /\ \A i \in 1..Len(frames) : frames'[i] = frames[i]
<1>1. /\ frames' \in Seq(Frame) /\ Len(frames) \in Nat /\ Len(frames') = Len(frames) + 1
      /\ frames'[Len(frames) + 1] = frame
      /\ \A i \in 1..Len(frames) : frames'[i] = frames[i]
  BY AppendProperties, LenProperties
<1>2. frames' # <<>>
  BY <1>1, EmptySeq
<1> QED
  BY <1>1, <1>2 DEF Top

\* Frames are dropped: n of them are left.
LEMMA Cut ==
  ASSUME frames \in Seq(Frame), NEW n \in Nat, n <= Len(frames)
  PROVE  /\ SubSeq(frames, 1, n) \in Seq(Frame)
         /\ Len(SubSeq(frames, 1, n)) = n
         /\ \A i \in 1..n : SubSeq(frames, 1, n)[i] = frames[i]
<1>1. Len(frames) \in Nat
  BY LenProperties
<1>2. 1 \in 1..Len(frames) + 1 /\ n \in 0..Len(frames)
  BY <1>1
<1>3. \A i \in 1..n : i \in 1..Len(frames)
  BY <1>1
<1>4. \A i \in 1..n : frames[i] \in Frame
  BY <1>3, ElementOfSeq
<1> QED
  BY <1>1, <1>2, <1>3, <1>4, SubSeqProperties

\* What Forget leaves alone.
LEMMA Forgotten ==
  ASSUME NEW s \in Seq(Frame)
  PROVE  /\ Forget(s) \in Seq(Frame)
         /\ Len(Forget(s)) = Len(s)
         /\ \A i \in 1..Len(s) :
               /\ Forget(s)[i].current = s[i].current
               /\ Forget(s)[i].PECLASS = s[i].PECLASS
               /\ Forget(s)[i].B = s[i].B
               /\ Forget(s)[i].caller = s[i].caller
         /\ s # <<>> => Forget(s)[Len(s)].exported = {}
<1>1. CASE s = <<>>
  BY <1>1 DEF Forget
<1>2. CASE s # <<>>
  <2>1. Len(s) \in 1..Len(s)
    BY <1>2, EmptySeq
  <2> DEFINE frame == [s[Len(s)] EXCEPT !.exported = {}]
  <2>2. s[Len(s)] \in Frame
    BY <2>1, ElementOfSeq
  <2>3. /\ frame \in Frame /\ frame.exported = {}
        /\ frame.current = s[Len(s)].current /\ frame.PECLASS = s[Len(s)].PECLASS
        /\ frame.B = s[Len(s)].B /\ frame.caller = s[Len(s)].caller
    BY <2>2 DEF Frame
  <2>4. Forget(s) = [s EXCEPT ![Len(s)] = frame]
    BY <1>2 DEF Forget
  <2> HIDE DEF frame
  <2>5. /\ Forget(s) \in Seq(Frame) /\ Len(Forget(s)) = Len(s)
        /\ \A i \in 1..Len(s) : Forget(s)[i] = IF i = Len(s) THEN frame ELSE s[i]
    BY <2>1, <2>3, <2>4, ExceptSeq
  <2> QED
    BY <2>1, <2>3, <2>5
<1> QED
  BY <1>1, <1>2

----------------------------------------------------------------------------
(* The metadata of the caller: one lemma per action.                       *)

\* No inherit has been called.
LEMMA InitMInv == Init => MInv
<1> SUFFICES ASSUME Init PROVE MInv
  OBVIOUS
<1>1. frames = <<>> /\ Len(frames) = 0 /\ frames \in Seq(Frame)
  BY EmptySeq DEF Init
<1>2. <<>> \in Seq(Texts) /\ <<>> \in Seq(Eclasses)
  BY EmptySeq
<1>3. Types
  <2>1. /\ E_ \in [Keys -> Seq(Texts)]
        /\ INHERITED \in Seq(Eclasses)
    BY <1>2 DEF Init
  <2>2. exports \subseteq (Eclasses \cup {Ebuild}) \X Functions
    BY DEF Init
  <2>3. jumped \in BOOLEAN
    BY DEF Init
  <2>4. metadata \in [Keys -> Texts \cup {None}]
    BY DEF Init, Unset
  <2> QED
    BY <2>1, <2>2, <2>3, <2>4, BoundsAssumption DEF Init, Types
<1>4. FramesOK /\ OuterInFile /\ Saved
  BY <1>1 DEF Init, FramesOK, OuterInFile, Saved
<1> QED
  BY <1>3, <1>4 DEF MInv

\* inherit is called: caller is what the metadata is.
LEMMA EnterMInv ==
  ASSUME MInv, NEW args \in ArgLists, EnterInherit(args)
  PROVE  MInv'
<1> USE DEF MInv
<1> DEFINE frame == [args |-> args, current |-> None, PECLASS |-> ECLASS,
                     prev_export_funcs_var |-> export_funcs_var,
                     B |-> [k \in Keys |-> Empty],
                     caller |-> [k \in Keys |-> Text(metadata[k])],
                     exported |-> {}]
<1>1. frame \in Frame /\ frame.current = None
      /\ \A k \in Keys : frame.caller[k] = Text(metadata[k])
  BY ArgListsAssumption DEF Frame, Types, Text, Texts
<1>2. frames' = Append(frames, frame) /\ frames \in Seq(Frame)
  BY DEF EnterInherit, FramesOK
<1> HIDE DEF frame
<1>3. /\ frames' \in Seq(Frame) /\ Len(frames) \in Nat /\ Len(frames') = Len(frames) + 1
      /\ frames' # <<>> /\ Top' = frame
      /\ \A i \in 1..Len(frames) : frames'[i] = frames[i]
  BY <1>1, <1>2, Pushed
<1>4. frames'[Len(frames')] = frame
  BY <1>3 DEF Top
<1>5. UNCHANGED <<ECLASS, export_funcs_var, export_functions, metadata, E_,
                  INHERITED, functions, mode, exports, jumped>>
      /\ ECLASS_DEPTH' = ECLASS_DEPTH + 1 /\ ECLASS_DEPTH < MaxDepth /\ InFile
  BY DEF EnterInherit
<1>6. Types'
  BY <1>5, BoundsAssumption DEF Types
<1>7. FramesOK'
  <2>1. ASSUME NEW i \in 1..Len(frames'), frames'[i].current # None
        PROVE  i \in 1..Len(frames) /\ frames[i].current # None
    BY <1>1, <1>3, <1>4, <2>1
  <2> QED
    BY <1>3, <1>5, <2>1, BoundsAssumption DEF FramesOK, Types
<1>8. \A i \in 1..Len(frames) : frames[i].current # None
  <2>1. CASE frames = <<>>
    BY <2>1, <1>3
  <2>2. CASE frames # <<>>
    BY <1>2, <1>3, <1>5, <2>2, TopType DEF InFile, OuterInFile, Top
  <2> QED
    BY <2>1, <2>2
<1>9. OuterInFile'
  BY <1>3, <1>8 DEF OuterInFile
<1>10. Saved'
  <2>1. ASSUME NEW i \in 1..Len(frames'), frames'[i].current # None
        PROVE  frames'[i].B = frames'[i].caller
    <3>1. i \in 1..Len(frames)
      BY <1>1, <1>3, <1>4, <2>1
    <3> QED
      BY <1>3, <2>1, <3>1 DEF Saved
  <2>2. \A k \in Keys : Text(metadata'[k]) = Top'.caller[k]
    BY <1>1, <1>3, <1>5
  <2> QED
    BY <2>1, <2>2 DEF Saved, Text
<1> QED
  BY <1>6, <1>7, <1>9, <1>10

\* The innermost frame changes, and what it saves is right.
LEMMA ReplacedMInv ==
  ASSUME MInv, frames # <<>>, Types', NEW frame \in Frame, frames' = WithTop(frame),
         UNCHANGED ECLASS_DEPTH,
         frame.current # None => frame.B = frame.caller /\ export_funcs_var' # 0,
         export_funcs_var # 0 => export_funcs_var' # 0,
         frame.current = None => \A k \in Keys : Text(metadata'[k]) = frame.caller[k]
  PROVE  MInv'
<1> USE DEF MInv
<1>1. /\ frames \in Seq(Frame)
      /\ Len(frames) \in Nat
  BY LenProperties DEF FramesOK
<1>2. /\ frames' \in Seq(Frame) /\ Len(frames') = Len(frames)
      /\ frames' # <<>> /\ Top' = frame
      /\ \A i \in 1..Len(frames) : i < Len(frames) => frames'[i] = frames[i]
  BY <1>1, Replaced
<1>3. frames'[Len(frames)] = frame
  BY <1>2 DEF Top
<1>4. FramesOK'
  <2>1. ASSUME NEW i \in 1..Len(frames'), frames'[i].current # None
        PROVE  export_funcs_var' # 0
    <3>1. CASE i = Len(frames)
      BY <1>3, <2>1, <3>1
    <3>2. CASE i # Len(frames)
      BY <1>1, <1>2, <2>1, <3>2 DEF FramesOK
    <3> QED
      BY <3>1, <3>2
  <2> QED
    BY <1>2, <2>1 DEF FramesOK
<1>5. OuterInFile'
  BY <1>1, <1>2 DEF OuterInFile
<1>6. ASSUME NEW i \in 1..Len(frames'), frames'[i].current # None
      PROVE  frames'[i].B = frames'[i].caller
  <2>1. CASE i = Len(frames)
    BY <1>3, <1>6, <2>1
  <2>2. CASE i # Len(frames)
    BY <1>1, <1>2, <1>6, <2>2 DEF Saved
  <2> QED
    BY <2>1, <2>2
<1>7. Saved'
  BY <1>2, <1>6 DEF Saved, Text
<1> QED
  BY <1>4, <1>5, <1>7

\* An eclass starts: B holds what caller holds.
LEMMA StartMInv ==
  ASSUME MInv, StartEclass
  PROVE  MInv'
<1> USE DEF MInv
<1>1. Top \in Frame /\ Len(frames) \in Nat /\ Len(frames) >= 1
  BY TopType DEF StartEclass, NextArgument, FramesOK
<1>2. ECLASS_DEPTH \in 1..MaxDepth
  BY <1>1, BoundsAssumption DEF FramesOK, Types
<1>3. Head(Top.args) \in Eclasses /\ Tail(Top.args) \in Seq(Eclasses)
  BY <1>1, HeadTailProperties DEF StartEclass, NextArgument, Frame
<1> DEFINE saved == [k \in Keys |-> Text(metadata[k])]
           frame == [Top EXCEPT !.args = Tail(@), !.current = Head(Top.args),
                                !.B = saved, !.exported = {}]
<1>4. saved \in [Keys -> Texts]
  BY DEF Types, Text, Texts
<1>5. saved = Top.caller
  <2>1. \A k \in Keys : saved[k] = Top.caller[k]
    BY DEF Saved, StartEclass, NextArgument
  <2>2. Top.caller \in [Keys -> Texts]
    BY <1>1 DEF Frame
  <2> QED
    BY <1>4, <2>1, <2>2
<1>6. frames' = WithTop(frame)
  BY DEF StartEclass
<1> HIDE DEF saved
<1>7. frame \in Frame /\ frame.current # None /\ frame.B = frame.caller
  BY <1>1, <1>3, <1>4, <1>5, NamesAssumption DEF Frame
<1> HIDE DEF frame
<1>8. Types' /\ export_funcs_var' # 0
  BY <1>2, <1>3, BoundsAssumption DEF Types, StartEclass, Unset
<1> QED
  BY <1>6, <1>7, <1>8, ReplacedMInv DEF StartEclass, NextArgument

\* An eclass ends: B is put back.
LEMMA EndMInv ==
  ASSUME MInv, EndEclass
  PROVE  MInv'
<1> USE DEF MInv
<1>1. Top \in Frame /\ Len(frames) \in 1..Len(frames)
  BY TopType DEF EndEclass, FramesOK
<1>2. Top.B = Top.caller
  BY <1>1 DEF Saved, EndEclass, Top
<1> DEFINE frame == [Top EXCEPT !.current = None]
<1>3. frame \in Frame /\ frame.current = None /\ frame.caller = Top.caller
  BY <1>1 DEF Frame
<1>4. frames' = WithTop(frame)
  BY DEF EndEclass
<1> HIDE DEF frame
<1>5. Top.B \in [Keys -> Texts] /\ Top.current \in Eclasses
  BY <1>1 DEF Frame, EndEclass
<1>6. Restored \in [Keys -> Texts \cup {None}]
  BY <1>5 DEF Restored
<1>7. \A k \in Keys : Text(Restored[k]) = Top.caller[k]
  BY <1>2, <1>5, NamesAssumption DEF Restored, Text, Texts
<1>8. Appended \in [Keys -> Seq(Texts)]
  <2>1. ASSUME NEW k \in Keys, Text(metadata[k]) # Empty
        PROVE  Append(E_[k], metadata[k]) \in Seq(Texts)
    <3>1. metadata[k] \in Texts /\ E_[k] \in Seq(Texts)
      BY <2>1 DEF Types, Text
    <3> QED
      BY <3>1, AppendProperties
  <2>2. \A k \in Keys : E_[k] \in Seq(Texts)
    BY DEF Types
  <2> QED
    BY <2>1, <2>2 DEF Appended
<1>9. INHERITED' \in Seq(Eclasses)
  <2>1. Append(INHERITED, Top.current) \in Seq(Eclasses)
    BY <1>5, AppendProperties DEF Types
  <2> QED
    BY <2>1 DEF EndEclass, Types
<1>10. WithStubs \in [Functions -> Eclasses \cup {None}]
  BY DEF WithStubs, Types
<1>11. Types'
  BY <1>6, <1>8, <1>9, <1>10 DEF Types, EndEclass
<1>12. \A k \in Keys : Text(metadata'[k]) = frame.caller[k]
  BY <1>3, <1>7 DEF EndEclass
<1> QED
  BY <1>3, <1>4, <1>11, <1>12, ReplacedMInv DEF EndEclass

\* Inherits are left, one by LeaveInherit and any number by a jump.
LEMMA CutMInv ==
  ASSUME MInv, Types', NEW n \in Nat, n < Len(frames),
         frames' \in {SubSeq(frames, 1, n), Forget(SubSeq(frames, 1, n))},
         n <= ECLASS_DEPTH', n # 0 => export_funcs_var' # 0
  PROVE  MInv'
<1> USE DEF MInv
<1>1. frames \in Seq(Frame) /\ Len(frames) \in Nat
  BY LenProperties DEF FramesOK
<1> DEFINE s == SubSeq(frames, 1, n)
<1>2. s \in Seq(Frame) /\ Len(s) = n /\ \A i \in 1..n : s[i] = frames[i]
  BY <1>1, Cut
<1> HIDE DEF s
<1>3. /\ frames' \in Seq(Frame) /\ Len(frames') = n
      /\ \A i \in 1..n : /\ frames'[i].current = frames[i].current
                         /\ frames'[i].B = frames[i].B
                         /\ frames'[i].caller = frames[i].caller
  <2>1. frames' = s \/ frames' = Forget(s)
    BY DEF s
  <2> QED
    BY <1>2, <2>1, Forgotten
<1>4. \A i \in 1..n : frames[i].current # None
  BY <1>1 DEF OuterInFile
<1>5. frames' # <<>> => n \in 1..n /\ Top' = frames'[n]
  <2>1. frames' # <<>> => n # 0
    BY <1>3, EmptySeq
  <2> QED
    BY <1>3, <2>1 DEF Top
<1>6. FramesOK'
  BY <1>3 DEF FramesOK
<1>7. OuterInFile'
  BY <1>3, <1>4 DEF OuterInFile
<1>8. \A i \in 1..n : frames'[i].B = frames'[i].caller
  BY <1>1, <1>3, <1>4 DEF Saved
<1>9. frames' # <<>> => Top'.current # None
  BY <1>3, <1>4, <1>5
<1>10. Saved'
  BY <1>3, <1>8, <1>9 DEF Saved, Text
<1> QED
  BY <1>6, <1>7, <1>10

\* inherit returns.
LEMMA LeaveMInv ==
  ASSUME MInv, LeaveInherit
  PROVE  MInv'
<1> USE DEF MInv
<1> DEFINE n == Len(frames) - 1
<1>1. Top \in Frame /\ Len(frames) \in Nat /\ Len(frames) >= 1
  BY TopType DEF LeaveInherit, LastArgumentDone, FramesOK
<1>2. n \in Nat /\ n < Len(frames)
  BY <1>1
<1>3. ECLASS_DEPTH' = ECLASS_DEPTH - 1 /\ ECLASS_DEPTH' \in 0..MaxDepth
  BY <1>1, BoundsAssumption DEF LeaveInherit, FramesOK, Types
<1>4. n <= ECLASS_DEPTH'
  BY <1>1, <1>3, BoundsAssumption DEF FramesOK, Types
<1>5. n # 0 => export_funcs_var' # 0
  <2> SUFFICES ASSUME n # 0 PROVE export_funcs_var' # 0
    OBVIOUS
  <2>1. \A l \in Nat : l >= 1 /\ l - 1 # 0 => l - 1 \in 1..l
    OBVIOUS
  <2>2. n \in 1..Len(frames)
    BY <1>1, <2>1
  <2>3. UNCHANGED export_funcs_var
    <3>1. ECLASS_DEPTH' \in Int /\ ECLASS_DEPTH' >= 1
      BY <1>1, <1>3, <1>4, <2>2, BoundsAssumption
    <3> QED
      BY <3>1 DEF LeaveInherit
  <2>4. export_funcs_var # 0
    <3>1. frames[n].current # None
      BY <1>2, <2>2 DEF OuterInFile
    <3> QED
      BY <2>2, <3>1 DEF FramesOK
  <2> QED
    BY <2>3, <2>4
<1>6. Types'
  BY <1>1, <1>3, BoundsAssumption DEF LeaveInherit, Types, Frame
<1>7. frames' = Forget(SubSeq(frames, 1, n))
  BY DEF LeaveInherit
<1> HIDE DEF n
<1> QED
  BY <1>2, <1>4, <1>5, <1>6, <1>7, CutMInv

\* break or continue leaves inherits.
LEMMA JumpMInv ==
  ASSUME MInv, NEW n \in Nat, Jump(n)
  PROVE  MInv'
<1>1. frames \in Seq(Frame) /\ Len(frames) \in Nat /\ n < Len(frames)
      /\ Len(frames) <= ECLASS_DEPTH /\ ECLASS_DEPTH \in Nat
  BY LenProperties, BoundsAssumption DEF Jump, MInv, FramesOK, Types
<1>2. n # 0 => export_funcs_var' # 0
  <2> SUFFICES ASSUME n # 0 PROVE export_funcs_var # 0
    BY DEF Jump
  <2>1. n \in 1..Len(frames)
    BY <1>1
  <2> QED
    BY <1>1, <2>1 DEF MInv, OuterInFile, FramesOK
<1>3. Types'
  BY DEF Jump, MInv, Types
<1>4. n <= ECLASS_DEPTH'
  BY <1>1 DEF Jump
<1> QED
  BY <1>1, <1>2, <1>3, <1>4, CutMInv DEF Jump

\* Assignments happen in files, where nothing depends on the metadata.
LEMMA AssignMInv ==
  ASSUME MInv, NEW k \in Keys, NEW value \in Texts \cup {None}, Assign(k, value)
  PROVE  MInv'
<1> USE DEF MInv
<1>1. Types' /\ UNCHANGED <<frames, ECLASS_DEPTH, export_funcs_var>>
  BY DEF Assign, Types
<1>2. FramesOK' /\ OuterInFile'
  BY <1>1 DEF FramesOK, OuterInFile
<1>3. frames # <<>> => Top.current # None
  BY DEF Assign, InFile
<1>4. Saved'
  BY <1>1, <1>3 DEF Saved, Top
<1> QED
  BY <1>1, <1>2, <1>4

\* What the running file is.
LEMMA FileType ==
  ASSUME MInv, InFile
  PROVE  File \in Eclasses \cup {Ebuild}
<1>1. CASE frames = <<>>
  BY <1>1 DEF File
<1>2. CASE frames # <<>>
  BY <1>2, TopType DEF File, InFile, MInv, FramesOK, Frame
<1> QED
  BY <1>1, <1>2

\* An export changes lists only.
LEMMA ExportMInv ==
  ASSUME MInv, NEW f \in Functions, EXPORT_FUNCTIONS(f)
  PROVE  MInv'
<1> USE DEF MInv
<1>1. Types'
  <2>1. exports' \subseteq (Eclasses \cup {Ebuild}) \X Functions
    BY FileType DEF EXPORT_FUNCTIONS, Types
  <2> QED
    BY <2>1 DEF EXPORT_FUNCTIONS, Types
<1>2. UNCHANGED <<ECLASS_DEPTH, export_funcs_var, metadata>>
  BY DEF EXPORT_FUNCTIONS
<1>3. CASE frames = <<>>
  <2>1. frames' = frames
    BY <1>3 DEF EXPORT_FUNCTIONS
  <2> QED
    BY <1>1, <1>2, <1>3, <2>1 DEF FramesOK, OuterInFile, Saved, Top
<1>4. CASE frames # <<>>
  <2> DEFINE frame == [Top EXCEPT !.exported = @ \cup {f}]
  <2>1. Top \in Frame /\ Len(frames) \in 1..Len(frames) /\ Top.current # None
    BY <1>4, TopType DEF FramesOK, EXPORT_FUNCTIONS, InFile
  <2>2. frame \in Frame /\ frame.current = Top.current
        /\ frame.B = Top.B /\ frame.caller = Top.caller
    BY <2>1 DEF Frame
  <2>3. Top.B = Top.caller /\ export_funcs_var # 0
    BY <2>1 DEF Saved, FramesOK, Top
  <2>4. frames' = WithTop(frame)
    BY <1>4 DEF EXPORT_FUNCTIONS
  <2> HIDE DEF frame
  <2> QED
    BY <1>1, <1>2, <1>4, <2>1, <2>2, <2>3, <2>4, ReplacedMInv
<1> QED
  BY <1>3, <1>4

\* Every step.
LEMMA NextMInv == MInv /\ [Next]_vars => MInv'
<1> SUFFICES ASSUME MInv, [Next]_vars PROVE MInv'
  OBVIOUS
<1>1. CASE UNCHANGED vars
  BY <1>1 DEF vars, MInv, Types, FramesOK, OuterInFile, Saved, Top
<1>2. CASE Fail
  <2>1. UNCHANGED <<frames, ECLASS_DEPTH, export_funcs_var, metadata>> /\ Types'
    BY <1>2 DEF Fail, MInv, Types
  <2> QED
    BY <2>1 DEF MInv, FramesOK, OuterInFile, Saved, Top
<1>3. ASSUME NEW n \in 0..MaxDepth, Jump(n) PROVE MInv'
  BY <1>3, BoundsAssumption, JumpMInv
<1> QED
  BY <1>1, <1>2, <1>3, EnterMInv, StartMInv, EndMInv, LeaveMInv, AssignMInv, ExportMInv
     DEF Next, Stopped

\* The invariant about types, depth and saved metadata holds in every behaviour.
LEMMA MInvHolds == Spec => []MInv
  BY InitMInv, NextMInv, PTL DEF Spec

\* The variables keep their types, for any number of nested inherits: the depth
\* counts at least the calls of inherit_builtin::exec that are active, and
\* __export_funcs_var names a list whenever an eclass runs.
THEOREM TypeCorrect == Spec => []TypeOK
<1>1. MInv => TypeOK
  <2> SUFFICES ASSUME MInv PROVE TypeOK
    OBVIOUS
  <2>1. frames # <<>> => Len(frames) \in 1..Len(frames)
    BY TopType DEF MInv, FramesOK
  <2>2. frames # <<>> /\ Top.current # None => export_funcs_var # 0
    BY <2>1 DEF MInv, FramesOK, Top
  <2> QED
    BY <2>2 DEF MInv, Types, FramesOK, TypeOK
<1> QED
  BY <1>1, MInvHolds, PTL

\* A step that can happen behind the last argument.
LEMMA MetadataKept ==
  MInv /\ [Next]_vars =>
    (LastArgumentDone /\ frames' # frames =>
       \A k \in Keys : Text(metadata'[k]) = Top.caller[k])
<1> SUFFICES ASSUME MInv, [Next]_vars, LastArgumentDone, frames' # frames
             PROVE  \A k \in Keys : Text(metadata'[k]) = Top.caller[k]
  OBVIOUS
<1>1. LeaveInherit
  BY DEF Next, vars, LastArgumentDone, EnterInherit, InFile, StartEclass, NextArgument,
         EndEclass, Assign, EXPORT_FUNCTIONS, Jump, Fail, Stopped
<1>2. \A k \in Keys : Text(metadata[k]) = Top.caller[k]
  BY DEF MInv, Saved, LastArgumentDone
<1> QED
  BY <1>1, <1>2 DEF LeaveInherit

\* inherit_builtin::exec gives its caller IUSE and the others back as they were,
\* whatever the eclasses, their own inherits and jumps out of these did.
THEOREM CallerMetadata == Spec => CallerMetadataKept
  BY MInvHolds, MetadataKept, PTL DEF Spec, CallerMetadataKept

----------------------------------------------------------------------------
(* ECLASS.                                                                 *)

\* What a nested inherit puts back is the eclass of the frame below.
Chain == \A i \in 1..Len(frames) : i > 1 => frames[i].PECLASS = frames[i - 1].current

EInv ==
    ~jumped =>
        /\ ECLASS_DEPTH = Len(frames)
        /\ frames = <<>> => ECLASS = None
        /\ frames # <<>> /\ Top.current # None => ECLASS = Top.current
        /\ Chain

\* The innermost frame changes and keeps what it puts back.
LEMMA ReplacedChain ==
  ASSUME MInv, Chain, frames # <<>>, NEW frame \in Frame, frames' = WithTop(frame),
         frame.PECLASS = Top.PECLASS
  PROVE  Chain' /\ Len(frames') = Len(frames) /\ frames' # <<>> /\ Top' = frame
<1>1. frames \in Seq(Frame) /\ Len(frames) \in Nat
  BY TopType DEF MInv, FramesOK
<1>2. /\ Len(frames') = Len(frames) /\ frames' # <<>> /\ Top' = frame
      /\ \A i \in 1..Len(frames) : i < Len(frames) => frames'[i] = frames[i]
  BY <1>1, Replaced
<1>3. ASSUME NEW i \in 1..Len(frames), i > 1
      PROVE  frames'[i].PECLASS = frames'[i - 1].current
  <2>1. i - 1 \in 1..Len(frames) /\ i - 1 < Len(frames)
    BY <1>1, <1>3
  <2>2. frames'[i - 1] = frames[i - 1] /\ frames[i].PECLASS = frames[i - 1].current
    BY <1>2, <1>3, <2>1 DEF Chain
  <2>3. frames'[i].PECLASS = frames[i].PECLASS
    <3>1. CASE i = Len(frames)
      BY <1>2, <3>1 DEF Top
    <3>2. CASE i # Len(frames)
      BY <1>1, <1>2, <3>2
    <3> QED
      BY <3>1, <3>2
  <2> QED
    BY <2>2, <2>3
<1> QED
  BY <1>2, <1>3 DEF Chain

\* inherit is called by the file that ECLASS names.
LEMMA EnterEInv ==
  ASSUME MInv, EInv, NEW args \in ArgLists, EnterInherit(args)
  PROVE  EInv'
<1> SUFFICES ASSUME ~jumped PROVE EInv'
  BY DEF EInv, EnterInherit
<1> DEFINE frame == [args |-> args, current |-> None, PECLASS |-> ECLASS,
                     prev_export_funcs_var |-> export_funcs_var,
                     B |-> [k \in Keys |-> Empty],
                     caller |-> [k \in Keys |-> Text(metadata[k])],
                     exported |-> {}]
<1>1. frame \in Frame /\ frame.current = None /\ frame.PECLASS = ECLASS
  BY ArgListsAssumption DEF Frame, MInv, Types, Text, Texts
<1>2. frames' = Append(frames, frame) /\ frames \in Seq(Frame)
  BY DEF EnterInherit, MInv, FramesOK
<1> HIDE DEF frame
<1>3. /\ Len(frames) \in Nat /\ Len(frames') = Len(frames) + 1
      /\ frames' # <<>> /\ Top' = frame
      /\ \A i \in 1..Len(frames) : frames'[i] = frames[i]
  BY <1>1, <1>2, Pushed
<1>4. frames'[Len(frames')] = frame
  BY <1>3 DEF Top
<1>5. frames # <<>> => ECLASS = frames[Len(frames)].current
  BY DEF EInv, EnterInherit, InFile, Top
<1>6. ASSUME NEW i \in 1..Len(frames'), i > 1
      PROVE  frames'[i].PECLASS = frames'[i - 1].current
  <2>1. i - 1 \in 1..Len(frames) /\ frames'[i - 1] = frames[i - 1]
    BY <1>3, <1>6
  <2>2. CASE i = Len(frames')
    <3>1. frames # <<>> /\ i - 1 = Len(frames)
      BY <1>2, <1>3, <2>1, <2>2, EmptySeq
    <3> QED
      BY <1>1, <1>4, <1>5, <2>1, <2>2, <3>1
  <2>3. CASE i # Len(frames')
    <3>1. i \in 1..Len(frames)
      BY <1>3, <2>3
    <3> QED
      BY <1>3, <1>6, <2>1, <3>1 DEF EInv, Chain
  <2> QED
    BY <2>2, <2>3
<1>7. Chain'
  BY <1>6 DEF Chain
<1>8. ECLASS_DEPTH' = Len(frames')
  BY <1>3 DEF EInv, EnterInherit
<1> QED
  BY <1>1, <1>3, <1>7, <1>8 DEF EInv

\* The eclass that starts is the one ECLASS names.
LEMMA StartEInv ==
  ASSUME MInv, EInv, StartEclass
  PROVE  EInv'
<1> SUFFICES ASSUME ~jumped PROVE EInv'
  BY DEF EInv, StartEclass
<1>1. Top \in Frame
  BY TopType DEF StartEclass, NextArgument, MInv, FramesOK
<1>2. Head(Top.args) \in Eclasses /\ Tail(Top.args) \in Seq(Eclasses)
  BY <1>1, HeadTailProperties DEF StartEclass, NextArgument, Frame
<1> DEFINE frame == [Top EXCEPT !.args = Tail(@), !.current = Head(Top.args),
                                !.B = [k \in Keys |-> Text(metadata[k])], !.exported = {}]
<1>3. frame \in Frame /\ frame.current = Head(Top.args) /\ frame.PECLASS = Top.PECLASS
  BY <1>1, <1>2 DEF Frame, MInv, Types, Text, Texts
<1>4. frames' = WithTop(frame) /\ frames # <<>>
  BY DEF StartEclass, NextArgument
<1> HIDE DEF frame
<1>5. Chain' /\ Len(frames') = Len(frames) /\ frames' # <<>> /\ Top' = frame
  BY <1>3, <1>4, ReplacedChain DEF EInv
<1> QED
  BY <1>3, <1>5 DEF EInv, StartEclass

\* An eclass that ends leaves ECLASS alone.
LEMMA EndEInv ==
  ASSUME MInv, EInv, EndEclass
  PROVE  EInv'
<1> SUFFICES ASSUME ~jumped PROVE EInv'
  BY DEF EInv, EndEclass
<1> DEFINE frame == [Top EXCEPT !.current = None]
<1>1. Top \in Frame
  BY TopType DEF EndEclass, MInv, FramesOK
<1>2. frame \in Frame /\ frame.current = None /\ frame.PECLASS = Top.PECLASS
  BY <1>1 DEF Frame
<1>3. frames' = WithTop(frame) /\ frames # <<>>
  BY DEF EndEclass
<1> HIDE DEF frame
<1>4. Chain' /\ Len(frames') = Len(frames) /\ frames' # <<>> /\ Top' = frame
  BY <1>2, <1>3, ReplacedChain DEF EInv
<1> QED
  BY <1>2, <1>4 DEF EInv, EndEclass

\* The frames below, after inherit has returned.
LEMMA LeaveFrames ==
  ASSUME MInv, LeaveInherit
  PROVE  \E n \in Nat :
            /\ Len(frames) = n + 1 /\ Len(frames') = n
            /\ n + 1 \in 1..Len(frames) /\ Top = frames[n + 1]
            /\ frames' = <<>> <=> n = 0
            /\ n # 0 => n \in 1..Len(frames') /\ Top' = frames'[n] /\ Top'.exported = {}
            /\ \A i \in 1..n : /\ i \in 1..Len(frames)
                               /\ frames'[i].current = frames[i].current
                               /\ frames'[i].PECLASS = frames[i].PECLASS
                               /\ frames'[i].B = frames[i].B
                               /\ frames'[i].caller = frames[i].caller
<1> DEFINE n == Len(frames) - 1
           s == SubSeq(frames, 1, n)
<1>1. frames \in Seq(Frame) /\ Len(frames) \in Nat /\ Len(frames) >= 1
  BY TopType DEF LeaveInherit, LastArgumentDone, MInv, FramesOK
<1>2. n \in Nat /\ n <= Len(frames) /\ Len(frames) = n + 1
  BY <1>1
<1>3. frames' = Forget(s)
  BY DEF LeaveInherit
<1> HIDE DEF n
<1>4. s \in Seq(Frame) /\ Len(s) = n /\ \A i \in 1..n : s[i] = frames[i]
  BY <1>1, <1>2, Cut
<1> HIDE DEF s
<1>5. /\ frames' \in Seq(Frame) /\ Len(frames') = n
      /\ \A i \in 1..n : /\ frames'[i].current = frames[i].current
                         /\ frames'[i].PECLASS = frames[i].PECLASS
                         /\ frames'[i].B = frames[i].B
                         /\ frames'[i].caller = frames[i].caller
  BY <1>3, <1>4, Forgotten
<1>6. frames' = <<>> <=> n = 0
  BY <1>5, EmptySeq
<1>7. n # 0 => n \in 1..Len(frames') /\ Top' = frames'[n] /\ Top'.exported = {}
  <2>1. s # <<>> <=> n # 0
    BY <1>4, EmptySeq
  <2>2. n # 0 => n \in 1..n
    BY <1>2
  <2> QED
    BY <1>3, <1>4, <1>5, <2>1, <2>2, Forgotten DEF Top
<1>8. n + 1 \in 1..Len(frames) /\ Top = frames[n + 1] /\ \A i \in 1..n : i \in 1..Len(frames)
  BY <1>2 DEF Top
<1> QED
  BY <1>2, <1>5, <1>6, <1>7, <1>8

\* The eclass that goes on is the one ECLASS is set to.
LEMMA LeaveEInv ==
  ASSUME MInv, EInv, LeaveInherit
  PROVE  EInv'
<1> SUFFICES ASSUME ~jumped PROVE EInv'
  BY DEF EInv, LeaveInherit
<1>1. PICK n \in Nat :
            /\ Len(frames) = n + 1 /\ Len(frames') = n
            /\ n + 1 \in 1..Len(frames) /\ Top = frames[n + 1]
            /\ frames' = <<>> <=> n = 0
            /\ n # 0 => n \in 1..Len(frames') /\ Top' = frames'[n]
            /\ \A i \in 1..n : /\ i \in 1..Len(frames)
                               /\ frames'[i].current = frames[i].current
                               /\ frames'[i].PECLASS = frames[i].PECLASS
  BY LeaveFrames
<1>2. ECLASS_DEPTH = n + 1 /\ Chain
  BY <1>1 DEF EInv
<1>3. ECLASS_DEPTH' = n
  BY <1>2 DEF LeaveInherit
<1>4. n = 0 => ECLASS' = None
  BY <1>3 DEF LeaveInherit
<1>5. n # 0 => ECLASS' = Top'.current
  <2> SUFFICES ASSUME n # 0 PROVE ECLASS' = Top'.current
    OBVIOUS
  <2>1. n > 0 /\ n + 1 > 1 /\ (n + 1) - 1 = n
    OBVIOUS
  <2>2. ECLASS' = Top.PECLASS
    BY <1>3, <2>1 DEF LeaveInherit
  <2>3. frames[n + 1].PECLASS = frames[n].current
    BY <1>1, <1>2, <2>1 DEF Chain
  <2> QED
    BY <1>1, <2>2, <2>3
<1>6. ASSUME NEW i \in 1..Len(frames'), i > 1
      PROVE  frames'[i].PECLASS = frames'[i - 1].current
  <2>1. i \in 1..n /\ i - 1 \in 1..n
    BY <1>1, <1>6
  <2> QED
    BY <1>1, <1>2, <1>6, <2>1 DEF Chain
<1>7. Chain'
  BY <1>6 DEF Chain
<1> QED
  BY <1>1, <1>3, <1>4, <1>5, <1>7 DEF EInv

\* Files do not touch ECLASS or what is put back.
LEMMA FileEInv ==
  ASSUME MInv, EInv,
         \/ \E k \in Keys, value \in Texts \cup {None} : Assign(k, value)
         \/ \E f \in Functions : EXPORT_FUNCTIONS(f)
  PROVE  EInv'
<1>1. CASE \E k \in Keys, value \in Texts \cup {None} : Assign(k, value)
  BY <1>1 DEF Assign, EInv, Chain, Top
<1>2. ASSUME NEW f \in Functions, EXPORT_FUNCTIONS(f)
      PROVE  EInv'
  <2> SUFFICES ASSUME ~jumped PROVE EInv'
    BY <1>2 DEF EInv, EXPORT_FUNCTIONS
  <2>1. CASE frames = <<>>
    BY <1>2, <2>1 DEF EXPORT_FUNCTIONS, EInv, Chain, Top
  <2>2. CASE frames # <<>>
    <3> DEFINE frame == [Top EXCEPT !.exported = @ \cup {f}]
    <3>1. Top \in Frame
      BY <2>2, TopType DEF MInv, FramesOK
    <3>2. frame \in Frame /\ frame.current = Top.current /\ frame.PECLASS = Top.PECLASS
      BY <3>1 DEF Frame
    <3>3. frames' = WithTop(frame)
      BY <1>2, <2>2 DEF EXPORT_FUNCTIONS
    <3> HIDE DEF frame
    <3>4. Chain' /\ Len(frames') = Len(frames) /\ frames' # <<>> /\ Top' = frame
      BY <2>2, <3>2, <3>3, ReplacedChain DEF EInv
    <3> QED
      BY <1>2, <2>2, <3>2, <3>4 DEF EInv, EXPORT_FUNCTIONS
  <2> QED
    BY <2>1, <2>2
<1> QED
  BY <1>1, <1>2

\* Every step of inherit and of files keeps ECLASS with the file executed.
LEMMA NextEInv == MInv /\ EInv /\ [Next]_vars => EInv'
<1> SUFFICES ASSUME MInv, EInv, [Next]_vars PROVE EInv'
  OBVIOUS
<1>1. CASE UNCHANGED vars
  BY <1>1 DEF vars, EInv, Chain, Top
<1>2. CASE Fail
  BY <1>2 DEF Fail, EInv, Chain, Top
<1>3. ASSUME NEW n \in 0..MaxDepth, Jump(n) PROVE EInv'
  BY <1>3 DEF Jump, EInv
<1> QED
  BY <1>1, <1>2, <1>3, EnterEInv, StartEInv, EndEInv, LeaveEInv, FileEInv DEF Next, Stopped

\* ... and so does every behaviour, together with MInv, which it rests on.
LEMMA EInvHolds == Spec => [](MInv /\ EInv)
<1>1. Init => EInv
  <2> SUFFICES ASSUME Init PROVE EInv
    OBVIOUS
  <2>1. frames = <<>> /\ Len(frames) = 0
    BY EmptySeq DEF Init
  <2> QED
    BY <2>1 DEF Init, EInv, Chain
<1> QED
  BY <1>1, InitMInv, NextMInv, NextEInv, PTL DEF Spec

\* Until break or continue has left an inherit, ECLASS is the eclass whose file
\* is executed and ECLASS_DEPTH the number of active inherits.
THEOREM EclassFollowsFile == Spec => []EclassIsFile
<1>1. MInv /\ EInv => EclassIsFile
  <2> SUFFICES ASSUME MInv, EInv, ~jumped PROVE EclassIsFile
    BY DEF EclassIsFile
  <2>1. InFile => ECLASS = IF frames = <<>> THEN None ELSE File
    BY DEF EInv, InFile, File
  <2>2. Len(frames) \in Nat
    BY LenProperties DEF MInv, FramesOK
  <2>3. \A i \in 2..Len(frames) : i \in 1..Len(frames) /\ i > 1
    BY <2>2
  <2> QED
    BY <2>1, <2>3 DEF EclassIsFile, EInv, Chain
<1> QED
  BY <1>1, EInvHolds, PTL

----------------------------------------------------------------------------
(* Functions that are exported.                                            *)

\* The file whose exports the current list holds: the running one, or the one
\* around an inherit that is between two eclasses.
OwnerIndex == IF frames # <<>> /\ Top.current = None THEN Len(frames) - 1 ELSE Len(frames)

\* The list in use holds what its owner exported, in an eclass all of what it
\* exported behind its own inherits.
SInv ==
    ~jumped =>
        /\ \A f \in Functions : functions[f] # None => <<functions[f], f>> \in exports
        /\ export_funcs_var # 0 =>
              \A f \in export_functions[export_funcs_var] :
                  OwnerIndex # 0 => <<frames[OwnerIndex].current, f>> \in exports
        /\ frames # <<>> /\ Top.current # None =>
              Top.exported \subseteq export_functions[export_funcs_var]

\* Initially no list of exports has words and no function is defined.
LEMMA InitSInv == Init => SInv
  BY DEF Init, SInv

\* The list goes on belonging to the file that calls inherit.
LEMMA EnterSInv ==
  ASSUME MInv, SInv, NEW args \in ArgLists, EnterInherit(args)
  PROVE  SInv'
<1> SUFFICES ASSUME ~jumped PROVE SInv'
  BY DEF SInv, EnterInherit
<1> DEFINE frame == [args |-> args, current |-> None, PECLASS |-> ECLASS,
                     prev_export_funcs_var |-> export_funcs_var,
                     B |-> [k \in Keys |-> Empty],
                     caller |-> [k \in Keys |-> Text(metadata[k])],
                     exported |-> {}]
<1>1. frame \in Frame /\ frame.current = None
  BY ArgListsAssumption DEF Frame, MInv, Types, Text, Texts
<1>2. frames' = Append(frames, frame) /\ frames \in Seq(Frame)
  BY DEF EnterInherit, MInv, FramesOK
<1> HIDE DEF frame
<1>3. /\ Len(frames) \in Nat /\ Len(frames') = Len(frames) + 1
      /\ frames' # <<>> /\ Top' = frame
      /\ \A i \in 1..Len(frames) : frames'[i] = frames[i]
  BY <1>1, <1>2, Pushed
<1>4. OwnerIndex' = Len(frames)
  BY <1>1, <1>3 DEF OwnerIndex
<1>5. OwnerIndex = Len(frames)
  BY DEF OwnerIndex, EnterInherit, InFile
<1>6. OwnerIndex' # 0 => frames'[OwnerIndex'] = frames[OwnerIndex]
  BY <1>3, <1>4, <1>5
<1> QED
  BY <1>1, <1>3, <1>4, <1>5, <1>6 DEF SInv, EnterInherit

\* The innermost frame changes, in terms of Top.
LEMMA ReplacedTop ==
  ASSUME MInv, frames # <<>>, NEW frame \in Frame, frames' = WithTop(frame)
  PROVE  /\ Len(frames) \in Nat /\ Len(frames) >= 1
         /\ Len(frames') = Len(frames) /\ frames' # <<>> /\ Top' = frame
         /\ frames'[Len(frames)] = frame
<1>1. frames \in Seq(Frame) /\ Len(frames) \in Nat /\ Len(frames) >= 1
  BY TopType DEF MInv, FramesOK
<1>2. /\ Len(frames') = Len(frames) /\ frames' # <<>> /\ Top' = frame
      /\ \A i \in 1..Len(frames) : i < Len(frames) => frames'[i] = frames[i]
  BY <1>1, Replaced
<1> QED
  BY <1>1, <1>2 DEF Top

\* The list of the eclass that starts is empty.
LEMMA StartSInv ==
  ASSUME MInv, SInv, StartEclass
  PROVE  SInv'
<1> SUFFICES ASSUME ~jumped PROVE SInv'
  BY DEF SInv, StartEclass
<1>1. Top \in Frame /\ Len(frames) \in Nat /\ Len(frames) >= 1
  BY TopType DEF StartEclass, NextArgument, MInv, FramesOK
<1>2. Head(Top.args) \in Eclasses /\ Tail(Top.args) \in Seq(Eclasses)
  BY <1>1, HeadTailProperties DEF StartEclass, NextArgument, Frame
<1> DEFINE frame == [Top EXCEPT !.args = Tail(@), !.current = Head(Top.args),
                                !.B = [k \in Keys |-> Text(metadata[k])], !.exported = {}]
<1>3. frame \in Frame /\ frame.exported = {}
  BY <1>1, <1>2 DEF Frame, MInv, Types, Text, Texts
<1>4. frames' = WithTop(frame) /\ frames # <<>>
  BY DEF StartEclass, NextArgument
<1> HIDE DEF frame
<1>5. Top' = frame
  BY <1>3, <1>4, ReplacedTop
<1>6. ECLASS_DEPTH \in 1..MaxDepth
  BY <1>1, BoundsAssumption DEF MInv, FramesOK, Types
<1>7. export_funcs_var' = ECLASS_DEPTH /\ export_functions'[export_funcs_var'] = {}
  BY <1>6 DEF StartEclass, MInv, Types
<1> QED
  BY <1>3, <1>5, <1>7 DEF SInv, StartEclass

\* The stubs of an eclass that ends are named after the owner of the list.
LEMMA EndSInv ==
  ASSUME MInv, EInv, SInv, EndEclass
  PROVE  SInv'
<1> SUFFICES ASSUME ~jumped PROVE SInv'
  BY DEF SInv, EndEclass
<1> DEFINE frame == [Top EXCEPT !.current = None]
<1>1. Top \in Frame /\ Len(frames) \in 1..Len(frames)
  BY TopType DEF EndEclass, MInv, FramesOK
<1>2. frame \in Frame /\ frame.current = None
  BY <1>1 DEF Frame
<1>3. frames' = WithTop(frame) /\ frames # <<>>
  BY DEF EndEclass
<1> HIDE DEF frame
<1>4. Top' = frame
  BY <1>2, <1>3, ReplacedTop
<1>5. ECLASS = Top.current /\ OwnerIndex = Len(frames) /\ frames[OwnerIndex].current = ECLASS
  BY DEF EInv, OwnerIndex, EndEclass, Top
<1>6. export_funcs_var \in 1..MaxDepth
  BY <1>1, BoundsAssumption DEF MInv, FramesOK, Types, EndEclass, Top
<1>7. export_functions'[export_funcs_var'] = {} /\ export_funcs_var' # 0
  BY <1>6, BoundsAssumption DEF EndEclass, MInv, Types
<1>8. \A f \in export_functions[export_funcs_var] : <<ECLASS, f>> \in exports
  <2>1. OwnerIndex # 0 /\ export_funcs_var # 0
    BY <1>1, <1>5, <1>6, BoundsAssumption
  <2> QED
    BY <1>5, <2>1 DEF SInv
<1>9. \A f \in Functions : functions'[f] # None => <<functions'[f], f>> \in exports
  <2>1. \A f \in Functions :
           functions'[f] = IF f \in export_functions[export_funcs_var] /\ functions[f] = None
                           THEN ECLASS ELSE functions[f]
    BY DEF EndEclass, WithStubs
  <2> QED
    BY <1>8, <2>1 DEF SInv
<1> QED
  BY <1>2, <1>4, <1>7, <1>9 DEF SInv, EndEclass

\* The file around a nested inherit takes the list in use over, which is empty
\* or its own.
LEMMA LeaveSInv ==
  ASSUME MInv, EInv, SInv, LeaveInherit
  PROVE  SInv'
<1> SUFFICES ASSUME ~jumped PROVE SInv'
  BY DEF SInv, LeaveInherit
<1>1. PICK n \in Nat :
            /\ Len(frames) = n + 1 /\ Len(frames') = n
            /\ n + 1 \in 1..Len(frames) /\ Top = frames[n + 1]
            /\ frames' = <<>> <=> n = 0
            /\ n # 0 => n \in 1..Len(frames') /\ Top' = frames'[n] /\ Top'.exported = {}
            /\ \A i \in 1..n : /\ i \in 1..Len(frames)
                               /\ frames'[i].current = frames[i].current
  BY LeaveFrames
<1>2. ECLASS_DEPTH' = n
  BY <1>1 DEF EInv, LeaveInherit
<1>3. OwnerIndex = n
  BY <1>1 DEF OwnerIndex, LeaveInherit, LastArgumentDone
<1>4. CASE n = 0
  BY <1>1, <1>2, <1>4 DEF SInv, LeaveInherit
<1>5. CASE n # 0
  <2>1. n > 0 /\ n \in 1..n
    BY <1>5
  <2>2. UNCHANGED export_funcs_var
    BY <1>2, <2>1 DEF LeaveInherit
  <2>3. Top'.current # None
    BY <1>1, <2>1 DEF MInv, OuterInFile
  <2>4. OwnerIndex' = n /\ frames'[n].current = frames[n].current
    BY <1>1, <2>1, <2>3 DEF OwnerIndex
  <2>5. Top'.exported = {}
    BY <1>1, <1>5
  <2> QED
    BY <1>3, <1>5, <2>2, <2>4, <2>5 DEF SInv, LeaveInherit
<1> QED
  BY <1>4, <1>5

\* An eclass exports into its own list.
LEMMA ExportSInv ==
  ASSUME MInv, EInv, SInv, NEW f \in Functions, EXPORT_FUNCTIONS(f)
  PROVE  SInv'
<1> SUFFICES ASSUME ~jumped PROVE SInv'
  BY DEF SInv, EXPORT_FUNCTIONS
<1>1. frames # <<>>
  BY DEF EInv, EXPORT_FUNCTIONS
<1> DEFINE frame == [Top EXCEPT !.exported = @ \cup {f}]
<1>2. Top \in Frame /\ Len(frames) \in 1..Len(frames) /\ Top.current # None
  BY <1>1, TopType DEF MInv, FramesOK, EXPORT_FUNCTIONS, InFile
<1>3. frame \in Frame /\ frame.current = Top.current /\ frame.exported = Top.exported \cup {f}
  BY <1>2 DEF Frame
<1>4. frames' = WithTop(frame)
  BY <1>1 DEF EXPORT_FUNCTIONS
<1> HIDE DEF frame
<1>5. Len(frames') = Len(frames) /\ frames' # <<>> /\ Top' = frame
      /\ frames'[Len(frames)] = frame
  BY <1>1, <1>3, <1>4, ReplacedTop
<1>6. OwnerIndex = Len(frames) /\ OwnerIndex' = Len(frames)
  BY <1>2, <1>3, <1>5 DEF OwnerIndex
<1>7. frames'[OwnerIndex'].current = File /\ frames[OwnerIndex].current = File
  BY <1>1, <1>3, <1>5, <1>6 DEF File, Top
<1>8. export_funcs_var \in 1..MaxDepth
  BY <1>2, BoundsAssumption DEF MInv, FramesOK, Types, Top
<1>9. export_functions'[export_funcs_var'] = export_functions[export_funcs_var] \cup {f}
      /\ export_funcs_var' = export_funcs_var /\ functions' = functions
      /\ exports' = exports \cup {<<File, f>>}
  BY <1>8 DEF EXPORT_FUNCTIONS, MInv, Types
<1>10. OwnerIndex # 0 /\ export_funcs_var # 0
  BY <1>2, <1>6, <1>8, BoundsAssumption
<1>11. \A g \in export_functions[export_funcs_var] : <<File, g>> \in exports
  BY <1>7, <1>10 DEF SInv
<1>12. Top.exported \subseteq export_functions[export_funcs_var]
  BY <1>1, <1>2 DEF SInv
<1>13. \A g \in Functions : functions[g] # None => <<functions[g], g>> \in exports
  BY DEF SInv
<1> QED
  BY <1>3, <1>5, <1>7, <1>9, <1>11, <1>12, <1>13 DEF SInv

\* Every step keeps the lists of exports with eclasses that named their words.
LEMMA NextSInv == MInv /\ EInv /\ SInv /\ [Next]_vars => SInv'
<1> SUFFICES ASSUME MInv, EInv, SInv, [Next]_vars PROVE SInv'
  OBVIOUS
<1>1. CASE UNCHANGED vars
  BY <1>1 DEF vars, SInv, OwnerIndex, Top
<1>2. CASE Fail
  BY <1>2 DEF Fail, SInv, OwnerIndex, Top
<1>3. ASSUME NEW n \in 0..MaxDepth, Jump(n) PROVE SInv'
  BY <1>3 DEF Jump, SInv
<1>4. ASSUME NEW k \in Keys, NEW value \in Texts \cup {None}, Assign(k, value) PROVE SInv'
  BY <1>4 DEF Assign, SInv, OwnerIndex, Top
<1> QED
  BY <1>1, <1>2, <1>3, <1>4, EnterSInv, StartSInv, EndSInv, LeaveSInv, ExportSInv
     DEF Next, Stopped

\* The invariant of the exports holds in every behaviour.
LEMMA SInvHolds == Spec => [](MInv /\ EInv /\ SInv)
<1>1. Init => EInv
  <2> SUFFICES ASSUME Init PROVE EInv
    OBVIOUS
  <2>1. frames = <<>> /\ Len(frames) = 0
    BY EmptySeq DEF Init
  <2> QED
    BY <2>1 DEF Init, EInv, Chain
<1> QED
  BY <1>1, InitMInv, InitSInv, NextMInv, NextEInv, NextSInv, PTL DEF Spec

\* A function that inherit defines calls that of an eclass which exported it,
\* for any nesting of eclasses of the same depth and any reuse of their lists.
THEOREM StubsAreRight == Spec => []StubsCallTheirEclass
<1>1. SInv => StubsCallTheirEclass
  BY DEF SInv, StubsCallTheirEclass
<1> QED
  BY <1>1, SInvHolds, PTL

\* The end of an eclass defines what it exported.
LEMMA EndDefines ==
  MInv /\ EInv /\ SInv /\ [Next]_vars =>
    ((EndEclass /\ ~jumped) => \A f \in Top.exported : functions'[f] # None)
<1> SUFFICES ASSUME MInv, EInv, SInv, EndEclass, ~jumped, NEW f \in Top.exported
             PROVE  functions'[f] # None
  OBVIOUS
<1>1. Top \in Frame
  BY TopType DEF EndEclass, MInv, FramesOK
<1>2. f \in Functions /\ Top.current \in Eclasses
  BY <1>1 DEF Frame, EndEclass
<1>3. f \in export_functions[export_funcs_var]
  BY DEF SInv, EndEclass
<1>4. ECLASS \in Eclasses /\ ECLASS # None
  BY <1>2, NamesAssumption DEF EInv, EndEclass
<1> QED
  BY <1>2, <1>3, <1>4 DEF EndEclass, WithStubs

\* What an eclass exports behind its own inherits is defined when it ends,
\* although the list in use may by then be that of a deeper eclass.
THEOREM ExportsDefined == Spec => ExportsAreDefined
  BY SInvHolds, EndDefines, PTL DEF Spec, ExportsAreDefined

----------------------------------------------------------------------------
(* Whose metadata is where.                                                *)

\* The ebuild's values are in place in the ebuild and saved by the outermost
\* inherit; values of eclasses are in the other places.
Foreign(n, value) == IF n = 0 THEN value \notin Eclasses ELSE value # Ebuild

AInv ==
    ~jumped =>
        /\ \A k \in Keys : \A i \in 1..Len(E_[k]) : E_[k][i] # Ebuild
        /\ (frames = <<>> \/ Top.current # None) =>
              \A k \in Keys : Foreign(Len(frames), metadata[k])
        /\ \A i \in 1..Len(frames), k \in Keys : Foreign(i - 1, frames[i].caller[k])

\* Unset variables and empty ones are nobody's.
LEMMA ForeignText ==
  ASSUME NEW n \in Nat, NEW value \in Texts \cup {None}
  PROVE  Foreign(n, Text(value)) <=> Foreign(n, value)
  BY NamesAssumption DEF Foreign, Text, Texts

\* The innermost frame changes and keeps the metadata of its caller.
LEMMA ReplacedCallers ==
  ASSUME MInv, frames # <<>>, NEW frame \in Frame, frames' = WithTop(frame),
         frame.caller = Top.caller,
         \A i \in 1..Len(frames), k \in Keys : Foreign(i - 1, frames[i].caller[k])
  PROVE  /\ Len(frames') = Len(frames) /\ frames' # <<>> /\ Top' = frame
         /\ \A i \in 1..Len(frames'), k \in Keys : Foreign(i - 1, frames'[i].caller[k])
<1>1. frames \in Seq(Frame) /\ Len(frames) \in Nat
  BY TopType DEF MInv, FramesOK
<1>2. /\ Len(frames') = Len(frames) /\ frames' # <<>> /\ Top' = frame
      /\ \A i \in 1..Len(frames) : i < Len(frames) => frames'[i] = frames[i]
  BY <1>1, Replaced
<1>3. ASSUME NEW i \in 1..Len(frames) PROVE frames'[i].caller = frames[i].caller
  <2>1. CASE i = Len(frames)
    BY <1>2, <2>1 DEF Top
  <2>2. CASE i # Len(frames)
    BY <1>1, <1>2, <2>2
  <2> QED
    BY <2>1, <2>2
<1> QED
  BY <1>2, <1>3

\* A file calls inherit: what its frame saves is of its own kind.
LEMMA EnterAInv ==
  ASSUME MInv, AInv, NEW args \in ArgLists, EnterInherit(args)
  PROVE  AInv'
<1> SUFFICES ASSUME ~jumped PROVE AInv'
  BY DEF AInv, EnterInherit
<1> DEFINE frame == [args |-> args, current |-> None, PECLASS |-> ECLASS,
                     prev_export_funcs_var |-> export_funcs_var,
                     B |-> [k \in Keys |-> Empty],
                     caller |-> [k \in Keys |-> Text(metadata[k])],
                     exported |-> {}]
<1>1. /\ frame \in Frame /\ frame.current = None
      /\ \A k \in Keys : frame.caller[k] = Text(metadata[k])
  BY ArgListsAssumption DEF Frame, MInv, Types, Text, Texts
<1>2. frames' = Append(frames, frame) /\ frames \in Seq(Frame)
  BY DEF EnterInherit, MInv, FramesOK
<1> HIDE DEF frame
<1>3. /\ Len(frames) \in Nat /\ Len(frames') = Len(frames) + 1
      /\ frames' # <<>> /\ Top' = frame
      /\ \A i \in 1..Len(frames) : frames'[i] = frames[i]
  BY <1>1, <1>2, Pushed
<1>4. \A k \in Keys : metadata[k] \in Texts \cup {None} /\ Foreign(Len(frames), metadata[k])
  BY DEF AInv, EnterInherit, InFile, MInv, Types
<1>5. \A k \in Keys : Foreign(Len(frames), frame.caller[k])
  BY <1>1, <1>3, <1>4, ForeignText
<1>6. ASSUME NEW i \in 1..Len(frames'), NEW k \in Keys
      PROVE  Foreign(i - 1, frames'[i].caller[k])
  <2>1. CASE i = Len(frames')
    <3>1. i - 1 = Len(frames) /\ frames'[i] = frame
      BY <1>3, <2>1 DEF Top
    <3> QED
      BY <1>5, <3>1
  <2>2. CASE i # Len(frames')
    <3>1. i \in 1..Len(frames) /\ frames'[i] = frames[i]
      BY <1>3, <2>2
    <3> QED
      BY <3>1 DEF AInv
  <2> QED
    BY <2>1, <2>2
<1> QED
  BY <1>1, <1>3, <1>6 DEF AInv, EnterInherit

\* An eclass starts without metadata.
LEMMA StartAInv ==
  ASSUME MInv, AInv, StartEclass
  PROVE  AInv'
<1> SUFFICES ASSUME ~jumped PROVE AInv'
  BY DEF AInv, StartEclass
<1>1. Top \in Frame /\ Len(frames) \in Nat /\ Len(frames) >= 1
  BY TopType DEF StartEclass, NextArgument, MInv, FramesOK
<1>2. Head(Top.args) \in Eclasses /\ Tail(Top.args) \in Seq(Eclasses)
  BY <1>1, HeadTailProperties DEF StartEclass, NextArgument, Frame
<1> DEFINE frame == [Top EXCEPT !.args = Tail(@), !.current = Head(Top.args),
                                !.B = [k \in Keys |-> Text(metadata[k])], !.exported = {}]
<1>3. frame \in Frame /\ frame.caller = Top.caller
  BY <1>1, <1>2 DEF Frame, MInv, Types, Text, Texts
<1>4. frames' = WithTop(frame) /\ frames # <<>>
  BY DEF StartEclass, NextArgument
<1> HIDE DEF frame
<1>5. /\ Len(frames') = Len(frames)
      /\ \A i \in 1..Len(frames'), k \in Keys : Foreign(i - 1, frames'[i].caller[k])
  BY <1>3, <1>4, ReplacedCallers DEF AInv
<1>6. \A k \in Keys : Foreign(Len(frames'), metadata'[k])
  BY <1>1, <1>5, NamesAssumption DEF StartEclass, Unset, Foreign
<1> QED
  BY <1>5, <1>6 DEF AInv, StartEclass

\* What an eclass leaves goes to E_, and is not the ebuild's.
LEMMA EndAInv ==
  ASSUME MInv, AInv, EndEclass
  PROVE  AInv'
<1> SUFFICES ASSUME ~jumped PROVE AInv'
  BY DEF AInv, EndEclass
<1> DEFINE frame == [Top EXCEPT !.current = None]
<1>1. Top \in Frame /\ Len(frames) \in Nat /\ Len(frames) >= 1
  BY TopType DEF EndEclass, MInv, FramesOK
<1>2. frame \in Frame /\ frame.current = None /\ frame.caller = Top.caller
  BY <1>1 DEF Frame
<1>3. frames' = WithTop(frame) /\ frames # <<>>
  BY DEF EndEclass
<1> HIDE DEF frame
<1>4. /\ Top' = frame /\ frames' # <<>>
      /\ \A i \in 1..Len(frames'), k \in Keys : Foreign(i - 1, frames'[i].caller[k])
  BY <1>2, <1>3, ReplacedCallers DEF AInv
<1>5. \A k \in Keys : metadata[k] # Ebuild
  BY <1>1, <1>3 DEF AInv, EndEclass, Foreign
<1>6. ASSUME NEW k \in Keys, NEW i \in 1..Len(E_'[k])
      PROVE  E_'[k][i] # Ebuild
  <2>1. E_'[k] = IF Text(metadata[k]) = Empty THEN E_[k] ELSE Append(E_[k], metadata[k])
    BY DEF EndEclass, Appended
  <2>2. CASE Text(metadata[k]) = Empty
    BY <1>6, <2>1, <2>2 DEF AInv
  <2>3. CASE Text(metadata[k]) # Empty
    <3>1. metadata[k] \in Texts /\ E_[k] \in Seq(Texts)
      BY <2>3 DEF MInv, Types, Text
    <3>2. /\ Len(E_'[k]) = Len(E_[k]) + 1 /\ E_'[k][Len(E_[k]) + 1] = metadata[k]
          /\ \A j \in 1..Len(E_[k]) : E_'[k][j] = E_[k][j]
      BY <2>1, <2>3, <3>1, AppendProperties
    <3>3. Len(E_[k]) \in Nat
      BY <3>1, LenProperties
    <3>4. i = Len(E_[k]) + 1 \/ i \in 1..Len(E_[k])
      BY <1>6, <3>2, <3>3
    <3> QED
      BY <1>5, <3>2, <3>4 DEF AInv
  <2> QED
    BY <2>2, <2>3
<1> QED
  BY <1>2, <1>4, <1>6 DEF AInv

\* The metadata behind an inherit is that of the file that called it.
LEMMA LeaveAInv ==
  ASSUME MInv, AInv, LeaveInherit
  PROVE  AInv'
<1> SUFFICES ASSUME ~jumped PROVE AInv'
  BY DEF AInv, LeaveInherit
<1>1. PICK n \in Nat :
            /\ Len(frames) = n + 1 /\ Len(frames') = n
            /\ n + 1 \in 1..Len(frames) /\ Top = frames[n + 1]
            /\ \A i \in 1..n : /\ i \in 1..Len(frames)
                               /\ frames'[i].caller = frames[i].caller
  BY LeaveFrames
<1>2. ASSUME NEW k \in Keys PROVE Foreign(n, metadata'[k])
  <2>1. Text(metadata[k]) = Top.caller[k]
    BY DEF MInv, Saved, LeaveInherit, LastArgumentDone
  <2>2. Foreign((n + 1) - 1, frames[n + 1].caller[k]) /\ (n + 1) - 1 = n
    BY <1>1 DEF AInv
  <2>3. metadata[k] \in Texts \cup {None} /\ metadata' = metadata
    BY DEF MInv, Types, LeaveInherit
  <2> QED
    BY <1>1, <2>1, <2>2, <2>3, ForeignText
<1>3. \A i \in 1..Len(frames'), k \in Keys : Foreign(i - 1, frames'[i].caller[k])
  BY <1>1 DEF AInv
<1> QED
  BY <1>1, <1>2, <1>3 DEF AInv, LeaveInherit

\* Files assign their own values.
LEMMA AssignAInv ==
  ASSUME MInv, AInv, NEW k \in Keys, NEW value \in Texts \cup {None}, Assign(k, value)
  PROVE  AInv'
<1> SUFFICES ASSUME ~jumped PROVE AInv'
  BY DEF AInv, Assign
<1>1. Foreign(Len(frames), value)
  <2>1. CASE frames = <<>>
    <3>1. Len(frames) = 0
      BY <2>1, EmptySeq
    <3> QED
      BY <2>1, <3>1, NamesAssumption DEF Assign, File, Foreign
  <2>2. CASE frames # <<>>
    <3>1. Top \in Frame /\ Len(frames) \in Nat /\ Len(frames) >= 1
      BY <2>2, TopType DEF MInv, FramesOK
    <3>2. Top.current \in Eclasses
      BY <2>2, <3>1 DEF Assign, InFile, Frame
    <3> QED
      BY <2>2, <3>1, <3>2, NamesAssumption DEF Assign, File, Foreign
  <2> QED
    BY <2>1, <2>2
<1>2. \A l \in Keys : metadata'[l] = IF l = k THEN value ELSE metadata[l]
  BY DEF Assign, MInv, Types
<1>3. UNCHANGED <<frames, E_>>
  BY DEF Assign
<1> QED
  BY <1>1, <1>2, <1>3 DEF AInv, Top

\* Exports leave the metadata alone.
LEMMA ExportAInv ==
  ASSUME MInv, AInv, NEW f \in Functions, EXPORT_FUNCTIONS(f)
  PROVE  AInv'
<1> SUFFICES ASSUME ~jumped PROVE AInv'
  BY DEF AInv, EXPORT_FUNCTIONS
<1>1. UNCHANGED <<metadata, E_>>
  BY DEF EXPORT_FUNCTIONS
<1>2. CASE frames = <<>>
  BY <1>1, <1>2 DEF EXPORT_FUNCTIONS, AInv, Top
<1>3. CASE frames # <<>>
  <2> DEFINE frame == [Top EXCEPT !.exported = @ \cup {f}]
  <2>1. Top \in Frame /\ Top.current # None
    BY <1>3, TopType DEF MInv, FramesOK, EXPORT_FUNCTIONS, InFile
  <2>2. frame \in Frame /\ frame.current = Top.current /\ frame.caller = Top.caller
    BY <2>1 DEF Frame
  <2>3. frames' = WithTop(frame)
    BY <1>3 DEF EXPORT_FUNCTIONS
  <2> HIDE DEF frame
  <2>4. /\ Len(frames') = Len(frames) /\ Top' = frame
        /\ \A i \in 1..Len(frames'), k \in Keys : Foreign(i - 1, frames'[i].caller[k])
    BY <1>3, <2>2, <2>3, ReplacedCallers DEF AInv
  <2> QED
    BY <1>1, <1>3, <2>1, <2>2, <2>4 DEF AInv
<1> QED
  BY <1>2, <1>3

\* Every step keeps the metadata of the ebuild and of the eclasses apart.
LEMMA NextAInv == MInv /\ AInv /\ [Next]_vars => AInv'
<1> SUFFICES ASSUME MInv, AInv, [Next]_vars PROVE AInv'
  OBVIOUS
<1>1. CASE UNCHANGED vars
  BY <1>1 DEF vars, AInv, Top
<1>2. CASE Fail
  BY <1>2 DEF Fail, AInv, Top
<1>3. ASSUME NEW n \in 0..MaxDepth, Jump(n) PROVE AInv'
  BY <1>3 DEF Jump, AInv
<1> QED
  BY <1>1, <1>2, <1>3, EnterAInv, StartAInv, EndAInv, LeaveAInv, AssignAInv, ExportAInv
     DEF Next, Stopped

\* IUSE and the others of the ebuild never get into E_IUSE, and those of the
\* eclasses never into the ebuild's, for any nesting of inherits.
THEOREM MetadataApart == Spec => []EbuildMetadataApart
<1>1. Init => AInv
  <2> SUFFICES ASSUME Init PROVE AInv
    OBVIOUS
  <2>1. Len(frames) = 0 /\ \A k \in Keys : Len(E_[k]) = 0
    BY EmptySeq DEF Init
  <2>2. \A k \in Keys : metadata[k] = None
    BY DEF Init, Unset
  <2> QED
    BY <2>1, <2>2, NamesAssumption DEF AInv, Foreign
<1>2. MInv /\ AInv => EbuildMetadataApart
  <2> SUFFICES ASSUME MInv, AInv, ~jumped PROVE EbuildMetadataApart
    BY DEF EbuildMetadataApart
  <2>1. frames = <<>> => Len(frames) = 0
    BY EmptySeq
  <2> QED
    BY <2>1 DEF AInv, EbuildMetadataApart, Foreign
<1> QED
  BY <1>1, <1>2, InitMInv, NextMInv, NextAInv, PTL DEF Spec
============================================================================
