------------------------------ MODULE Inherit ------------------------------
(***************************************************************************)
(* The "inherit" builtin (inherit_builtin.cpp): an ebuild sources eclasses *)
(* and these inherit others in turn.  inherit keeps its state in variables *)
(* of the script, global ones: the depth, the running eclass, the name of  *)
(* the variable that collects exported functions, and the metadata it      *)
(* hides from every eclass and puts back behind it.  It shares them with   *)
(* EXPORT_FUNCTIONS (utils/isolated-functions.sh), a function of scripts.  *)
(*                                                                         *)
(* The value of a metadata variable is the file that assigned it last.     *)
(***************************************************************************)
EXTENDS Naturals, Sequences

CONSTANTS
    Eclasses,
    PartOf,      \* <<d, e>>: the name of eclass d is a substring of that of e
    Keys,        \* IUSE, REQUIRED_USE, DEPEND, RDEPEND, PDEPEND
    Functions,   \* names given to EXPORT_FUNCTIONS
    ArgLists,    \* argument lists of inherit
    Ebuild,      \* the file outside of all eclasses
    Empty,       \* the empty string
    None,        \* an unset variable, an undefined function
    MaxDepth,    \* bound: the largest ECLASS_DEPTH
    MaxAppended  \* bound: assignments stop when E_k has as many values

ASSUME NamesAssumption ==
    /\ {Ebuild, Empty, None} \cap Eclasses = {}
    /\ Ebuild \notin {Empty, None} /\ Empty # None
    /\ PartOf \subseteq Eclasses \X Eclasses
    /\ \A e \in Eclasses : <<e, e>> \in PartOf
ASSUME ArgListsAssumption == ArgLists \subseteq Seq(Eclasses)
ASSUME BoundsAssumption == MaxDepth \in Nat /\ MaxAppended \in Nat

VARIABLES
    frames,           \* the calls of inherit, innermost last
    ECLASS_DEPTH,
    ECLASS,
    export_funcs_var, \* __export_funcs_var: d for "__export_functions_d", 0 if unset
    export_functions, \* the words of __export_functions_1, __export_functions_2, ...
    metadata,         \* IUSE and the others
    E_,               \* E_IUSE and the others
    INHERITED,
    functions,        \* the eclass whose function the exported one calls
    mode,             \* running; thrown: an exception has ended the ebuild
    exports,          \* history: which eclass exported what
    jumped            \* history: break or continue has left an inherit

vars == <<frames, ECLASS_DEPTH, ECLASS, export_funcs_var, export_functions,
          metadata, E_, INHERITED, functions, mode, exports, jumped>>

Texts == Eclasses \cup {Ebuild, Empty}

\* A call of inherit: the arguments it has not reached, the eclass it sources,
\* the locals of exec; caller is a history variable, the metadata at the call,
\* and exported another one, what the eclass exported after its own inherits.
Frame ==
    [args : Seq(Eclasses),
     current : Eclasses \cup {None},
     PECLASS : Eclasses \cup {None},
     prev_export_funcs_var : 0..MaxDepth,
     B : [Keys -> Texts],
     caller : [Keys -> Texts],
     exported : SUBSET Functions]

Unset == [k \in Keys |-> None]

Init ==
    /\ frames = <<>>
    /\ ECLASS_DEPTH = 0
    /\ ECLASS = None
    /\ export_funcs_var = 0
    /\ export_functions = [d \in 1..MaxDepth |-> {}]
    /\ metadata = Unset
    /\ E_ = [k \in Keys |-> <<>>]
    /\ INHERITED = <<>>
    /\ functions = [f \in Functions |-> None]
    /\ mode = "running"
    /\ exports = {}
    /\ jumped = FALSE

----------------------------------------------------------------------------
Running == mode = "running"

Top == frames[Len(frames)]

WithTop(frame) == [frames EXCEPT ![Len(frames)] = frame]

\* A file is being executed, not inherit itself.
InFile == Running /\ (frames # <<>> => Top.current # None)

File == IF frames = <<>> THEN Ebuild ELSE Top.current

\* resolve<std::string>: an unset variable reads as the empty string.
Text(value) == IF value = None THEN Empty ELSE value

\* hasq(e, "INHERITED"), a search for a substring
hasq(e) == \E i \in 1..Len(INHERITED) : <<e, INHERITED[i]>> \in PartOf

----------------------------------------------------------------------------
(* inherit_builtin::exec                                                   *)

\* inherit args: the depth is counted and what has to be restored is read.
EnterInherit(args) ==
    /\ InFile
    /\ ECLASS_DEPTH < MaxDepth
    /\ ECLASS_DEPTH' = ECLASS_DEPTH + 1
    /\ frames' = Append(frames,
                        [args |-> args, current |-> None, PECLASS |-> ECLASS,
                         prev_export_funcs_var |-> export_funcs_var,
                         B |-> [k \in Keys |-> Empty],
                         caller |-> [k \in Keys |-> Text(metadata[k])],
                         exported |-> {}])
    /\ UNCHANGED <<ECLASS, export_funcs_var, export_functions, metadata, E_,
                   INHERITED, functions, mode, exports, jumped>>

NextArgument ==
    /\ Running
    /\ frames # <<>> /\ Top.current = None /\ Top.args # <<>>

\* Mutant: the metadata is saved and not cleared.
StartEclass_KeepsMetadata ==
    /\ NextArgument
    /\ ECLASS' = Head(Top.args)
    /\ export_funcs_var' = ECLASS_DEPTH
    /\ export_functions' = [export_functions EXCEPT ![ECLASS_DEPTH] = {}]
    /\ frames' = WithTop([Top EXCEPT !.args = Tail(@), !.current = Head(Top.args),
                                     !.B = [k \in Keys |-> Text(metadata[k])],
                                     !.exported = {}])
    /\ UNCHANGED <<ECLASS_DEPTH, metadata, E_, INHERITED, functions, mode, exports, jumped>>

\* Mutant: the metadata is cleared and then saved.
StartEclass_SavesLate ==
    /\ NextArgument
    /\ ECLASS' = Head(Top.args)
    /\ export_funcs_var' = ECLASS_DEPTH
    /\ export_functions' = [export_functions EXCEPT ![ECLASS_DEPTH] = {}]
    /\ frames' = WithTop([Top EXCEPT !.args = Tail(@), !.current = Head(Top.args),
                                     !.B = [k \in Keys |-> Empty], !.exported = {}])
    /\ metadata' = Unset
    /\ UNCHANGED <<ECLASS_DEPTH, E_, INHERITED, functions, mode, exports, jumped>>

\* Mutant: what an earlier eclass exported at this depth is not cleared.
StartEclass_KeepsExports ==
    /\ NextArgument
    /\ ECLASS' = Head(Top.args)
    /\ export_funcs_var' = ECLASS_DEPTH
    /\ frames' = WithTop([Top EXCEPT !.args = Tail(@), !.current = Head(Top.args),
                                     !.B = [k \in Keys |-> Text(metadata[k])],
                                     !.exported = {}])
    /\ metadata' = Unset
    /\ UNCHANGED <<ECLASS_DEPTH, export_functions, E_, INHERITED, functions, mode,
                   exports, jumped>>

\* The next eclass: the list of its exports and the metadata are cleared, then
\* it is sourced; this is the case that it can be parsed.
StartEclass ==
    /\ NextArgument
    /\ ECLASS' = Head(Top.args)
    /\ export_funcs_var' = ECLASS_DEPTH
    /\ export_functions' = [export_functions EXCEPT ![ECLASS_DEPTH] = {}]
    /\ frames' = WithTop([Top EXCEPT !.args = Tail(@), !.current = Head(Top.args),
                                     !.B = [k \in Keys |-> Text(metadata[k])],
                                     !.exported = {}])
    /\ metadata' = Unset
    /\ UNCHANGED <<ECLASS_DEPTH, E_, INHERITED, functions, mode, exports, jumped>>

\* append_global: a value that is not null.
Appended ==
    [k \in Keys |-> IF Text(metadata[k]) = Empty THEN E_[k] ELSE Append(E_[k], metadata[k])]

\* restore_global: an empty value becomes an unset variable.
Restored == [k \in Keys |-> IF Top.B[k] = Empty THEN None ELSE Top.B[k]]

\* Mutant: the list of the depth is read, not the one __export_funcs_var names.
WithStubs_ByDepth ==
    [f \in Functions |->
        IF f \in export_functions[ECLASS_DEPTH] /\ functions[f] = None
        THEN ECLASS ELSE functions[f]]

\* A stub for every exported function; a function that exists is kept
\* (interpreter::define_function).
WithStubs ==
    [f \in Functions |->
        IF f \in export_functions[export_funcs_var] /\ functions[f] = None
        THEN ECLASS ELSE functions[f]]

\* The eclass ends, or return ends it: everything behind the source command.
EndEclass ==
    /\ Running
    /\ frames # <<>> /\ Top.current # None
    /\ E_' = Appended
    /\ metadata' = Restored
    /\ functions' = WithStubs
    /\ export_functions' = [export_functions EXCEPT ![export_funcs_var] = {}]
    /\ INHERITED' = IF hasq(Top.current) THEN INHERITED ELSE Append(INHERITED, Top.current)
    /\ frames' = WithTop([Top EXCEPT !.current = None])
    /\ UNCHANGED <<ECLASS_DEPTH, ECLASS, export_funcs_var, mode, exports, jumped>>

\* History: what the file around exported so far went to another list.
Forget(s) == IF s = <<>> THEN s ELSE [s EXCEPT ![Len(s)].exported = {}]

LastArgumentDone ==
    /\ Running
    /\ frames # <<>> /\ Top.current = None /\ Top.args = <<>>

\* Mutant: ECLASS is restored for the outermost call only.
LeaveInherit_KeepsEclass ==
    /\ LastArgumentDone
    /\ ECLASS_DEPTH' = ECLASS_DEPTH - 1
    /\ IF ECLASS_DEPTH' > 0
       THEN UNCHANGED <<ECLASS, export_funcs_var>>
       ELSE ECLASS' = None /\ export_funcs_var' = 0
    /\ frames' = Forget(SubSeq(frames, 1, Len(frames) - 1))
    /\ UNCHANGED <<export_functions, metadata, E_, INHERITED, functions, mode, exports, jumped>>

\* Mutant: __export_funcs_var is unset on every return.
LeaveInherit_Unsets ==
    /\ LastArgumentDone
    /\ ECLASS_DEPTH' = ECLASS_DEPTH - 1
    /\ ECLASS' = IF ECLASS_DEPTH' > 0 THEN Top.PECLASS ELSE None
    /\ export_funcs_var' = 0
    /\ frames' = Forget(SubSeq(frames, 1, Len(frames) - 1))
    /\ UNCHANGED <<export_functions, metadata, E_, INHERITED, functions, mode, exports, jumped>>

\* inherit returns.
LeaveInherit ==
    /\ LastArgumentDone
    /\ ECLASS_DEPTH' = ECLASS_DEPTH - 1
    /\ IF ECLASS_DEPTH' > 0
       THEN ECLASS' = Top.PECLASS /\ UNCHANGED export_funcs_var
       ELSE ECLASS' = None /\ export_funcs_var' = 0
    /\ frames' = Forget(SubSeq(frames, 1, Len(frames) - 1))
    /\ UNCHANGED <<export_functions, metadata, E_, INHERITED, functions, mode, exports, jumped>>

----------------------------------------------------------------------------
(* What files do.                                                          *)

\* k=..., to an empty value as well, and unset k.
Assign(k, value) ==
    /\ InFile
    /\ Len(E_[k]) < MaxAppended
    /\ value \in {File, Empty, None}
    /\ metadata' = [metadata EXCEPT ![k] = value]
    /\ UNCHANGED <<frames, ECLASS_DEPTH, ECLASS, export_funcs_var, export_functions,
                   E_, INHERITED, functions, mode, exports, jumped>>

\* EXPORT_FUNCTIONS f: refused where ECLASS is empty.
EXPORT_FUNCTIONS(f) ==
    /\ InFile
    /\ ECLASS # None
    /\ export_functions' = [export_functions EXCEPT ![export_funcs_var] = @ \cup {f}]
    /\ exports' = exports \cup {<<File, f>>}
    /\ frames' = IF frames = <<>> THEN frames
                 ELSE WithTop([Top EXCEPT !.exported = @ \cup {f}])
    /\ UNCHANGED <<ECLASS_DEPTH, ECLASS, export_funcs_var, metadata, E_, INHERITED,
                   functions, mode, jumped>>

\* break or continue, of a loop around an inherit command of file n: source
\* does not catch these, and the rest of exec is skipped n + 1 times and more.
Jump(n) ==
    /\ InFile
    /\ n < Len(frames)
    /\ frames' = SubSeq(frames, 1, n)
    /\ jumped' = TRUE
    /\ UNCHANGED <<ECLASS_DEPTH, ECLASS, export_funcs_var, export_functions, metadata,
                   E_, INHERITED, functions, mode, exports>>

\* Any other exception, an eclass that cannot be parsed included.
Fail ==
    /\ Running
    /\ mode' = "thrown"
    /\ UNCHANGED <<frames, ECLASS_DEPTH, ECLASS, export_funcs_var, export_functions,
                   metadata, E_, INHERITED, functions, exports, jumped>>

Stopped == ~Running /\ UNCHANGED vars

----------------------------------------------------------------------------
Next ==
    \/ \E args \in ArgLists : EnterInherit(args)
    \/ StartEclass \/ EndEclass \/ LeaveInherit
    \/ \E k \in Keys, value \in Texts \cup {None} : Assign(k, value)
    \/ \E f \in Functions : EXPORT_FUNCTIONS(f)
    \/ \E n \in 0..MaxDepth : Jump(n)
    \/ Fail
    \/ Stopped

Spec == Init /\ [][Next]_vars

----------------------------------------------------------------------------
(* Properties.                                                             *)

TypeOK ==
    /\ frames \in Seq(Frame)
    /\ Len(frames) <= ECLASS_DEPTH
    /\ ECLASS_DEPTH \in 0..MaxDepth
    /\ ECLASS \in Eclasses \cup {None}
    /\ export_funcs_var \in 0..MaxDepth
    /\ frames # <<>> /\ Top.current # None => export_funcs_var # 0
    /\ export_functions \in [1..MaxDepth -> SUBSET Functions]
    /\ metadata \in [Keys -> Texts \cup {None}]
    /\ E_ \in [Keys -> Seq(Texts)]
    /\ INHERITED \in Seq(Eclasses)
    /\ functions \in [Functions -> Eclasses \cup {None}]
    /\ mode \in {"running", "thrown"}
    /\ exports \subseteq (Eclasses \cup {Ebuild}) \X Functions
    /\ jumped \in BOOLEAN

\* ECLASS names the eclass whose file is executed, after any number of nested
\* inherits have come and gone, and is unset in the ebuild: EXPORT_FUNCTIONS
\* tests it and stubs are named after it.  Jumps out of inherit excepted.
EclassIsFile ==
    ~jumped =>
        /\ ECLASS_DEPTH = Len(frames)
        /\ InFile => ECLASS = IF frames = <<>> THEN None ELSE File
        /\ \A i \in 2..Len(frames) : frames[i].PECLASS = frames[i - 1].current

\* Whatever the eclasses do to IUSE and the others, their caller reads the
\* values it had before, also with several arguments and nested calls, and
\* even behind jumps out of the inherits further in.
CallerMetadataKept ==
    [][LastArgumentDone /\ frames' # frames =>
         \A k \in Keys : Text(metadata'[k]) = Top.caller[k]]_vars

\* What the ebuild assigns stays out of E_IUSE and the others, and what eclasses
\* assign stays out of the ebuild's IUSE and the others.
EbuildMetadataApart ==
    ~jumped =>
        \A k \in Keys :
            /\ \A i \in 1..Len(E_[k]) : E_[k][i] # Ebuild
            /\ frames = <<>> => metadata[k] \notin Eclasses

\* A function that inherit has defined calls that of an eclass which exported
\* it, although lists of exports are shared by all eclasses of a depth and the
\* list in use is not put back after a nested inherit.
StubsCallTheirEclass ==
    ~jumped => \A f \in Functions : functions[f] # None => <<functions[f], f>> \in exports

\* An eclass gets its exports defined, as far as it named them after its own
\* inherit commands.
ExportsAreDefined ==
    [][(EndEclass /\ ~jumped) => \A f \in Top.exported : functions'[f] # None]_vars

----------------------------------------------------------------------------
(* What the code says and does not do; the README discusses it.            *)

\* inherit_builtin.cpp, of PECLASS and prev_export_funcs_var: "These variables
\* must be restored before returning".
RestoresBeforeReturning ==
    [][(LeaveInherit /\ ~jumped) =>
         /\ ECLASS' = Top.PECLASS
         /\ export_funcs_var' = Top.prev_export_funcs_var]_vars
============================================================================
