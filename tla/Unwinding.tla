----------------------------- MODULE Unwinding -----------------------------
(***************************************************************************)
(* How control leaves the constructs of a script (libbashWalker.g and the  *)
(* builtins): break, continue, return and errors are C++ exceptions, and   *)
(* the tree walker is a recursion whose frames own things that destructors *)
(* give back -- a local scope, an entry of ast_stack, the streams of a     *)
(* redirected command, a temporary AST.  One step here leaves one frame.   *)
(*                                                                         *)
(* The script is not a given text: in every state it may go on with any    *)
(* command.  if, case, { }, && and || own nothing and catch nothing, so    *)
(* they are not frames; the values of variables are the subject of module  *)
(* Scopes.                                                                 *)
(***************************************************************************)
EXTENDS Nesting

CONSTANTS
    Functions,    \* names of functions
    Files,        \* sourced files; their ASTs are cached and never destroyed
    Script,       \* the script; its AST outlives the walk
    None,         \* no function of this name
    Dangling,     \* a reference to a destroyed AST
    Keywords,     \* the loops of the script
    Redirections, \* whether commands may be redirected
    MaxCount,     \* bound: the argument of break and continue
    MaxDepth      \* bound: the length of stack

ASSUME ConstantsAssumption ==
    /\ Script \notin Files
    /\ {None, Dangling} \cap (Files \cup {Script} \cup Nat) = {}
    /\ None # Dangling
    /\ Keywords \subseteq {"while", "until", "for"}
    /\ Redirections \subseteq BOOLEAN
ASSUME BoundsAssumption == MaxCount \in Nat \ {0} /\ MaxDepth \in Nat

VARIABLES
    stack,         \* the frames of the walker, innermost last
    exception,     \* the exception in flight
    status,        \* $?
    local_members, \* the number of local scopes
    ast_stack,     \* the ASTs being walked; functions are defined in the last
    out,           \* the output stream: 0, or the frame that opened it
    zero,          \* $0
    functions,     \* the AST in which each function is defined
    mode           \* running; ended; escaped: an exception has left interpret;
                   \* crashed: a destroyed AST was walked

vars == <<stack, exception, status, local_members, ast_stack, out, zero, functions, mode>>

Paths == Files \cup {Script}

\* An AST: that of a file, or the temporary one that frame i owns.
Asts == Paths \cup 1..MaxDepth

Statuses == 0..2

\* A frame: its loop keyword and what the loop is doing, the AST it walks, the
\* stream it gives back, whether it opened one, and the $0 it puts back.
Frame ==
    [kind : Kinds,
     keyword : {"while", "until", "for", "none"},
     phase : {"between", "body"},
     ast : Asts,
     out : 0..MaxDepth,
     redirects : BOOLEAN,
     original_path : Paths]

NoException == [what |-> "none", count |-> 1]

Exceptions == [what : {"none", "break", "continue", "return", "error"}, count : 1..MaxCount]

Init ==
    /\ stack = <<>>
    /\ exception = NoException
    /\ status = 0
    /\ local_members = 0
    /\ ast_stack = <<Script>>
    /\ out = 0
    /\ zero = Script
    /\ functions = [f \in Functions |-> None]
    /\ mode = "running"

----------------------------------------------------------------------------
Front(s) == SubSeq(s, 1, Len(s) - 1)

Last(s) == s[Len(s)]

Running == mode = "running" /\ exception = NoException

Raised == mode = "running" /\ exception # NoException

\* for has no commands in its condition, at most a command substitution.
ExecutesCommands ==
    Running /\ (stack # <<>> => ~(Last(stack).keyword = "for" /\ Last(stack).phase = "between"))

HasScope(kind) == kind \in {"call", "source"}

WalksAst(kind) == kind # "loop"

OwnsAst(kind) == kind \in {"eval", "substitution"}

\* Entering a frame: current_streams saves the streams before a redirection
\* replaces them, local_scope pushes a scope, create_walker pushes the AST.
Enter(kind, keyword, ast, redirects) ==
    LET top == Len(stack) + 1 IN
    /\ top <= MaxDepth
    /\ stack' = Append(stack, [kind |-> kind, keyword |-> keyword,
                               phase |-> IF kind = "loop" THEN "between" ELSE "body",
                               ast |-> ast, out |-> out, redirects |-> redirects,
                               original_path |-> zero])
    /\ out' = IF redirects THEN top ELSE out
    /\ local_members' = IF HasScope(kind) THEN local_members + 1 ELSE local_members
    /\ ast_stack' = IF WalksAst(kind) THEN Append(ast_stack, ast) ELSE ast_stack

\* Mutant: the AST is popped after the walk, not by the deleter of the walker.
Leave_ForgetsAst ==
    LET top == Last(stack) IN
    /\ stack' = Front(stack)
    /\ out' = top.out
    /\ local_members' = IF HasScope(top.kind) THEN local_members - 1 ELSE local_members
    /\ ast_stack' = IF WalksAst(top.kind) /\ Running THEN Front(ast_stack) ELSE ast_stack
    /\ functions' = IF OwnsAst(top.kind)
                    THEN [f \in Functions |->
                            IF functions[f] = top.ast THEN Dangling ELSE functions[f]]
                    ELSE functions

\* Leaving a frame, in either way: its destructors.
Leave ==
    LET top == Last(stack) IN
    /\ stack' = Front(stack)
    /\ out' = top.out
    /\ local_members' = IF HasScope(top.kind) THEN local_members - 1 ELSE local_members
    /\ ast_stack' = IF WalksAst(top.kind) THEN Front(ast_stack) ELSE ast_stack
    /\ functions' = IF OwnsAst(top.kind)
                    THEN [f \in Functions |->
                            IF functions[f] = top.ast THEN Dangling ELSE functions[f]]
                    ELSE functions

----------------------------------------------------------------------------
(* Commands.                                                               *)

\* A command without commands in it, a loop without iterations, a negation.
Simple(s) ==
    /\ ExecutesCommands
    /\ status' = s
    /\ UNCHANGED <<stack, exception, local_members, ast_stack, out, zero, functions, mode>>

\* interpreter::define_function: insert keeps a definition that exists.
DefineFunction(f) ==
    /\ ExecutesCommands
    /\ functions' = [functions EXCEPT ![f] = IF @ = None THEN Last(ast_stack) ELSE @]
    /\ UNCHANGED <<stack, exception, status, local_members, ast_stack, out, zero, mode>>

\* unset -f
UnsetFunction(f) ==
    /\ ExecutesCommands
    /\ functions' = [functions EXCEPT ![f] = None]
    /\ status' = 0
    /\ UNCHANGED <<stack, exception, local_members, ast_stack, out, zero, mode>>

\* A loop begins.
EnterLoop(keyword, redirects) ==
    /\ ExecutesCommands
    /\ Enter("loop", keyword, Last(ast_stack), redirects)
    /\ UNCHANGED <<exception, status, zero, functions, mode>>

\* while and until look at the status of their condition for 1 and 0; for looks
\* at its list or its arithmetic condition.
LoopGoesOn(keyword) ==
    \/ keyword = "while" /\ status # 1
    \/ keyword = "until" /\ status # 0
    \/ keyword = "for"

LoopEnds(keyword) ==
    \/ keyword = "while" /\ status = 1
    \/ keyword = "until" /\ status = 0
    \/ keyword = "for"

InLoop(phase) == Running /\ stack # <<>> /\ Last(stack).kind = "loop" /\ Last(stack).phase = phase

StartIteration ==
    /\ InLoop("between")
    /\ LoopGoesOn(Last(stack).keyword)
    /\ stack' = [stack EXCEPT ![Len(stack)].phase = "body"]
    /\ UNCHANGED <<exception, status, local_members, ast_stack, out, zero, functions, mode>>

EndIteration ==
    /\ InLoop("body")
    /\ stack' = [stack EXCEPT ![Len(stack)].phase = "between"]
    /\ UNCHANGED <<exception, status, local_members, ast_stack, out, zero, functions, mode>>

LeaveLoop ==
    /\ InLoop("between")
    /\ LoopEnds(Last(stack).keyword)
    /\ Leave
    /\ UNCHANGED <<exception, status, zero, mode>>

\* execute_command calls a function: its body is walked in the AST where it was
\* defined, or in memory that was an AST.
CallFunction(f, redirects) ==
    /\ ExecutesCommands
    /\ functions[f] # None
    /\ IF functions[f] = Dangling
       THEN /\ mode' = "crashed"
            /\ UNCHANGED <<stack, exception, status, local_members, ast_stack, out, zero, functions>>
       ELSE /\ Enter("call", "none", functions[f], redirects)
            /\ UNCHANGED <<exception, status, zero, functions, mode>>

\* source_builtin::exec
Source(path, redirects) ==
    /\ ExecutesCommands
    /\ Enter("source", "none", path, redirects)
    /\ zero' = path
    /\ UNCHANGED <<exception, status, functions, mode>>

\* eval_builtin::exec parses its arguments into a temporary AST; declare, local,
\* export and arithmetic do the same with the grammar rule they need.
Eval(redirects) ==
    /\ ExecutesCommands
    /\ Enter("eval", "none", Len(stack) + 1, redirects)
    /\ UNCHANGED <<exception, status, zero, functions, mode>>

\* $(...): the output goes to a buffer of this frame, the text is parsed into a
\* temporary AST.  Nothing else is set apart: it is no subshell.
Substitute ==
    /\ Running
    /\ Enter("substitution", "none", Len(stack) + 1, TRUE)
    /\ UNCHANGED <<exception, status, zero, functions, mode>>

\* The AST of the innermost frame is walked to its end; "negated" is the "!"
\* behind a command.
EndFrame(negated) ==
    LET top == Last(stack) IN
    /\ Running
    /\ stack # <<>> /\ top.kind # "loop"
    /\ Leave
    /\ zero' = IF top.kind = "source" THEN top.original_path ELSE zero
    /\ status' = IF negated THEN IF status = 0 THEN 1 ELSE 0 ELSE status
    /\ negated => top.kind # "substitution"
    /\ UNCHANGED <<exception, mode>>

EndScript ==
    /\ Running
    /\ stack = <<>>
    /\ mode' = "ended"
    /\ UNCHANGED <<stack, exception, status, local_members, ast_stack, out, zero, functions>>

----------------------------------------------------------------------------
(* Exceptions are thrown ...                                               *)

Throw(what, count) ==
    /\ exception' = [what |-> what, count |-> count]
    /\ UNCHANGED <<stack, local_members, ast_stack, out, zero, functions, mode>>

\* break_builtin::exec and continue_builtin::exec
BreakOrContinue(what, count) ==
    /\ ExecutesCommands
    /\ Throw(what, count)
    /\ UNCHANGED status

\* return_builtin::exec, with or without an argument
Return(s) ==
    /\ ExecutesCommands
    /\ Throw("return", 1)
    /\ status' = s

\* An error, in a command or an expansion; a command that is not supported sets
\* the status before it throws.
Fail(s) ==
    /\ Running
    /\ s \in {1, status}
    /\ Throw("error", 1)
    /\ status' = s

\* The file cannot be parsed: $0 stays replaced.
SourceFails(path) ==
    /\ ExecutesCommands
    /\ exception' = [what |-> "error", count |-> 1]
    /\ zero' = path
    /\ UNCHANGED <<stack, status, local_members, ast_stack, out, functions, mode>>

(* ... and leave the frames one at a time.                                 *)

\* Mutant: return is an exception that any loop catches.
Handles_ReturnToo(frame) ==
    \/ /\ frame.kind = "loop" /\ frame.phase = "body"
       /\ exception.what \in {"break", "continue", "return"}
    \/ HasScope(frame.kind) /\ exception.what = "return"

\* The handlers: a loop's around its body, a call's and a file's for return.
Handles(frame) ==
    \/ /\ frame.kind = "loop" /\ frame.phase = "body"
       /\ exception.what \in {"break", "continue"}
    \/ HasScope(frame.kind) /\ exception.what = "return"

\* The destructors of a frame that does not handle the exception.
Unwind ==
    /\ Raised
    /\ stack # <<>> /\ ~Handles(Last(stack))
    /\ Leave
    /\ UNCHANGED <<exception, status, zero, mode>>

\* Mutant: the frame counts down to zero, not to one.
Rethrow_OffByOne ==
    /\ Raised
    /\ stack # <<>> /\ Handles(Last(stack))
    /\ exception.count # 0 /\ exception.what # "return"
    /\ exception' = [exception EXCEPT !.count = @ - 1]
    /\ Leave
    /\ UNCHANGED <<status, zero, mode>>

\* rethrow_unless_correct_frame: another loop is to be left.
Rethrow ==
    /\ Raised
    /\ stack # <<>> /\ Handles(Last(stack))
    /\ exception.count # 1
    /\ exception' = [exception EXCEPT !.count = @ - 1]
    /\ Leave
    /\ UNCHANGED <<status, zero, mode>>

CatchBreak ==
    /\ Raised /\ exception.what = "break" /\ exception.count = 1
    /\ stack # <<>> /\ Handles(Last(stack))
    /\ exception' = NoException
    /\ Leave
    /\ UNCHANGED <<status, zero, mode>>

CatchContinue ==
    /\ Raised /\ exception.what = "continue" /\ exception.count = 1
    /\ stack # <<>> /\ Handles(Last(stack))
    /\ exception' = NoException
    /\ stack' = [stack EXCEPT ![Len(stack)].phase = "between"]
    /\ UNCHANGED <<status, local_members, ast_stack, out, zero, functions, mode>>

\* Mutant: what follows the try block is in it.
CatchReturn_KeepsZero(negated) ==
    LET top == Last(stack) IN
    /\ Raised /\ exception.what = "return"
    /\ stack # <<>> /\ Handles(top)
    /\ exception' = NoException
    /\ Leave
    /\ status' = IF negated THEN IF status = 0 THEN 1 ELSE 0 ELSE status
    /\ UNCHANGED <<zero, mode>>

\* execute_command and source_builtin::exec; the latter also puts $0 back.
CatchReturn(negated) ==
    LET top == Last(stack) IN
    /\ Raised /\ exception.what = "return"
    /\ stack # <<>> /\ Handles(top)
    /\ exception' = NoException
    /\ Leave
    /\ zero' = IF top.kind = "source" THEN top.original_path ELSE zero
    /\ status' = IF negated THEN IF status = 0 THEN 1 ELSE 0 ELSE status
    /\ UNCHANGED mode

\* Nobody is left to catch the exception: it leaves libbash::interpret.
Escape ==
    /\ Raised
    /\ stack = <<>>
    /\ mode' = "escaped"
    /\ UNCHANGED <<stack, exception, status, local_members, ast_stack, out, zero, functions>>

----------------------------------------------------------------------------
Stopped == mode # "running" /\ UNCHANGED vars

Commands ==
    \/ \E s \in {0, 1} : Simple(s)
    \/ \E f \in Functions : DefineFunction(f) \/ UnsetFunction(f)
    \/ \E redirects \in Redirections :
          \/ \E keyword \in Keywords : EnterLoop(keyword, redirects)
          \/ \E f \in Functions : CallFunction(f, redirects)
          \/ \E path \in Files : Source(path, redirects)
          \/ Eval(redirects)
    \/ Substitute
    \/ StartIteration \/ EndIteration \/ LeaveLoop
    \/ \E negated \in BOOLEAN : EndFrame(negated)
    \/ EndScript

Throws ==
    \/ \E what \in {"break", "continue"}, count \in 1..MaxCount : BreakOrContinue(what, count)
    \/ \E s \in Statuses : Return(s) \/ Fail(s)
    \/ \E path \in Files : SourceFails(path)

Propagation ==
    \/ Unwind \/ Rethrow
    \/ CatchBreak \/ CatchContinue \/ \E negated \in BOOLEAN : CatchReturn(negated)
    \/ Escape

Next == Commands \/ Throws \/ Propagation \/ Stopped

Spec == Init /\ [][Next]_vars

----------------------------------------------------------------------------
(* Properties.                                                             *)

TypeOK ==
    /\ stack \in Seq(Frame)
    /\ exception \in Exceptions
    /\ status \in Statuses
    /\ local_members \in 0..MaxDepth
    /\ ast_stack \in Seq(Asts)
    /\ out \in 0..MaxDepth
    /\ zero \in Paths
    /\ functions \in [Functions -> Asts \cup {None, Dangling}]
    /\ mode \in {"running", "ended", "escaped", "crashed"}

\* The stream that is current inside the first k frames.
Opened(k) == {i \in 1..k : stack[i].redirects}

StreamIn(k) == IF Opened(k) = {} THEN 0 ELSE Largest(Opened(k))

\* The frames among the first k that own a local scope, or an entry of ast_stack.
Scoped(k) == {i \in 1..k : HasScope(stack[i].kind)}

Walking(k) == {i \in 1..k : WalksAst(stack[i].kind)}

\* What the frames own is what they have not given back: as many scopes as calls
\* and sourced files, the ASTs being walked in their order, the stream of the
\* innermost redirected command.  An exception that leaves interpret has thus
\* given back everything, as after a script that ends.
Balanced ==
    LET n == Len(stack) IN
    /\ local_members = Cardinality(Scoped(n))
    /\ Len(ast_stack) = 1 + Cardinality(Walking(n))
    /\ ast_stack[1] = Script
    /\ \A i \in 1..n : ast_stack[1 + Cardinality(Walking(i))] = stack[i].ast
    /\ out = StreamIn(n)
    /\ \A i \in 1..n : stack[i].out = StreamIn(i - 1)

\* No temporary AST is destroyed while it is walked: it belongs to a frame
\* around the one that walks it, also when that is a call of a function which
\* the temporary AST defined (eval_builtin::exec, command_substitution).
WalkedAstsAlive ==
    \A i \in 1..Len(stack) :
        stack[i].ast \notin Paths =>
            stack[i].ast \in 1..i /\ OwnsAst(stack[stack[i].ast].kind)

\* The file around the first k frames.
Sources(k) == {i \in 1..k : stack[i].kind = "source"}

FileIn(k) == IF Sources(k) = {} THEN Script ELSE stack[Largest(Sources(k))].ast

ZeroIsFile ==
    /\ zero = FileIn(Len(stack))
    /\ \A i \in 1..Len(stack) :
          stack[i].kind = "source" => stack[i].original_path = FileIn(i - 1)

\* $0 stops being the file that is executed only while break, continue or an
\* error passes through a source command, which puts it back after a normal end
\* and after return (source_builtin::exec); since break and continue are caught
\* further out, scripts can see the wrong $0 after one of these.
ZeroLostByJumpsOnly ==
    [][(ZeroIsFile /\ ~ZeroIsFile') => exception'.what \in {"break", "continue", "error"}]_vars

\* break n, continue n, return and errors, carried out one frame at a time by
\* counters and handlers, are the jumps of ControlFlow: they end up in the n-th
\* enclosing loop, whatever calls, files and substitutions are in between, in
\* the innermost call or file, or nowhere.
Shape == [i \in 1..Len(stack) |-> [kind |-> stack[i].kind, phase |-> stack[i].phase]]

\* While an exception is in flight the jump has happened already.
Nest ==
    IF exception = NoException THEN Shape
    ELSE Leaves(Shape, exception.what, exception.count)

Fate ==
    CASE Raised /\ ~Catches(Shape, exception.what, exception.count) -> "escaped"
      [] mode = "crashed" -> "running"
      [] OTHER            -> IF Raised THEN "running" ELSE mode

Control == INSTANCE ControlFlow WITH nest <- Nest, fate <- Fate

ImplementsControlFlow == Control!Spec

\* interpreter.h: call makes a function call, of any name that has_function finds.
FunctionsRun == mode # "crashed"
============================================================================
