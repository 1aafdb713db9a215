---------------------------- MODULE ControlFlow ----------------------------
(***************************************************************************)
(* What break, continue, return and errors promise a script, without       *)
(* exceptions, counters or handlers: each of them leaves the constructs it *)
(* has to leave at once.  Module Unwinding implements this one.            *)
(*                                                                         *)
(* nest holds the constructs being executed, innermost last; Nesting says  *)
(* what a jump leaves of them.                                             *)
(***************************************************************************)
EXTENDS Nesting

CONSTANTS MaxCount  \* bound: the argument of break and continue

VARIABLES
    nest,
    fate  \* running; ended: the script is done; escaped: nothing caught it

controlVars == <<nest, fate>>

----------------------------------------------------------------------------
Init == nest = <<>> /\ fate = "running"

Open(kind) ==
    /\ fate = "running"
    /\ nest' = Append(nest, [kind |-> kind, phase |-> IF kind = "loop" THEN "between" ELSE "body"])
    /\ UNCHANGED fate

Innermost == nest[Len(nest)]

\* The innermost construct ends; a loop does so between two iterations.
Close ==
    /\ fate = "running"
    /\ nest # <<>>
    /\ Innermost.kind = "loop" => Innermost.phase = "between"
    /\ nest' = SubSeq(nest, 1, Len(nest) - 1)
    /\ UNCHANGED fate

\* An iteration begins or ends.
Turn ==
    /\ fate = "running"
    /\ nest # <<>> /\ Innermost.kind = "loop"
    /\ nest' = [nest EXCEPT ![Len(nest)].phase = IF @ = "body" THEN "between" ELSE "body"]
    /\ UNCHANGED fate

Jump(what, count) ==
    /\ fate = "running"
    /\ nest' = Leaves(nest, what, count)
    /\ fate' = IF Catches(nest, what, count) THEN fate ELSE "escaped"

End ==
    /\ fate = "running"
    /\ nest = <<>>
    /\ fate' = "ended"
    /\ UNCHANGED nest

Next ==
    \/ \E kind \in Kinds : Open(kind)
    \/ Close
    \/ Turn
    \/ \E what \in {"break", "continue", "return", "error"}, count \in 1..MaxCount :
          Jump(what, count)
    \/ End

Spec == Init /\ [][Next]_controlVars
============================================================================
