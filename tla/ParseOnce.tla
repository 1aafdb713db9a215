----------------------------- MODULE ParseOnce -----------------------------
(***************************************************************************)
(* What the cache behind "source" promises, without locks, null pointers   *)
(* or a map: whether a file can be parsed is decided once, by the first    *)
(* thread that asks, and every thread that asks gets that decision.        *)
(* SourceCache implements this module.                                     *)
(***************************************************************************)
CONSTANTS Threads, Paths

VARIABLES
    outcome,  \* the decision about each path
    reply,    \* free: not asking; waiting: has asked; served: got an AST
    asked     \* the path of the thread's latest request

onceVars == <<outcome, reply, asked>>

Init ==
    /\ outcome = [p \in Paths |-> "open"]
    /\ reply = [t \in Threads |-> "free"]
    /\ asked \in [Threads -> Paths]

Ask(t, p) ==
    /\ reply[t] = "free"
    /\ reply' = [reply EXCEPT ![t] = "waiting"]
    /\ asked' = [asked EXCEPT ![t] = p]
    /\ UNCHANGED outcome

\* The answer to t is the decision, which t makes itself if nobody has yet.
Answer(t, decision) ==
    /\ reply[t] = "waiting"
    /\ outcome[asked[t]] \in {"open", decision}
    /\ outcome' = [outcome EXCEPT ![asked[t]] = decision]
    /\ reply' = [reply EXCEPT ![t] = IF decision = "parsed" THEN "served" ELSE "free"]
    /\ UNCHANGED asked

\* t starts to walk the AST it was given.
Use(t) ==
    /\ reply[t] = "served"
    /\ outcome[asked[t]] = "parsed"
    /\ reply' = [reply EXCEPT ![t] = "free"]
    /\ UNCHANGED <<outcome, asked>>

Next ==
    \E t \in Threads :
        \/ \E p \in Paths : Ask(t, p)
        \/ \E decision \in {"parsed", "broken"} : Answer(t, decision)
        \/ Use(t)

Spec == Init /\ [][Next]_onceVars
============================================================================
