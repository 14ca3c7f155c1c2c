------------------------------ MODULE CallLedger ------------------------------
(***************************************************************************)
(* What a conversation promises about its tool calls: what is told of a    *)
(* call is told once and is true.  A call that is said not to have run has *)
(* not run, and never will; a result is that of a run that ended.  Nothing *)
(* is promised of a call whose outcome is said to be unknown.              *)
(***************************************************************************)
CONSTANTS Call, Untouched \* the outcomes that say a call did not run

VARIABLES
    effect, \* what really happened to a call
    told    \* what the saved conversation says of it

vars == <<effect, told>>

Init ==
    /\ effect = [c \in Call |-> "none"]
    /\ told = [c \in Call |-> "none"]

Start(c) ==
    /\ effect[c] = "none" /\ told[c] \notin Untouched
    /\ effect' = [effect EXCEPT ![c] = "running"]
    /\ UNCHANGED told

End(c) ==
    /\ effect[c] = "running"
    /\ effect' = [effect EXCEPT ![c] = "done"]
    /\ UNCHANGED told

True(c, outcome) ==
    \/ outcome = "unknown"
    \/ outcome = "done" /\ effect[c] = "done"
    \/ outcome \in Untouched /\ effect[c] = "none"

\* A save may tell the outcomes of several calls.
Tell ==
    /\ told' \in [Call -> {"none", "done", "unknown"} \cup Untouched]
    /\ \A c \in Call : told'[c] = told[c] \/ (told[c] = "none" /\ True(c, told'[c]))
    /\ UNCHANGED effect

Next == Tell \/ \E c \in Call : Start(c) \/ End(c)

Spec == Init /\ [][Next]_vars
=============================================================================
