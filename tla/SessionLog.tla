------------------------------ MODULE SessionLog ------------------------------
(***************************************************************************)
(* What a session's storage promises: a save that is acknowledged is kept, *)
(* a save that is refused leaves the previous one, and a save that a crash *)
(* interrupts is kept whole or not at all.  When the disk also refuses to  *)
(* undo a failed save, nothing is promised until the session is reopened.  *)
(***************************************************************************)
CONSTANTS Document, NoDocument

VARIABLES
    saved,  \* what the storage holds for a reader, NoDocument when unknown
    coming, \* the document being saved, NoDocument between saves
    open,   \* a process has the session open
    sure    \* the promise stands

vars == <<saved, coming, open, sure>>

Init == saved = NoDocument /\ coming = NoDocument /\ open = TRUE /\ sure = TRUE

Begin ==
    /\ open /\ coming = NoDocument
    /\ coming' \in Document
    /\ UNCHANGED <<saved, open, sure>>

Acknowledge ==
    /\ open /\ coming # NoDocument
    /\ saved' = (IF sure THEN coming ELSE NoDocument)
    /\ coming' = NoDocument
    /\ UNCHANGED <<open, sure>>

Refuse ==
    /\ open /\ coming # NoDocument
    /\ coming' = NoDocument
    /\ UNCHANGED <<saved, open, sure>>

Lose ==
    /\ open /\ coming # NoDocument
    /\ coming' = NoDocument /\ saved' = NoDocument /\ sure' = FALSE
    /\ UNCHANGED open

Crash ==
    /\ open
    /\ saved' \in {saved} \cup (IF sure /\ coming # NoDocument THEN {coming} ELSE {})
    /\ coming' = NoDocument /\ open' = FALSE
    /\ UNCHANGED sure

Open ==
    /\ ~open /\ open' = TRUE
    /\ IF sure THEN saved # NoDocument /\ saved' = saved ELSE saved' \in Document
    /\ sure' = TRUE
    /\ UNCHANGED coming

Next == Begin \/ Acknowledge \/ Refuse \/ Lose \/ Crash \/ Open

Spec == Init /\ [][Next]_vars
=============================================================================
