------------------------------ MODULE ProcessNews ------------------------------
(***************************************************************************)
(* What the process registry and the agent promise together, without       *)
(* threads, waits or requests: the model learns of every ending it learns  *)
(* of either from a tool call's result or from one announcement, never     *)
(* from an announcement of something it already knows, and never unlearns. *)
(***************************************************************************)
CONSTANT Process

VARIABLES
    ended,      \* processes that have ended
    known,      \* endings the model has seen
    announced   \* endings an accepted request told it

Init == ended = {} /\ known = {} /\ announced = {}

Ending(p) ==
    /\ p \notin ended
    /\ ended' = ended \cup {p}
    /\ UNCHANGED <<known, announced>>

\* A poll, a stop, a final launch result or a list.
Result(news) ==
    /\ news \subseteq ended
    /\ known' = known \cup news
    /\ UNCHANGED <<ended, announced>>

\* One accepted request announces all its news.
Announcement(news) ==
    /\ news # {}
    /\ news \subseteq ended \ known
    /\ known' = known \cup news
    /\ announced' = announced \cup news
    /\ UNCHANGED ended

Next ==
    \/ \E p \in Process : Ending(p)
    \/ \E news \in SUBSET Process : Result(news) \/ Announcement(news)

Spec == Init /\ [][Next]_<<ended, known, announced>>

=============================================================================
