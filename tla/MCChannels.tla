------------------------------ MODULE MCChannels ------------------------------
(***************************************************************************)
(* WorkerEvents and Collaborator share no state.  This run checks each by  *)
(* itself: part says which one moves, and the other stays in its initial   *)
(* state.                                                                  *)
(***************************************************************************)
EXTENDS WorkerEvents, Collaborator

VARIABLE part
vars == <<eventVars, collaboratorVars, part>>

ChannelsTypeOK == EventTypeOK /\ CollaboratorTypeOK

Init == EventInit /\ CollaboratorInit /\ part \in {"events", "collaborator"}

EventsMove == part = "events" /\ EventNext /\ UNCHANGED <<collaboratorVars, part>>
CollaboratorMoves == part = "collaborator" /\ CollaboratorNext /\ UNCHANGED <<eventVars, part>>
Next == EventsMove \/ CollaboratorMoves

\* EventFairness and CollaboratorFairness, of the part that moves.
Fairness ==
    /\ WF_eventVars(part = "events" /\ SenderStep)
    /\ WF_eventVars(part = "events" /\ LoopStep)
    /\ WF_eventVars(part = "events" /\ Drop)
    /\ WF_collaboratorVars(part = "collaborator" /\ Worker)
    /\ WF_collaboratorVars(part = "collaborator"
                             /\ (StopReceipt \/ ReviewReceipt \/ Joined \/ ClosedReceipt \/ Left))

Spec == Init /\ [][Next]_vars /\ Fairness

\* EventsArrive of WorkerEvents (tui/worker.rs): what is sent is shown, and the
\* turn's thread is joined.
AllEventsArrive == (part = "events") => EventsArrive

\* ChildIsReached of Collaborator (collaboration/runtime.rs): updates are
\* received, and a collaborator that is stopped ends.
ChildrenAreReached == (part = "collaborator") => ChildIsReached
=============================================================================
