----------------------------- MODULE Collaborator -----------------------------
(***************************************************************************)
(* One collaborator and the main agent that manages it: its record in the  *)
(* conversation's Observer, its worker thread and the receipts both write  *)
(* (collaboration/runtime.rs, runtime/control.rs, mod.rs, restore.rs).     *)
(*                                                                         *)
(* An assignment is known by its version.  The record is changed under one *)
(* state lock, so a step is one section of that lock; what a function does *)
(* in two sections can be interleaved with the other thread.  Every receipt*)
(* saves the whole record, and a conversation is restored from the last.   *)
(* Versions only rise, so that a queue of versions is the set of them:     *)
(* its front is the least, and its back the greatest.                      *)
(*                                                                         *)
(* Left out: the creation of a batch of collaborators and its abort, files *)
(* and their integration, progress, messages and tool calls of the child,  *)
(* the child's own session, and an update whose receipt fails, which takes *)
(* back all it did in the section that did it.                             *)
(***************************************************************************)
EXTENDS Integers, FiniteSets, FiniteSetsExt

CONSTANTS
    MaxVersion,     \* bound: versions of the assignment
    QueueLimit,     \* inbox.rs LIMIT (8 in the code)
    MaxFaults,      \* bound: receipts and removals that fail
    MaxCrashes      \* bound: times the program stops

ASSUME BoundsAssumption ==
    /\ MaxVersion \in Nat \ {0} /\ QueueLimit \in Nat \ {0}
    /\ MaxFaults \in Nat /\ MaxCrashes \in Nat

VARIABLES
    record,     \* the collaborator's Record
    saved,      \* the record in the last saved receipt
    listed,     \* the Observer lists the record
    attached,   \* its Worker is in state.workers
    childCancelled,  \* the child's Cancellation was requested
    childWoken,      \* a message waits in the worker's channel
    inbox,      \* updates in the child's inbox
    pc,         \* where the worker thread stands
    receiving,  \* versions the worker is about to record as received
    accepted,   \* prompts a running turn accepted and has not announced
    turning,    \* the child's turn has begun
    answered,   \* the child's turn ended without an error
    told,       \* the newest version in the child's conversation
    main,       \* what the main agent's thread is doing
    faults, crashes,
    overflowed  \* an update found the running child's inbox full

collaboratorVars == <<record, saved, listed, attached, childCancelled, childWoken, inbox, pc, receiving,
          accepted, turning, answered, told, main, faults, crashes, overflowed>>
workerVars == <<pc, receiving, accepted, turning, answered, told>>
mainVars == <<listed, attached, childCancelled, main, crashes, overflowed>>

Version == 1..MaxVersion
State == {"running", "stopping", "stopped", "returned", "failed", "unknown"}

\* What a report says it answers, and what the child's model had been told.
Report == [version : 0..MaxVersion, about : 0..MaxVersion]

Record ==
    [state : State, sent : Version, received : 0..MaxVersion, pending : SUBSET Version,
     report : Report, reviewed : BOOLEAN, closed : BOOLEAN]

CollaboratorTypeOK ==
    /\ record \in Record /\ saved \in Record
    /\ inbox \subseteq Version /\ receiving \subseteq Version
    /\ {listed, attached, childCancelled, childWoken, turning, answered} \subseteq BOOLEAN
    /\ pc \in {"top", "sleep", "receive", "received", "prepare", "turn", "accepted",
               "ended", "returned", "stopped", "final", "exited"}
    /\ accepted \in Nat /\ told \in 0..MaxVersion
    /\ main \in {"idle", "stop", "review", "review again", "joining", "close",
                 "leaving", "down"}
    /\ faults \in 0..MaxFaults /\ crashes \in 0..MaxCrashes /\ overflowed \in BOOLEAN

\* create, after its receipt: the worker waits at the open gate.
CollaboratorInit ==
    /\ record = [state |-> "running", sent |-> 1, received |-> 0, pending |-> {1},
                 report |-> [version |-> 0, about |-> 0], reviewed |-> FALSE, closed |-> FALSE]
    /\ saved = record
    /\ listed = TRUE /\ attached = TRUE /\ childCancelled = FALSE /\ childWoken = FALSE
    /\ inbox = {} /\ pc = "top" /\ receiving = {} /\ accepted = 0
    /\ turning = FALSE /\ answered = FALSE /\ told = 0
    /\ main = "idle" /\ faults = 0 /\ crashes = 0 /\ overflowed = FALSE

Fault == faults < MaxFaults /\ faults' = faults + 1
NoFault == UNCHANGED faults

\* persistence_failed.
Unconfirmed == [record EXCEPT !.state = "unknown"]

-----------------------------------------------------------------------------
(* The worker thread: run_child.                                           *)

\* The newest assignment starts a turn; what the inbox holds is part of it.
Selected == Max(record.pending)

Select ==
    /\ pc = "top"
    /\ \/ /\ childCancelled \/ record.state = "stopping"
          /\ pc' = "final"
          /\ UNCHANGED <<receiving, inbox>>
       \/ /\ ~childCancelled /\ record.state # "stopping" /\ record.pending # {}
          /\ receiving' = {Selected} /\ inbox' = {}
          /\ pc' = "receive"
       \/ /\ ~childCancelled /\ record.state # "stopping" /\ record.pending = {}
          /\ pc' = "sleep"
          /\ UNCHANGED <<receiving, inbox>>
    /\ turning' = FALSE
    /\ UNCHANGED <<record, saved, mainVars, childWoken, accepted, answered, told, faults>>

\* recv: a message, or the end of a channel whose Worker was dropped.
WakeChild ==
    /\ pc = "sleep" /\ (childWoken \/ ~attached)
    /\ childWoken' = FALSE
    /\ pc' = IF childWoken THEN "top" ELSE "final"
    /\ UNCHANGED <<record, saved, mainVars, inbox, receiving, accepted, turning, answered, told,
                   faults>>

\* received: the record first, its receipt in a section of its own.
AsReceived_Clears(v) ==
    [record EXCEPT !.received = v, !.state = "running", !.pending = {}]
AsReceived(v) ==
    [record EXCEPT !.received = v, !.state = "running",
                   !.pending = {w \in @ : w > v}]

Receive ==
    /\ pc = "receive" /\ receiving # {}
    /\ record' = AsReceived(Min(receiving))
    /\ pc' = "received"
    /\ UNCHANGED <<saved, mainVars, childWoken, inbox, receiving, accepted, turning, answered, told,
                   faults>>

ReceivedReceipt ==
    /\ pc = "received"
    /\ \/ /\ NoFault
          /\ saved' = record /\ receiving' = receiving \ {record.received}
          /\ pc' = IF receiving' # {} THEN "receive" ELSE IF turning THEN "turn" ELSE "prepare"
          /\ UNCHANGED record
       \/ /\ Fault
          /\ record' = Unconfirmed /\ pc' = "final"
          /\ UNCHANGED <<saved, receiving>>
    /\ UNCHANGED <<mainVars, childWoken, inbox, accepted, turning, answered, told>>

\* prepare_turn puts the assignment into the child's conversation, or fails.
Prepare ==
    /\ pc = "prepare"
    /\ \/ /\ told' = record.received /\ turning' = TRUE /\ pc' = "turn"
          /\ UNCHANGED answered
       \/ /\ answered' = FALSE /\ pc' = "ended"
          /\ UNCHANGED <<told, turning>>
    /\ UNCHANGED <<record, saved, mainVars, childWoken, inbox, receiving, accepted, faults>>

\* accept_input before a request, or after an answer: the queued updates join
\* the conversation in one checkpoint.  A stopping turn accepts nothing.
Accept ==
    /\ pc = "turn" /\ inbox # {} /\ ~childCancelled
    /\ accepted' = Cardinality(inbox) /\ told' = Max(inbox) /\ inbox' = {}
    /\ pc' = "accepted"
    /\ UNCHANGED <<record, saved, mainVars, childWoken, receiving, turning, answered, faults>>

\* The Accepted event tells only how many prompts there were.
UpTo(v, vs) == {w \in vs : w <= v}
Announced_First(n) == {v \in record.pending : Cardinality(UpTo(v, record.pending)) <= 1}
Announced(n) == {v \in record.pending : Cardinality(UpTo(v, record.pending)) <= n}

Accepted ==
    /\ pc = "accepted"
    /\ receiving' = Announced(accepted) /\ accepted' = 0
    /\ pc' = IF receiving' = {} THEN "turn" ELSE "receive"
    /\ UNCHANGED <<record, saved, mainVars, childWoken, inbox, turning, answered, told, faults>>

\* A final answer with nothing left to accept.
Answer ==
    /\ pc = "turn" /\ inbox = {}
    /\ answered' = TRUE /\ pc' = "ended"
    /\ UNCHANGED <<record, saved, mainVars, childWoken, inbox, receiving, accepted, turning, told,
                   faults>>

\* A request, a save or a tool fails, or cancellation is seen.
Fail ==
    /\ pc = "turn"
    /\ answered' = FALSE /\ pc' = "ended"
    /\ UNCHANGED <<record, saved, mainVars, childWoken, inbox, receiving, accepted, turning, told,
                   faults>>

\* The record after a turn nobody asked to stop.  A report of a failed turn
\* answers nothing.
AfterTurn ==
    [record EXCEPT
        !.report = [version |-> record.received,
                    about |-> IF answered THEN told ELSE record.received],
        !.reviewed = FALSE,
        !.state = CASE record.pending # {} -> "running"
                    [] record.pending = {} /\ answered -> "returned"
                    [] OTHER -> "failed"]

EndTurn ==
    /\ pc = "ended"
    /\ IF record.state = "stopping"
       THEN record' = [record EXCEPT !.state = "stopped"] /\ pc' = "stopped"
       ELSE record' = AfterTurn /\ pc' = "returned"
    /\ UNCHANGED <<saved, mainVars, childWoken, inbox, receiving, accepted, turning, answered, told,
                   faults>>

ReturnedReceipt ==
    /\ pc = "returned"
    /\ \/ NoFault /\ saved' = record /\ pc' = "top" /\ UNCHANGED record
       \/ Fault /\ record' = Unconfirmed /\ pc' = "final" /\ UNCHANGED saved
    /\ UNCHANGED <<mainVars, childWoken, inbox, receiving, accepted, turning, answered, told>>

\* After the loop, a stop that no turn has taken note of.
Final ==
    /\ pc = "final"
    /\ IF record.state = "stopping"
       THEN record' = [record EXCEPT !.state = "stopped"] /\ pc' = "stopped"
       ELSE UNCHANGED record /\ pc' = "exited"
    /\ UNCHANGED <<saved, mainVars, childWoken, inbox, receiving, accepted, turning, answered, told,
                   faults>>

StoppedReceipt ==
    /\ pc = "stopped"
    /\ \/ NoFault /\ saved' = record /\ UNCHANGED record
       \/ Fault /\ record' = Unconfirmed /\ UNCHANGED saved
    /\ pc' = "exited"
    /\ UNCHANGED <<mainVars, childWoken, inbox, receiving, accepted, turning, answered, told>>

Worker ==
    \/ Select \/ WakeChild \/ Receive \/ ReceivedReceipt \/ Prepare \/ Accept \/ Accepted
    \/ Answer \/ Fail \/ EndTurn \/ ReturnedReceipt \/ Final \/ StoppedReceipt

-----------------------------------------------------------------------------
(* The main agent's thread: one agent action at a time.                    *)

Available == record.state \notin {"stopping", "stopped", "unknown"}

\* update: one section, receipt included.  A worker inside a turn finds the new
\* version in its inbox, unless that is full; any other finds it as pending.
Updated_KeepsReview ==
    [record EXCEPT !.state = "running", !.sent = @ + 1,
                   !.pending = @ \cup {record.sent + 1}]
Updated ==
    [record EXCEPT !.state = "running", !.reviewed = FALSE, !.sent = @ + 1,
                   !.pending = @ \cup {record.sent + 1}]

Queues == record.state = "running" /\ Cardinality(inbox) < QueueLimit

Update ==
    /\ main = "idle" /\ listed /\ attached /\ Available
    /\ record.sent < MaxVersion
    /\ record' = Updated /\ saved' = record'
    /\ inbox' = IF Queues THEN inbox \cup {record.sent + 1} ELSE inbox
    /\ overflowed' = (overflowed \/ (record.state = "running" /\ ~Queues))
    /\ childWoken' = TRUE
    /\ UNCHANGED <<listed, attached, childCancelled, main, crashes, workerVars, faults>>

\* A receipt saves the record as it is when the receipt is written.
SaveReceipt ==
    \/ NoFault /\ saved' = record
    \/ Fault /\ UNCHANGED saved

\* stop: the request, then its receipt.
Stop_Unwoken ==
    /\ main = "idle" /\ listed /\ attached
    /\ record.state \notin {"stopped", "unknown"}
    /\ record' = [record EXCEPT !.state = "stopping"]
    /\ childCancelled' = TRUE /\ main' = "stop"
    /\ UNCHANGED <<saved, listed, attached, childWoken, inbox, workerVars, faults, crashes, overflowed>>
Stop ==
    /\ main = "idle" /\ listed /\ attached
    /\ record.state \notin {"stopped", "unknown"}
    /\ record' = [record EXCEPT !.state = "stopping"]
    /\ childCancelled' = TRUE /\ childWoken' = TRUE /\ main' = "stop"
    /\ UNCHANGED <<saved, listed, attached, inbox, workerVars, faults, crashes, overflowed>>

StopReceipt ==
    /\ main = "stop"
    /\ SaveReceipt
    /\ main' = "idle"
    /\ UNCHANGED <<record, listed, attached, childCancelled, crashes, overflowed, childWoken, inbox, workerVars>>

\* review: the record, then its receipt; a failed receipt restores the record.
Reviewable ==
    /\ record.report.version = record.sent
    /\ record.state \in {"returned", "failed"}

Review ==
    /\ main = "idle" /\ listed /\ Reviewable
    /\ record' = [record EXCEPT !.reviewed = TRUE]
    /\ main' = IF record.reviewed THEN "review again" ELSE "review"
    /\ UNCHANGED <<saved, listed, attached, childCancelled, crashes, overflowed, childWoken, inbox, workerVars, faults>>

ReviewReceipt ==
    /\ main \in {"review", "review again"}
    /\ \/ NoFault /\ saved' = record /\ UNCHANGED record
       \/ /\ Fault
          /\ record' = [record EXCEPT !.reviewed = (main = "review again")]
          /\ UNCHANGED saved
    /\ main' = "idle"
    /\ UNCHANGED <<listed, attached, childCancelled, crashes, overflowed, childWoken, inbox, workerVars>>

\* close: take the worker, join it, remove the files, write the receipt.  Every
\* step that fails can be tried again.
Stopping ==
    [record EXCEPT !.state = IF attached /\ @ = "running" THEN "stopping" ELSE @]

Close ==
    /\ main = "idle" /\ listed
    /\ IF record.closed
       THEN main' = "close" /\ UNCHANGED <<record, attached, childCancelled, childWoken>>
       ELSE /\ main' = "joining"
            /\ record' = Stopping
            /\ attached' = FALSE
            /\ childCancelled' = (childCancelled \/ attached) /\ childWoken' = (childWoken \/ attached)
    /\ UNCHANGED <<saved, listed, inbox, workerVars, faults, crashes, overflowed>>

Joined ==
    /\ main = "joining" /\ pc = "exited"
    /\ \/ /\ NoFault /\ main' = "close"
          /\ record' = [record EXCEPT !.state = "stopped", !.closed = TRUE]
       \/ Fault /\ main' = "idle" /\ UNCHANGED record
    /\ UNCHANGED <<saved, listed, attached, childCancelled, crashes, overflowed, childWoken, inbox, workerVars>>

ClosedReceipt ==
    /\ main = "close"
    /\ \/ NoFault /\ saved' = record /\ listed' = FALSE
       \/ Fault /\ UNCHANGED <<saved, listed>>
    /\ main' = "idle"
    /\ UNCHANGED <<record, attached, childCancelled, crashes, overflowed, childWoken, inbox, workerVars>>

\* stop_all, when the conversation is left: ask, join, and note the stop.
Leave ==
    /\ main = "idle" /\ attached
    /\ record' = Stopping
    /\ attached' = FALSE /\ childCancelled' = TRUE /\ childWoken' = TRUE
    /\ main' = "leaving"
    /\ UNCHANGED <<saved, listed, inbox, workerVars, faults, crashes, overflowed>>

Left ==
    /\ main = "leaving" /\ pc = "exited"
    /\ \/ /\ record.state = "stopping"
          /\ record' = [record EXCEPT !.state = "stopped"]
          /\ \/ NoFault /\ saved' = record'
             \/ Fault /\ UNCHANGED saved
       \/ /\ record.state # "stopping"
          /\ UNCHANGED <<record, saved, faults>>
    /\ main' = "down"
    /\ UNCHANGED <<listed, attached, childCancelled, crashes, overflowed, childWoken, inbox, workerVars>>

\* Receipts of other collaborators save this record too, whenever they come.
OtherReceipt ==
    /\ listed /\ main # "down"
    /\ saved' = record
    /\ UNCHANGED <<record, mainVars, childWoken, inbox, workerVars, faults>>

-----------------------------------------------------------------------------
(* The program stops, and the conversation is resumed: bind.               *)

Crash ==
    /\ main # "down" /\ crashes < MaxCrashes
    /\ crashes' = crashes + 1 /\ main' = "down" /\ pc' = "exited"
    /\ attached' = FALSE /\ childCancelled' = FALSE /\ childWoken' = FALSE
    /\ inbox' = {} /\ receiving' = {} /\ accepted' = 0
    /\ UNCHANGED <<record, saved, listed, turning, answered, told, faults, overflowed>>

\* Record::from_value: work that was running has no confirmed outcome.  Only
\* the newest pending version is in the receipt.
Restored ==
    [saved EXCEPT
        !.state = IF @ \in {"running", "stopping"} THEN "unknown" ELSE @,
        !.pending = IF @ = {} THEN {} ELSE {saved.sent}]
Bind ==
    /\ main = "down" /\ listed
    /\ record' = Restored
    /\ saved' = IF saved.state \in {"running", "stopping"} THEN record' ELSE saved
    /\ listed' = ~saved.closed
    /\ childCancelled' = FALSE /\ childWoken' = FALSE /\ inbox' = {} /\ main' = "idle"
    /\ UNCHANGED <<attached, crashes, overflowed, workerVars, faults>>

Main ==
    \/ Update \/ Stop \/ StopReceipt \/ Review \/ ReviewReceipt
    \/ Close \/ Joined \/ ClosedReceipt \/ Leave \/ Left \/ Bind

CollaboratorNext == Worker \/ Main \/ OtherReceipt \/ Crash

CollaboratorSpec == CollaboratorInit /\ [][CollaboratorNext]_collaboratorVars

\* The child's thread is scheduled and its turns end; the main agent finishes
\* the action it has begun.
CollaboratorFairness ==
    /\ WF_collaboratorVars(Worker)
    /\ WF_collaboratorVars(StopReceipt \/ ReviewReceipt \/ Joined \/ ClosedReceipt \/ Left)

CollaboratorFairSpec == CollaboratorSpec /\ CollaboratorFairness

-----------------------------------------------------------------------------
(* Properties. *)

\* A report names the version it answers (COLLABORATION.md): what the record
\* and every saved receipt call the report's version is what the child's model
\* had been told last, although versions reach it in two ways, and an event
\* that tells only a number says which were accepted.  Once an update has not
\* found room in the inbox this fails: the number then counts other versions.
ReportIsTrue ==
    ~overflowed => \A doc \in {record, saved} : doc.report.version = doc.report.about

\* A review is of the latest assignment's report, in memory and in the receipts.
ReviewIsOfLatest ==
    \A doc \in {record, saved} : doc.reviewed => doc.report.version = doc.sent

\* What the records and receipts of a collaborator say of its reports.
ReportsAreTrue == ReportIsTrue /\ ReviewIsOfLatest

\* A version that was sent is received, unless a stop was requested or the
\* outcome is unknown: the hand-over between a turn's end, the inbox and the
\* worker's sleep loses none.
UpdateIsReceived ==
    \A v \in Version :
        (record.sent >= v /\ attached) ~>
            (record.received >= v \/ childCancelled \/ record.state = "unknown" \/ main = "down")

\* A collaborator that was asked to stop, was closed or left, ends: whether it
\* sleeps, works or is between two assignments, its thread exits.
StopEnds == childCancelled ~> pc = "exited" \/ main = "down"

\* Every message and every stop reaches the child's thread.
ChildIsReached == UpdateIsReceived /\ StopEnds

\* A collaborator asked to stop is "stopped" once its thread has ended, or its
\* outcome is unknown: what wait and the receipts then tell (lifecycle_tests.rs,
\* stop_active_child_and_cancel_parent_wait_promptly).  Only stop cancels a
\* worker that stays attached.
StopIsKept ==
    attached /\ childCancelled /\ pc = "exited" => record.state \in {"stopped", "unknown"}
=============================================================================
