---------------------------- MODULE ProcessDelivery ----------------------------
(***************************************************************************)
(* The agent's turn loop around the process registry: agent.rs drive_turn, *)
(* agent/compaction.rs next_completion, agent/processes.rs and the terminal*)
(* interface's idle continuation (tui/processes/lifecycle.rs, tui/poll.rs).*)
(*                                                                         *)
(* A request carries a snapshot of the completions nobody has told the     *)
(* model.  Only when the provider accepts the request are they saved, sent *)
(* to the event sink and marked.  Tool calls run in waves that are joined  *)
(* before the next request.                                                *)
(*                                                                         *)
(* Left out: messages, compaction and the text of requests; questions,     *)
(* collaborators and queued input, which only delay an idle continuation;  *)
(* plain chat and single prompts, which never continue by themselves.      *)
(***************************************************************************)
EXTENDS ProcessRegistry

VARIABLES
    phase,      \* where the turn loop stands
    asked,      \* the completions in the request being sent
    wave,       \* tool calls of this response that have not begun
    cancelled,  \* the agent's Cancellation was requested
    held,       \* ~process_auto_resume: a stop or a failure holds the next turn
    automatic,  \* this turn continues without a prompt and has had no answer
    saved,      \* processes with a process_finished event in the transcript
    announced   \* endings an accepted request told the model

agentVars == <<phase, asked, wave, cancelled, held, automatic, saved, announced>>
allVars == <<vars, agentVars>>

Phase == {"idle", "request", "sent", "saving", "emitting", "answer", "tools"}

DeliveryTypeOK ==
    /\ TypeOK
    /\ phase \in Phase
    /\ asked \subseteq Process
    /\ wave \subseteq Call
    /\ {cancelled, held, automatic} \subseteq BOOLEAN
    /\ saved \subseteq Process
    /\ announced \subseteq Process

DeliveryInit ==
    /\ Init
    /\ phase = "idle" /\ asked = {} /\ wave = {}
    /\ cancelled = FALSE /\ held = FALSE /\ automatic = FALSE
    /\ saved = {} /\ announced = {}

-----------------------------------------------------------------------------
\* A submitted prompt clears the last stop and starts a turn.
Prompt ==
    /\ scope = "open" /\ phase = "idle"
    /\ phase' = "request" /\ cancelled' = FALSE /\ held' = FALSE
    /\ UNCHANGED <<vars, asked, wave, automatic, saved, announced>>

\* Agent::can_continue_processes.
CanContinue_Never == FALSE
CanContinue == ~cancelled /\ CompletionWaiting

\* start_process_continuation: an idle conversation goes on by itself.
Continue ==
    /\ scope = "open" /\ phase = "idle" /\ ~held /\ CanContinue /\ ListFree
    /\ phase' = "request" /\ automatic' = TRUE
    /\ UNCHANGED <<vars, asked, wave, cancelled, held, saved, announced>>

\* next_completion builds the request from the registry's completions.
Send ==
    /\ phase = "request" /\ ~cancelled /\ ListFree
    /\ phase' = "sent" /\ asked' = Completions
    /\ UNCHANGED <<vars, wave, cancelled, held, automatic, saved, announced>>

\* A temporary failure was waited out; the request is built again.
Retry ==
    /\ phase = "sent"
    /\ phase' = "request" /\ asked' = {}
    /\ UNCHANGED <<vars, wave, cancelled, held, automatic, saved, announced>>

Accept ==
    /\ phase = "sent"
    /\ phase' = "saving" /\ automatic' = FALSE
    /\ UNCHANGED <<vars, asked, wave, cancelled, held, saved, announced>>

SaveCompletions_Skipped ==
    /\ phase = "saving"
    /\ phase' = "emitting"
    /\ UNCHANGED <<vars, asked, wave, cancelled, held, automatic, saved, announced>>

\* deliver_completions saves every transcript event first ...
SaveCompletions ==
    /\ phase = "saving"
    /\ phase' = "emitting" /\ saved' = saved \cup asked
    /\ UNCHANGED <<vars, asked, wave, cancelled, held, automatic, announced>>

\* ... then, if the sink took every event, marks them.
Deliver ==
    /\ phase = "emitting"
    /\ MarkReported(asked)
    /\ announced' = announced \cup asked
    /\ phase' = "answer" /\ asked' = {}
    /\ UNCHANGED <<wave, cancelled, held, automatic, saved>>

\* The response has tool calls: they run, at most one wave at a time.
CallTools ==
    /\ phase = "answer"
    /\ phase' = "tools"
    /\ wave' \in (SUBSET Call) \ {{}}
    /\ UNCHANGED <<vars, asked, cancelled, held, automatic, saved, announced>>

ToolsDone ==
    /\ phase = "tools" /\ wave = {}
    /\ \A c \in Call : call[c].at = "idle"
    /\ phase' = "request"
    /\ UNCHANGED <<vars, asked, wave, cancelled, held, automatic, saved, announced>>

\* A cancelled turn runs no further call of the wave.
SkipCalls ==
    /\ phase = "tools" /\ cancelled
    /\ wave' = {}
    /\ UNCHANGED <<vars, phase, asked, cancelled, held, automatic, saved, announced>>

\* An answer without calls ends the turn, unless something ended meanwhile.
Answer ==
    /\ phase = "answer" /\ ListFree
    /\ phase' = IF CanContinue THEN "request" ELSE "idle"
    /\ UNCHANGED <<vars, asked, wave, cancelled, held, automatic, saved, announced>>

\* The provider, a checkpoint or the event sink fails, or the turn sees that it
\* was cancelled; running calls have been joined.
FailTurn ==
    /\ phase # "idle" /\ wave = {}
    /\ \A c \in Call : call[c].at = "idle"
    /\ phase' = "idle" /\ asked' = {} /\ held' = TRUE /\ automatic' = FALSE
    /\ UNCHANGED <<vars, wave, cancelled, saved, announced>>

\* The user stops the turn.
StopTurn ==
    /\ phase # "idle" /\ ~cancelled
    /\ cancelled' = TRUE /\ held' = TRUE
    /\ UNCHANGED <<vars, phase, asked, wave, automatic, saved, announced>>

\* Steps of the registry that the turn loop allows when they happen.
BeginCall(c) ==
    /\ phase = "tools" /\ c \in wave
    /\ CallBegins(c)
    /\ wave' = wave \ {c}
    /\ UNCHANGED <<phase, asked, cancelled, held, automatic, saved, announced>>

RunCall(c) ==
    /\ CallStep(c) \/ WaitElapsed(c) \/ (cancelled /\ Cancel(c))
    /\ UNCHANGED agentVars

\* poll_processes saves the row of every completion it shows.
ShowCompletions(r) ==
    /\ ScanEnd(r)
    /\ saved' = saved \cup scan[r].found
    /\ UNCHANGED <<phase, asked, wave, cancelled, held, automatic, announced>>

Elsewhere ==
    /\ \/ \E p \in Process : End(p) \/ InterfaceStep(p)
       \/ \E r \in Reader : ScanBegin(r) \/ (\E p \in Process : ScanEntry(r, p))
       \/ (phase = "idle" /\ StopAll)
       \/ MonitorsJoined
    /\ UNCHANGED agentVars

DeliveryNext ==
    \/ Prompt \/ Continue \/ Send \/ Retry \/ Accept \/ SaveCompletions \/ Deliver
    \/ CallTools \/ ToolsDone \/ SkipCalls \/ Answer \/ FailTurn \/ StopTurn
    \/ \E c \in Call : BeginCall(c) \/ RunCall(c)
    \/ \E r \in Reader : ShowCompletions(r)
    \/ Elsewhere

DeliverySpec == DeliveryInit /\ [][DeliveryNext]_allVars

\* The worker thread and the interface loop keep running, and get the list lock
\* although readers come and go; a provider that can be asked again and again
\* answers at last; every wait reaches its deadline.
DeliveryFairness ==
    /\ WF_allVars(SaveCompletions \/ ToolsDone \/ SkipCalls)
    /\ SF_allVars(Send) /\ SF_allVars(Deliver) /\ SF_allVars(Continue)
    /\ SF_allVars(CallTools \/ Answer)
    /\ SF_allVars(Accept)
    /\ \A c \in Call :
          /\ WF_allVars(RunCall(c))
          /\ SF_allVars(BeginCall(c))
          /\ SF_allVars(Owe(c) /\ UNCHANGED agentVars)
    /\ \A r \in Reader :
          WF_allVars(ShowCompletions(r) \/ (\E p \in Process : ScanEntry(r, p) /\ UNCHANGED agentVars))

FairDeliverySpec == DeliverySpec /\ DeliveryFairness

-----------------------------------------------------------------------------
(* Properties. *)

News == INSTANCE ProcessNews WITH
    ended <- {p \in Process : Ended(p)},
    known <- {p \in Process : state[p].reported},
    announced <- announced

\* The registry and the turn loop implement ProcessNews: an ending joins one
\* accepted request, or a poll, stop, list or final result replaces that
\* (TOOL_REFERENCE.md, process), although the request's snapshot is taken long
\* before it is accepted.
NewsRefined == News!Spec

\* Everything the model was told of in a request is in the saved transcript.
AnnouncedIsSaved == announced \subseteq saved

\* A turn that continues by itself has news to tell: its first request carries
\* the ending of a process nobody stopped.
ContinuationHasNews ==
    automatic /\ phase = "sent" => \E p \in asked : p \notin stop

\* What is told survives, and a turn nobody asked for has something to tell.
NewsIsKept == AnnouncedIsSaved /\ ContinuationHasNews

\* A process that ends by itself reaches the model without the user's help,
\* unless a stopped or failed turn holds the conversation, or it closes.
EndingReachesModel ==
    \A p \in Process :
        (Ended(p) /\ p \notin stop) ~> (state[p].reported \/ held \/ scope # "open")

=============================================================================
