------------------------------- MODULE ToolTurn -------------------------------
(***************************************************************************)
(* The tool calls of one completion, from the model's answer to the end of *)
(* the turn: src/agent/execution.rs and execution/declared.rs, the turn    *)
(* around them (agent.rs), what each checkpoint stage does to the session  *)
(* (sessions/handle.rs), its validation and its recovery after a crash     *)
(* (sessions/context.rs), and the permission a call may wait for           *)
(* (agent/permission.rs, permissions.rs).                                  *)
(*                                                                         *)
(* The worker, the tools' threads, the user, the autosave thread and a     *)
(* crash interleave.  A save is one step here; SessionJournal shows what   *)
(* it takes.  Saves and displays may fail MaxFaults times.                 *)
(*                                                                         *)
(* Left out: `steps` chains, questions, collaborators' own sessions, and   *)
(* what tools do.                                                          *)
(***************************************************************************)
EXTENDS Naturals, Sequences, FiniteSets

CONSTANTS
    Calls,       \* number of calls in the completion
    MaxParallel, \* MAX_PARALLEL_CALLS, 4 in the code
    MaxFaults,   \* bound on failing saves and displays
    MaxCrashes   \* bound on crashes

ASSUME CallsAssumption == Calls \in Nat /\ MaxParallel \in Nat \ {0}
ASSUME BoundsAssumption == MaxFaults \in Nat /\ MaxCrashes \in Nat

Call == 1..Calls
NoCall == 0

\* How a call is scheduled.
Mode == {"serial", "automatic", "declared"}

\* What the conversation may say of a call.
Untouched == {"refused", "not_executed"}
Outcome == {"done", "unknown"} \cup Untouched

Answer == [call : Call, outcome : Outcome]

\* A session's document, as far as the turn's calls go.
Document ==
    [called : BOOLEAN,               \* the model's message with the calls
     answers : Seq(Answer),          \* tool results
     active : BOOLEAN,               \* pending ...
     tool : Call \cup {NoCall},
     reads : SUBSET Call,
     batch : SUBSET Call,
     completed : [Call -> Outcome \cup {"none"}],
     waiting : SUBSET Call]          \* permission requests without a decision

VARIABLES
    mode,      \* of each call
    pc, index, \* where the worker is, and the next call
    wave,      \* the calls it executes now
    messages,  \* the conversation's results, in memory
    job,       \* state of each call's execution
    outcomes,  \* results the worker has collected
    failing,   \* the wave has failed
    decision,  \* the user's answer to the permission request
    cancelled, \* cancellation was requested
    live,      \* the document in memory that saves copy
    saved,     \* the document in the journal
    effect,    \* what really happened to each call
    faults, crashes

vars == <<mode, pc, index, wave, messages, job, outcomes, failing, decision, cancelled,
          live, saved, effect, faults, crashes>>
work == <<wave, job, outcomes, failing, decision>>
docs == <<live, saved>>
world == <<effect, faults, crashes>>

Place == {"begin", "next", "permit", "asking", "running", "result", "prepare", "working",
          "abort", "end", "ended", "down"}

TypeOK ==
    /\ mode \in [Call -> Mode]
    /\ pc \in Place /\ index \in 1..(Calls + 1)
    /\ wave \subseteq Call
    /\ messages \in Seq(Answer)
    /\ job \in [Call -> {"none", "ready", "running", "done", "panicked"}]
    /\ outcomes \in [Call -> Outcome \cup {"none"}]
    /\ {failing, cancelled} \subseteq BOOLEAN
    /\ decision \in {"none", "allow", "deny"}
    /\ {live, saved} \subseteq Document
    /\ effect \in [Call -> {"none", "running", "done"}]
    /\ faults \in 0..MaxFaults /\ crashes \in 0..MaxCrashes

-----------------------------------------------------------------------------
(* Documents. *)

NoOutcomes == [c \in Call |-> "none"]
Answered(doc) == {doc.answers[i].call : i \in DOMAIN doc.answers}
Outstanding(doc) == IF doc.called THEN Call \ Answered(doc) ELSE {}

\* validate_from: what a save, and the reader of a session, insist on.
Valid(doc) ==
    /\ Outstanding(doc) # {} => doc.active
    /\ doc.tool # NoCall => doc.active /\ doc.tool \in Outstanding(doc)
    /\ doc.reads # {} => doc.active /\ doc.tool = NoCall /\ doc.reads \subseteq Outstanding(doc)
    /\ doc.batch # {} =>
          /\ doc.active /\ doc.tool = NoCall /\ doc.batch \subseteq Outstanding(doc)
          /\ doc.reads \in {{}, doc.batch}
    /\ \A c \in Call : doc.completed[c] # "none" => c \in doc.batch

\* What each Stage does to the pending turn.
Tool(doc, c) == [doc EXCEPT !.tool = c]
ToolFinished(doc) == [doc EXCEPT !.tool = NoCall]
ReadBatch(doc, cs) == [doc EXCEPT !.reads = cs]
ReadBatchFinished(doc) == [doc EXCEPT !.reads = {}]
ToolBatch(doc, cs) == [doc EXCEPT !.batch = cs, !.reads = cs, !.completed = NoOutcomes]
ToolBatchResult(doc, c, outcome) == [doc EXCEPT !.completed[c] = outcome]
ToolBatchFinished_KeepsReads(doc) == [doc EXCEPT !.batch = {}, !.completed = NoOutcomes]
ToolBatchFinished(doc) == [doc EXCEPT !.batch = {}, !.reads = {}, !.completed = NoOutcomes]
Ready(doc) ==
    [doc EXCEPT !.active = FALSE, !.tool = NoCall, !.reads = {}, !.batch = {},
                !.completed = NoOutcomes]

\* recover: each call without a result gets the one the document tells of it.
RecoveredOutcome_IgnoresTool(doc, c) ==
    IF doc.completed[c] # "none" THEN doc.completed[c]
    ELSE IF c \notin doc.waiting /\ c \in doc.reads \cup doc.batch THEN "unknown"
    ELSE "not_executed"
RecoveredOutcome(doc, c) ==
    IF doc.completed[c] # "none" THEN doc.completed[c]
    ELSE IF c \notin doc.waiting /\ (c = doc.tool \/ c \in doc.reads \cup doc.batch) THEN "unknown"
    ELSE "not_executed"

InOrder(cs) ==
    CHOOSE order \in [1..Cardinality(cs) -> cs] :
        \A i, j \in DOMAIN order : i < j => order[i] < order[j]

\* Results of the calls cs, in the completion's order.
AnswersOf(cs, outcome(_)) ==
    LET order == InOrder(cs)
    IN  [i \in DOMAIN order |-> [call |-> order[i], outcome |-> outcome(order[i])]]

NotExecuted(cs) == LET outcome(c) == "not_executed" IN AnswersOf(cs, outcome)

Recovered(doc) ==
    LET outcome(c) == RecoveredOutcome(doc, c)
    IN  IF doc.active
        THEN Ready([doc EXCEPT !.answers = @ \o AnswersOf(Outstanding(doc), outcome)])
        ELSE doc

-----------------------------------------------------------------------------
(* Checkpoints. *)

Fault == faults < MaxFaults /\ faults' = faults + 1

\* The live document takes the results in memory, and the stage's change.
Synced == [live EXCEPT !.answers = messages, !.called = (pc # "begin")]

Saves(doc) == Valid(doc) /\ live' = doc /\ saved' = doc /\ UNCHANGED faults

\* A failed save leaves the live document ahead of the journal.
SaveFails(doc) ==
    /\ live' = doc /\ UNCHANGED saved
    /\ IF Valid(doc) THEN Fault ELSE UNCHANGED faults

\* An event that cannot be shown fails the turn, too.
Shown == UNCHANGED faults
NotShown == Fault

Later_Inclusive(i) == {c \in Call : c >= i}
Later_SkipsOne(i) == {c \in Call : c > i + 1}
Later(i) == {c \in Call : c > i}

-----------------------------------------------------------------------------
Init ==
    /\ mode \in [Call -> Mode]
    /\ pc = "begin" /\ index = 1 /\ wave = {}
    /\ messages = <<>>
    /\ job = [c \in Call |-> "none"] /\ outcomes = NoOutcomes
    /\ failing = FALSE /\ decision = "none" /\ cancelled = FALSE
    /\ live = [called |-> FALSE, answers |-> <<>>, active |-> TRUE, tool |-> NoCall,
               reads |-> {}, batch |-> {}, completed |-> NoOutcomes, waiting |-> {}]
    /\ saved = live
    /\ effect = [c \in Call |-> "none"]
    /\ faults = 0 /\ crashes = 0

\* drive_turn: the answer is kept before its calls run, or they do not run.
Completion ==
    /\ pc = "begin"
    /\ LET doc == [live EXCEPT !.called = TRUE]
       IN  \/ /\ Saves(doc) /\ pc' = "next"
              /\ UNCHANGED messages
           \/ /\ SaveFails(doc) /\ pc' = "end"
              /\ messages' = NotExecuted(Call)
           \/ /\ Valid(doc) /\ live' = doc /\ saved' = doc /\ NotShown
              /\ pc' = "end" /\ messages' = NotExecuted(Call)
    /\ UNCHANGED <<mode, index, work, cancelled, effect, crashes>>

-----------------------------------------------------------------------------
(* execute_calls: which calls run next. *)

\* Successive calls of one parallel kind, MaxParallel at most.
WaveAt(i) ==
    IF mode[i] = "serial" THEN {i}
    ELSE {c \in Call : c >= i /\ c < i + MaxParallel /\ \A d \in i..c : mode[d] = mode[i]}

\* The results are complete: the next completion has no calls, and the turn
\* ends; or the user has cancelled it.
NoMoreCalls ==
    /\ pc = "next" /\ index > Calls
    /\ pc' = "end"
    /\ UNCHANGED <<mode, index, messages, work, cancelled, docs, world>>

CancelledBetween ==
    /\ pc = "next" /\ index <= Calls /\ cancelled
    /\ messages' = messages \o NotExecuted(Later(index - 1))
    /\ pc' = "end"
    /\ UNCHANGED <<mode, index, work, cancelled, docs, world>>

-----------------------------------------------------------------------------
(* execute_one. *)

\* Its start is saved, then shown; otherwise it and the rest do not run.
StartOne ==
    /\ pc = "next" /\ index <= Calls /\ ~cancelled
    /\ Cardinality(WaveAt(index)) = 1
    /\ LET doc == Tool(Synced, index)
       IN  \/ /\ Saves(doc) /\ pc' = "permit"
              /\ UNCHANGED messages
           \/ /\ \/ SaveFails(doc)
                 \/ Valid(doc) /\ live' = doc /\ saved' = doc /\ NotShown
              /\ pc' = "end"
              /\ messages' = messages \o NotExecuted(Later(index - 1))
    /\ wave' = {index} /\ failing' = FALSE
    /\ UNCHANGED <<mode, index, job, outcomes, decision, cancelled, effect, crashes>>

StartTool == job' = [job EXCEPT ![index] = "ready"] /\ pc' = "running"
WithoutRunning(outcome) == outcomes' = [outcomes EXCEPT ![index] = outcome] /\ pc' = "result"

\* The level allows the call.
Permitted ==
    /\ pc = "permit"
    /\ StartTool
    /\ UNCHANGED <<mode, index, messages, wave, outcomes, failing, decision, cancelled, docs, world>>

\* append_event: a permission event is saved at once, with the results that
\* were saved before it.
SavesEvent(doc) == Saves(doc)

\* The level refuses it, nobody can be asked, or the request cannot be saved.
Refused ==
    /\ pc = "permit"
    /\ WithoutRunning("refused")
    /\ UNCHANGED <<mode, index, messages, wave, job, failing, decision, cancelled, docs, world>>

Asks ==
    /\ pc = "permit"
    /\ pc' = "asking" /\ decision' = "none"
    /\ SavesEvent([live EXCEPT !.waiting = @ \cup {index}])
    /\ UNCHANGED <<mode, index, messages, wave, job, outcomes, failing, cancelled, effect, crashes>>

\* The user's answer is saved before the worker can see it.
Decide ==
    /\ pc = "asking" /\ decision = "none"
    /\ decision' \in {"allow", "deny"}
    /\ SavesEvent([live EXCEPT !.waiting = @ \ {index}])
    /\ UNCHANGED <<mode, pc, index, messages, wave, job, outcomes, failing, cancelled, effect, crashes>>

\* The path or the level may have changed meanwhile.
Allowed ==
    /\ pc = "asking" /\ decision = "allow"
    /\ \/ StartTool /\ UNCHANGED outcomes
       \/ WithoutRunning("refused") /\ UNCHANGED job
    /\ UNCHANGED <<mode, index, messages, wave, failing, decision, cancelled, docs, world>>

Denied ==
    /\ pc = "asking" /\ decision = "deny"
    /\ WithoutRunning("refused")
    /\ UNCHANGED <<mode, index, messages, wave, job, failing, decision, cancelled, docs, world>>

\* A cancelled turn, or a request that cannot be shown, gives the wait up.
Unasked_IgnoresCancel ==
    /\ pc = "asking" /\ NotShown
    /\ WithoutRunning("not_executed")
    /\ UNCHANGED <<mode, index, messages, wave, job, failing, decision, cancelled, docs, effect, crashes>>
Unasked ==
    /\ pc = "asking"
    /\ \/ decision = "none" /\ cancelled /\ UNCHANGED faults
       \/ NotShown
    /\ WithoutRunning("not_executed")
    /\ UNCHANGED <<mode, index, messages, wave, job, failing, decision, cancelled, docs, effect, crashes>>

\* The note that tells of a command's checkpoint cannot be shown.
NotNoted ==
    /\ pc = "running" /\ job[index] = "ready" /\ NotShown
    /\ job' = [job EXCEPT ![index] = "none"]
    /\ messages' = messages \o NotExecuted(Later(index - 1))
    /\ pc' = "end"
    /\ UNCHANGED <<mode, index, wave, outcomes, failing, decision, cancelled, docs, effect, crashes>>

RunOne ==
    /\ pc = "running" /\ job[index] = "done"
    /\ WithoutRunning("done")
    /\ UNCHANGED <<mode, index, messages, wave, job, failing, decision, cancelled, docs, world>>

\* The result is saved with the end of the call, then shown.
FinishOne ==
    /\ pc = "result"
    /\ LET answered == Append(messages, [call |-> index, outcome |-> outcomes[index]])
           doc == ToolFinished([Synced EXCEPT !.answers = answered])
       IN  \/ /\ Saves(doc)
              /\ messages' = answered /\ index' = index + 1 /\ pc' = "next"
           \/ /\ \/ SaveFails(doc)
                 \/ Valid(doc) /\ live' = doc /\ saved' = doc /\ NotShown
              /\ messages' = answered \o NotExecuted(Later(index))
              /\ pc' = "end" /\ UNCHANGED index
    /\ UNCHANGED <<mode, work, cancelled, effect, crashes>>

-----------------------------------------------------------------------------
(* execute_parallel_batch and execute_declared_batch. *)

Declared == mode[index] = "declared"

StartWave ==
    /\ pc = "next" /\ index <= Calls /\ ~cancelled
    /\ Cardinality(WaveAt(index)) >= 2
    /\ wave' = WaveAt(index) /\ failing' = FALSE
    /\ LET doc == IF Declared THEN ToolBatch(Synced, wave') ELSE ReadBatch(Synced, wave')
       IN  \/ Saves(doc) /\ pc' = "prepare"
           \/ /\ \/ SaveFails(doc)
                 \/ Valid(doc) /\ live' = doc /\ saved' = doc /\ NotShown
              /\ pc' = "abort"
    /\ UNCHANGED <<mode, index, messages, job, outcomes, decision, cancelled, effect, crashes>>

\* Declared calls are prepared, and noted, one by one, unless cancelled.
Spawn ==
    /\ pc = "prepare"
    /\ Declared => ~cancelled
    /\ job' = [c \in Call |-> IF c \in wave THEN "ready" ELSE job[c]]
    /\ pc' = "working"
    /\ UNCHANGED <<mode, index, messages, wave, outcomes, failing, decision, cancelled, docs, world>>

CannotPrepare ==
    /\ pc = "prepare" /\ Declared
    /\ (cancelled /\ UNCHANGED faults) \/ NotShown
    /\ pc' = "abort"
    /\ UNCHANGED <<mode, index, messages, work, cancelled, docs, effect, crashes>>

\* abort_declared, and its counterpart for automatic calls: no call of the
\* wave, or after it, runs.
Abort ==
    /\ pc = "abort"
    /\ messages' = messages \o NotExecuted(Later(index - 1))
    /\ LET doc == ToolBatchFinished([Synced EXCEPT !.answers = messages'])
       IN  IF Declared THEN Saves(doc) \/ SaveFails(doc) ELSE UNCHANGED <<docs, faults>>
    /\ pc' = "end"
    /\ UNCHANGED <<mode, index, work, cancelled, effect, crashes>>

\* A call's own thread: the tool ends, or panics halfway, which is all that is
\* told of it.
Begin(c) ==
    /\ job[c] = "ready" /\ job' = [job EXCEPT ![c] = "running"]
    /\ effect' = [effect EXCEPT ![c] = "running"]
    /\ UNCHANGED <<mode, pc, index, wave, messages, outcomes, failing, decision, cancelled, docs, faults, crashes>>

End(c) ==
    /\ job[c] = "running"
    /\ \/ /\ job' = [job EXCEPT ![c] = "done"]
          /\ effect' = [effect EXCEPT ![c] = "done"]
       \/ /\ pc = "working"
          /\ job' = [job EXCEPT ![c] = "panicked"]
          /\ UNCHANGED effect
    /\ UNCHANGED <<mode, pc, index, wave, messages, outcomes, failing, decision, cancelled, docs, faults, crashes>>

\* Results of declared calls are saved as they come, until saving or showing
\* one fails; that cancels the rest, which are collected all the same.
ResultOf(c) == IF job[c] = "done" THEN "done" ELSE "unknown"
Receive_UntilFailure(c) ==
    /\ pc = "working" /\ Declared /\ c \in wave /\ ~failing
    /\ job[c] \in {"done", "panicked"} /\ outcomes[c] = "none"
    /\ outcomes' = [outcomes EXCEPT ![c] = ResultOf(c)]
    /\ LET doc == ToolBatchResult(Synced, c, ResultOf(c))
       IN  \/ Saves(doc) /\ UNCHANGED <<failing, cancelled>>
           \/ failing' = TRUE /\ cancelled' = TRUE /\ UNCHANGED docs /\ Fault
    /\ UNCHANGED <<mode, pc, index, messages, wave, job, decision, effect, crashes>>
Receive(c) ==
    /\ pc = "working" /\ Declared /\ c \in wave
    /\ job[c] \in {"done", "panicked"} /\ outcomes[c] = "none"
    /\ outcomes' = [outcomes EXCEPT ![c] = ResultOf(c)]
    /\ LET doc == ToolBatchResult(Synced, c, ResultOf(c))
       IN  IF failing THEN UNCHANGED <<failing, cancelled, docs, faults>>
           ELSE \/ Saves(doc) /\ UNCHANGED <<failing, cancelled>>
                \/ /\ failing' = TRUE /\ cancelled' = TRUE
                   /\ \/ UNCHANGED docs /\ Fault
                      \/ Valid(doc) /\ live' = doc /\ saved' = doc /\ NotShown
    /\ UNCHANGED <<mode, pc, index, messages, wave, job, decision, effect, crashes>>

Collected == {c \in wave : IF Declared THEN outcomes[c] # "none" ELSE job[c] \in {"done", "panicked"}}

\* When every thread has ended, the results are told in the order of the
\* calls and the wave's end is saved.
Join ==
    /\ pc = "working" /\ Collected = wave
    /\ LET outcome(c) == IF Declared THEN outcomes[c] ELSE ResultOf(c)
           answered == messages \o AnswersOf(wave, outcome)
           last == index + Cardinality(wave) - 1
           doc == LET synced == [Synced EXCEPT !.answers = answered]
                  IN  IF Declared THEN ToolBatchFinished(synced) ELSE ReadBatchFinished(synced)
           Fails == messages' = answered \o NotExecuted(Later(last)) /\ pc' = "end" /\ UNCHANGED index
       IN  \/ /\ Saves(doc)
              /\ IF failing \/ cancelled THEN Fails
                 ELSE messages' = answered /\ index' = last + 1 /\ pc' = "next"
           \/ /\ \/ SaveFails(doc)
                 \/ Valid(doc) /\ live' = doc /\ saved' = doc /\ NotShown
              /\ Fails
    /\ UNCHANGED <<mode, work, cancelled, effect, crashes>>

-----------------------------------------------------------------------------
(* The end of the turn, and what runs beside it. *)

\* run_turn: the last checkpoint.
EndTurn ==
    /\ pc = "end"
    /\ LET doc == Ready(Synced) IN Saves(doc) \/ SaveFails(doc)
    /\ pc' = "ended"
    /\ UNCHANGED <<mode, index, messages, work, cancelled, effect, crashes>>

Cancel ==
    /\ ~cancelled /\ pc \notin {"ended", "down"}
    /\ cancelled' = TRUE
    /\ UNCHANGED <<mode, pc, index, messages, work, docs, world>>

\* A failed save is tried again in the background.
Autosave ==
    /\ pc # "down" /\ saved # live /\ Valid(live)
    /\ saved' = live
    /\ UNCHANGED <<mode, pc, index, messages, work, cancelled, live, world>>

Crash ==
    /\ pc # "down" /\ crashes < MaxCrashes
    /\ crashes' = crashes + 1
    /\ pc' = "down"
    /\ job' = [c \in Call |-> "none"]
    /\ UNCHANGED <<mode, index, messages, wave, outcomes, failing, decision, cancelled, docs, effect, faults>>

\* Handle::open: the recovered document is saved, or the session stays closed.
Reopen ==
    /\ pc = "down" /\ Valid(saved) /\ Valid(Recovered(saved))
    /\ live' = Recovered(saved) /\ saved' = live' /\ messages' = live'.answers
    /\ pc' = "ended"
    /\ UNCHANGED <<mode, index, work, cancelled, world>>

Worker ==
    \/ Completion \/ NoMoreCalls \/ CancelledBetween
    \/ StartOne \/ Permitted \/ Refused \/ Asks \/ Allowed \/ Denied \/ Unasked
    \/ NotNoted \/ RunOne \/ FinishOne
    \/ StartWave \/ Spawn \/ CannotPrepare \/ Abort \/ (\E c \in Call : Receive(c)) \/ Join
    \/ EndTurn

Next ==
    \/ Worker
    \/ \E c \in Call : Begin(c) \/ End(c)
    \/ Decide \/ Cancel \/ Autosave \/ Crash \/ Reopen

Spec == Init /\ [][Next]_vars

\* The worker and the tools' threads run; a tool ends at last (cancelling it
\* stops its processes and requests).
Fairness ==
    /\ WF_vars(Worker)
    /\ \A c \in Call : WF_vars(Begin(c)) /\ WF_vars(End(c))

FairSpec == Spec /\ Fairness

-----------------------------------------------------------------------------
(* Properties. *)

\* Whatever path a turn takes, its results follow the order of its calls, each
\* call once: batches that finish out of order, aborted waves, cancelled
\* remainders and recovery after a crash included.
InSourceOrder == \A i \in DOMAIN messages : messages[i].call = i

\* A turn that is over, by itself or through recovery, leaves no call without
\* a result, and the document of the session agrees.
AllAnswered == pc = "ended" => ~live.active /\ Outstanding(live) = {} /\ live.answers = messages

\* One result for each call, in the order of the calls.
AnsweredInOrder == InSourceOrder /\ AllAnswered

\* No checkpoint of a turn is refused by its own validation, and a session is
\* never saved in a state its reader refuses.
AlwaysValid == Valid(live) /\ Valid(saved)

\* What the saved session tells of calls is told once and true: see CallLedger.
ToldOf(c) ==
    IF c \in Answered(saved)
    THEN saved.answers[CHOOSE i \in DOMAIN saved.answers : saved.answers[i].call = c].outcome
    ELSE saved.completed[c]

Ledger == INSTANCE CallLedger WITH told <- [c \in Call |-> ToldOf(c)]

HonestOutcomes == Ledger!Spec

\* A cancelled turn ends, wherever cancellation finds it.
CancelEnds == cancelled ~> pc \in {"ended", "down"}

\* A turn stops for nothing but the user's decision.
WaitsForUserOnly == []<>(pc \in {"ended", "down", "asking"})

\* A turn ends: by itself but for a decision, and always when it is cancelled.
TurnEnds == WaitsForUserOnly /\ CancelEnds
=============================================================================
