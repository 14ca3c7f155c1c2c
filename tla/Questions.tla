-------------------------------- MODULE Questions --------------------------------
(***************************************************************************)
(* Questions of the model to the user (src/ask.rs): the worker asks,       *)
(* journals the question, and waits; the user answers, stops the turn or   *)
(* quits; the process may end at any step, and the session is opened       *)
(* again.  Providers use call identities again in later rounds.            *)
(*                                                                         *)
(* A round is an assistant message whose calls are all ask_user.  The      *)
(* session's journal is SessionHandle's: an append or a checkpoint either  *)
(* is on disk when it returns, or failed.  Left out: what is asked.        *)
(***************************************************************************)
EXTENDS Naturals, Sequences

CONSTANTS
    CallId,        \* identities of calls
    Rounds,        \* what an assistant message may call: sequences of CallId
    Reply,         \* answers, among them that the question is dismissed
    NoReply, NoCall,
    MaxRounds, MaxRuns   \* bounds

ASSUME QuestionsAssumption ==
    /\ Rounds \subseteq Seq(CallId) \ {<<>>}
    /\ NoCall \notin CallId
    /\ (Reply \cup {NoReply}) \cap {"cancelled", "unavailable", "not_executed", "lost", "error"} = {}
    /\ NoReply \notin Reply
    /\ MaxRounds \in Nat /\ MaxRuns \in Nat \ {0}

VARIABLES
    talk,      \* the last round as the agent knows it
    journal,   \* the session's file: that round, and the events
    question,  \* Observer
    asker,     \* the worker
    app        \* the user's side of the process

questionVars == <<talk, journal, question, asker, app>>

Outcome == Reply \cup {"cancelled", "unavailable", "not_executed", "lost", "error"}
Talk == [round : 0..MaxRounds, calls : Rounds \cup {<<>>},
         results : [CallId -> Outcome \cup {NoReply}]]
QuestionEvent == [id : CallId, round : 1..MaxRounds, reply : Reply \cup {NoReply}]

QuestionTypeOK ==
    /\ talk \in Talk
    /\ journal \in [talk : Talk, events : SUBSET QuestionEvent]
    /\ question \in [available : BOOLEAN, suspended : BOOLEAN, request : CallId \cup {NoCall},
                     reply : Reply \cup {NoReply}]
    /\ asker \in [at : {"idle", "call", "continue", "emit", "wait", "look", "record", "complete",
                        "save", "ending", "ended"},
                  outcome : Outcome \cup {NoReply}, resumed : BOOLEAN, cancelled : BOOLEAN]
    /\ app \in [at : {"up", "quitting", "gone", "down"}, runs : 1..MaxRuns,
                stopped : SUBSET (1..MaxRounds)]

Free == [available |-> TRUE, suspended |-> FALSE, request |-> NoCall, reply |-> NoReply]
AskerIdle == [at |-> "idle", outcome |-> NoReply, resumed |-> FALSE, cancelled |-> FALSE]
Blank == [round |-> 0, calls |-> <<>>, results |-> [id \in CallId |-> NoReply]]

QuestionInit ==
    /\ talk = Blank
    /\ journal = [talk |-> Blank, events |-> {}]
    /\ question = Free
    /\ asker = AskerIdle
    /\ app = [at |-> "up", runs |-> 1, stopped |-> {}]

CallsOf(t) == {t.calls[i] : i \in DOMAIN t.calls}
Unresolved(t) == {id \in CallsOf(t) : t.results[id] = NoReply}
\* execute_calls takes the calls in order.
Current ==
    talk.calls[CHOOSE i \in DOMAIN talk.calls :
                  /\ talk.results[talk.calls[i]] = NoReply
                  /\ \A j \in 1..(i - 1) : talk.results[talk.calls[j]] # NoReply]
Settle(t, ids, outcome) ==
    [t EXCEPT !.results = [id \in CallId |-> IF id \in ids THEN outcome ELSE @[id]]]

AskEvent(d, id) == [id |-> id, round |-> d.round, reply |-> NoReply]
AnswerEvent(d, id, reply) == [id |-> id, round |-> d.round, reply |-> reply]
Suspended == question.suspended /\ question.request # NoCall /\ question.reply = NoReply

-----------------------------------------------------------------------------
(* The worker. *)

\* The model calls, in this turn or in the user's next one; the calls are saved.
NewRound ==
    /\ asker.at = "idle" /\ app.at = "up" /\ talk.round < MaxRounds /\ Unresolved(talk) = {}
    /\ \E calls \in Rounds :
          talk' = [Blank EXCEPT !.round = talk.round + 1, !.calls = calls]
    /\ journal' = [journal EXCEPT !.talk = talk']
    /\ asker' = [AskerIdle EXCEPT !.at = "call"]
    /\ UNCHANGED <<question, app>>

\* A cancelled turn runs no further call.
CancelCalls ==
    /\ asker.at = "call" /\ asker.cancelled
    /\ talk' = Settle(talk, Unresolved(talk), "not_executed")
    /\ asker' = [asker EXCEPT !.at = "ending"]
    /\ UNCHANGED <<journal, question, app>>

HasOutcome(outcome) == asker' = [asker EXCEPT !.at = "look", !.outcome = outcome]

AskUnavailable ==
    /\ asker.at = "call" /\ ~asker.cancelled /\ ~question.available
    /\ HasOutcome("unavailable")
    /\ UNCHANGED <<talk, journal, question, app>>

\* begin: the question is on disk before anybody sees it.
AskBegin ==
    /\ asker.at = "call" /\ ~asker.cancelled /\ question.available
    /\ question.request = NoCall
    /\ \/ /\ HasOutcome("error")
          /\ UNCHANGED <<journal, question>>
       \/ /\ journal' = [journal EXCEPT !.events = @ \cup {AskEvent(talk, Current)}]
          /\ question' = [question EXCEPT !.request = Current, !.reply = NoReply, !.suspended = FALSE]
          /\ asker' = [asker EXCEPT !.at = "emit"]
    /\ UNCHANGED <<talk, app>>

\* continue_question: a saved reply is used without asking.
Continue_Asks ==
    /\ asker.at = "continue"
    /\ asker' = [asker EXCEPT !.at = "emit"]
    /\ UNCHANGED <<talk, journal, question, app>>

Continue ==
    /\ asker.at = "continue"
    /\ IF question.reply # NoReply THEN HasOutcome(question.reply)
       ELSE asker' = [asker EXCEPT !.at = "emit"]
    /\ UNCHANGED <<talk, journal, question, app>>

Emit ==
    /\ asker.at = "emit" /\ app.at # "gone"
    /\ asker' = [asker EXCEPT !.at = "wait"]
    /\ UNCHANGED <<talk, journal, question, app>>

\* Nobody takes events any more: a resumed question is left as it is.
EmitFails ==
    /\ asker.at = "emit" /\ asker.cancelled
    /\ IF asker.resumed THEN asker' = [asker EXCEPT !.at = "ended"] ELSE HasOutcome("error")
    /\ UNCHANGED <<talk, journal, question, app>>

\* wait: a reply counts even when the turn is cancelled meanwhile.
Wait ==
    /\ asker.at = "wait"
    /\ \/ question.reply # NoReply /\ HasOutcome(question.reply)
       \/ /\ question.reply = NoReply /\ (asker.cancelled \/ ~question.available)
          /\ HasOutcome("cancelled")
    /\ UNCHANGED <<talk, journal, question, app>>

\* A suspended question stays as it is; later calls of the round do not run.
Preserve ==
    /\ asker.at = "look" /\ Suspended
    /\ talk' = Settle(talk, Unresolved(talk) \ {question.request}, "not_executed")
    /\ journal' \in {journal, [journal EXCEPT !.talk = talk']}
    /\ asker' = [asker EXCEPT !.at = "ended"]
    /\ UNCHANGED <<question, app>>

NotSuspended ==
    /\ asker.at = "look" /\ ~Suspended
    /\ asker' = [asker EXCEPT !.at = "record"]
    /\ UNCHANGED <<talk, journal, question, app>>

Record ==
    /\ asker.at = "record"
    /\ talk' = Settle(talk, {Current}, asker.outcome)
    /\ asker' = [asker EXCEPT !.at = "complete"]
    /\ UNCHANGED <<journal, question, app>>

Complete ==
    /\ asker.at = "complete"
    /\ question' = [question EXCEPT !.request = NoCall, !.reply = NoReply]
    /\ asker' = [asker EXCEPT !.at = "save"]
    /\ UNCHANGED <<talk, journal, app>>

SaveResult ==
    /\ asker.at = "save"
    /\ journal' = [journal EXCEPT !.talk = talk]
    /\ asker' = IF Unresolved(talk) = {} THEN AskerIdle
                ELSE [asker EXCEPT !.at = "call", !.outcome = NoReply, !.resumed = FALSE]
    /\ UNCHANGED <<talk, question, app>>

SaveResultFails ==
    /\ asker.at = "save"
    /\ talk' = Settle(talk, Unresolved(talk), "not_executed")
    /\ asker' = [asker EXCEPT !.at = "ending"]
    /\ UNCHANGED <<journal, question, app>>

EndTurn ==
    /\ asker.at = "ending"
    /\ journal' \in {journal, [journal EXCEPT !.talk = talk]}
    /\ asker' = AskerIdle
    /\ UNCHANGED <<talk, question, app>>

-----------------------------------------------------------------------------
(* The user. *)

\* answer and dismiss: the reply is on disk before the worker may see it.
AnswerQuestion ==
    /\ app.at = "up" /\ question.request # NoCall /\ question.reply = NoReply
    /\ \E reply \in Reply :
          /\ journal' = [journal EXCEPT !.events = @ \cup {AnswerEvent(talk, question.request, reply)}]
          /\ question' = [question EXCEPT !.reply = reply]
    /\ UNCHANGED <<talk, asker, app>>

StopTurn ==
    /\ app.at = "up" /\ asker.at \notin {"idle", "ended"} /\ ~asker.cancelled
    /\ asker' = [asker EXCEPT !.cancelled = TRUE]
    /\ app' = [app EXCEPT !.stopped = @ \cup {talk.round}]
    /\ UNCHANGED <<talk, journal, question>>

\* The question is suspended before the worker is told to stop.
QuitOrder_CancelFirst == <<"cancel", "suspend">>
QuitOrder == <<"suspend", "cancel">>

Quits(what) ==
    IF what = "cancel" THEN asker' = [asker EXCEPT !.cancelled = TRUE] /\ question' = question
    ELSE /\ question' = [question EXCEPT
              !.available = FALSE,
              !.suspended = IF talk.round \in app.stopped /\ asker.cancelled THEN @
                            ELSE question.request # NoCall /\ question.reply = NoReply]
         /\ asker' = asker

Quit ==
    /\ app.at = "up" /\ app' = [app EXCEPT !.at = "quitting"]
    /\ Quits(QuitOrder[1])
    /\ UNCHANGED <<talk, journal>>

QuitGoesOn ==
    /\ app.at = "quitting" /\ app' = [app EXCEPT !.at = "gone"]
    /\ Quits(QuitOrder[2])
    /\ UNCHANGED <<talk, journal>>

\* The process ends when the worker has ended, or it is killed.
ProcessEnds ==
    /\ app.at = "gone" /\ asker.at \in {"idle", "ended"} /\ app' = [app EXCEPT !.at = "down"]
    /\ UNCHANGED <<talk, journal, question, asker>>

Crash ==
    /\ app.at # "down" /\ app' = [app EXCEPT !.at = "down"]
    /\ UNCHANGED <<talk, journal, question, asker>>

\* recovery: the question of the last round that has no result, with its reply.
Recent_Any(event) == TRUE
Recent(event) == event.round = journal.talk.round

RecentReplies(id) ==
    {e.reply : e \in {e \in journal.events : Recent(e) /\ e.id = id}} \ {NoReply}

Recovered ==
    {q \in [id : Unresolved(journal.talk), reply : Reply \cup {NoReply}] :
        /\ \E e \in journal.events : Recent(e) /\ e.id = q.id /\ e.reply = NoReply
        /\ IF RecentReplies(q.id) = {} THEN q.reply = NoReply ELSE q.reply \in RecentReplies(q.id)}

\* Document::recover and bind: what is not a question has no known result.
Reopen ==
    /\ app.at = "down" /\ app.runs < MaxRuns
    /\ app' = [app EXCEPT !.at = "up", !.runs = @ + 1]
    /\ talk' = Settle(journal.talk, Unresolved(journal.talk) \ {q.id : q \in Recovered}, "lost")
    /\ journal' = [journal EXCEPT !.talk = talk']
    /\ IF Recovered = {} THEN question' = Free /\ asker' = AskerIdle
       ELSE \E q \in Recovered :
              /\ question' = [Free EXCEPT !.request = q.id, !.reply = q.reply]
              /\ asker' = [AskerIdle EXCEPT !.at = "continue", !.resumed = TRUE]

-----------------------------------------------------------------------------
Asks ==
    \/ NewRound \/ CancelCalls \/ AskUnavailable \/ AskBegin \/ Continue \/ Emit \/ EmitFails
    \/ Wait \/ Preserve \/ NotSuspended \/ Record \/ Complete \/ SaveResult \/ SaveResultFails \/ EndTurn

QuestionNext ==
    \/ app.at # "down" /\ Asks
    \/ AnswerQuestion \/ StopTurn \/ Quit \/ QuitGoesOn \/ ProcessEnds \/ Crash \/ Reopen

QuestionSpec == QuestionInit /\ [][QuestionNext]_questionVars

-----------------------------------------------------------------------------
(* Properties. *)

SavedReplies(id) ==
    {e.reply : e \in {e \in journal.events : e.id = id /\ e.round = talk.round}} \ {NoReply}

\* The result of a call tells what the user did in this round: an answer is one
\* that is saved, "cancelled" means that the user stopped the turn, a saved
\* answer is the result unless they did, and a question that was put is never
\* called lost, however the process ended and with identities used again.
ResultsAreHonest ==
    \A id \in CallsOf(talk) :
       LET result == talk.results[id]
           stopped == talk.round \in app.stopped
       IN  result # NoReply =>
             /\ result \in Reply => result \in SavedReplies(id)
             /\ result = "cancelled" => stopped
             /\ SavedReplies(id) # {} => result \in SavedReplies(id) \cup {"error"} \/ stopped
             /\ result \in {"lost", "not_executed"} => AskEvent(talk, id) \notin journal.events

\* What the user answered is not asked again after a restart: the question is
\* put a second time only if no answer was saved.
AnsweredOnce ==
    [][asker.at = "continue" /\ asker'.at = "emit" => SavedReplies(question.request) = {}]_questionVars
=============================================================================
