---------------------------- MODULE QuestionProofs ----------------------------
(***************************************************************************)
(* Proofs about Questions, for any calls, rounds, answers and restarts.    *)
(* The argument is QuestionInv: the saved round is the live one or lacks   *)
(* results of it (SavedSound); of the calls without a result at most one   *)
(* was put to the user (AskedSound), and it is the one that is executed,   *)
(* whose reply the worker sees only once it is saved (RequestSound); and   *)
(* a turn is cancelled by the user's stop or after the pending question    *)
(* was suspended (StopSound).  So a restart finds the question that was    *)
(* pending, with its answer if there is one, and nothing else of the round *)
(* was put to the user.                                                    *)
(***************************************************************************)
EXTENDS Questions, NaturalsInduction, WellFoundedInduction, TLAPS

-----------------------------------------------------------------------------
(* Questions: the types of the state, and its fields.                      *)

Journal == [talk : Talk, events : SUBSET QuestionEvent]
QuestionState ==
    [available : BOOLEAN, suspended : BOOLEAN, request : CallId \cup {NoCall},
     reply : Reply \cup {NoReply}]
Place == {"idle", "call", "continue", "emit", "wait", "look", "record", "complete",
          "save", "ending", "ended"}
AskerState ==
    [at : Place, outcome : Outcome \cup {NoReply}, resumed : BOOLEAN, cancelled : BOOLEAN]
AppState ==
    [at : {"up", "quitting", "gone", "down"}, runs : 1..MaxRuns, stopped : SUBSET (1..MaxRounds)]

\* The type invariant, one variable at a time.
LEMMA QuestionTypes ==
    QuestionTypeOK <=> /\ talk \in Talk /\ journal \in Journal /\ question \in QuestionState
                       /\ asker \in AskerState /\ app \in AppState
BY DEF QuestionTypeOK, Journal, QuestionState, AskerState, AppState, Place

\* The same of the next state.
LEMMA NextQuestionTypes ==
    QuestionTypeOK' <=> /\ talk' \in Talk /\ journal' \in Journal /\ question' \in QuestionState
                        /\ asker' \in AskerState /\ app' \in AppState
BY DEF QuestionTypeOK, Journal, QuestionState, AskerState, AppState, Place

AskerIs(d, at, outcome, resumed, cancelled) ==
    /\ d \in AskerState /\ d.at = at /\ d.outcome = outcome
    /\ d.resumed = resumed /\ d.cancelled = cancelled

\* The worker goes on to another place.
LEMMA AskerMoves ==
    ASSUME NEW d \in AskerState, NEW at \in Place
    PROVE  AskerIs([d EXCEPT !.at = at], at, d.outcome, d.resumed, d.cancelled)
BY DEF AskerState, AskerIs

\* HasOutcome.
LEMMA AskerHas ==
    ASSUME NEW d \in AskerState, NEW outcome \in Outcome \cup {NoReply}
    PROVE  AskerIs([d EXCEPT !.at = "look", !.outcome = outcome],
                   "look", outcome, d.resumed, d.cancelled)
<1>1. "look" \in Place
  BY DEF Place
<1> QED  BY <1>1 DEF AskerState, AskerIs

\* The turn is cancelled.
LEMMA AskerCancelled ==
    ASSUME NEW d \in AskerState
    PROVE  AskerIs([d EXCEPT !.cancelled = TRUE], d.at, d.outcome, d.resumed, TRUE)
<1>1. PICK f \in BOOLEAN : f = TRUE
  OBVIOUS
<1>2. AskerIs([d EXCEPT !.cancelled = f], d.at, d.outcome, d.resumed, f)
  BY ONLY d \in AskerState, f \in BOOLEAN DEF AskerState, AskerIs
<1> QED  BY <1>1, <1>2

\* The worker goes on to the next call.
LEMMA AskerNextCall ==
    ASSUME NEW d \in AskerState
    PROVE  AskerIs([d EXCEPT !.at = "call", !.outcome = NoReply, !.resumed = FALSE],
                   "call", NoReply, FALSE, d.cancelled)
<1>1. PICK f \in BOOLEAN : f = FALSE
  OBVIOUS
<1>2. "call" \in Place /\ NoReply \in Outcome \cup {NoReply}
  BY DEF Place
<1>3. AskerIs([d EXCEPT !.at = "call", !.outcome = NoReply, !.resumed = f],
              "call", NoReply, f, d.cancelled)
  BY ONLY d \in AskerState, f \in BOOLEAN, <1>2 DEF AskerState, AskerIs
<1> QED  BY <1>1, <1>3

\* A worker that is idle, or at the first step of a turn.
LEMMA AskerStarts ==
    ASSUME NEW at \in Place, NEW f \in BOOLEAN
    PROVE  /\ AskerIs(AskerIdle, "idle", NoReply, FALSE, FALSE)
           /\ AskerIs([AskerIdle EXCEPT !.at = at], at, NoReply, FALSE, FALSE)
           /\ AskerIs([AskerIdle EXCEPT !.at = at, !.resumed = f], at, NoReply, f, FALSE)
<1>1. PICK g \in BOOLEAN : g = FALSE
  OBVIOUS
<1>2. PICK d : d = [at |-> "idle", outcome |-> NoReply, resumed |-> g, cancelled |-> g]
  OBVIOUS
<1>3. "idle" \in Place /\ NoReply \in Outcome \cup {NoReply}
  BY DEF Place
<1>4. AskerIs(d, "idle", NoReply, g, g)
  BY ONLY <1>2, <1>3, g \in BOOLEAN DEF AskerState, AskerIs
<1>5. AskerIdle = d
  BY <1>1, <1>2 DEF AskerIdle
<1>6. AskerIs([d EXCEPT !.at = at], at, NoReply, g, g)
  BY ONLY <1>4, at \in Place, g \in BOOLEAN DEF AskerState, AskerIs
<1>7. AskerIs([d EXCEPT !.at = at, !.resumed = f], at, NoReply, f, g)
  BY ONLY <1>4, at \in Place, g \in BOOLEAN, f \in BOOLEAN DEF AskerState, AskerIs
<1> QED  BY <1>1, <1>4, <1>5, <1>6, <1>7

QuestionIs(d, available, suspended, request, reply) ==
    /\ d \in QuestionState /\ d.available = available /\ d.suspended = suspended
    /\ d.request = request /\ d.reply = reply

\* begin puts a question.
LEMMA QuestionPut ==
    ASSUME NEW d \in QuestionState, NEW id \in CallId
    PROVE  QuestionIs([d EXCEPT !.request = id, !.reply = NoReply, !.suspended = FALSE],
                      d.available, FALSE, id, NoReply)
<1>1. PICK f \in BOOLEAN : f = FALSE
  OBVIOUS
<1>2. id \in CallId \cup {NoCall} /\ NoReply \in Reply \cup {NoReply}
  OBVIOUS
<1>3. QuestionIs([d EXCEPT !.request = id, !.reply = NoReply, !.suspended = f],
                 d.available, f, id, NoReply)
  BY ONLY d \in QuestionState, f \in BOOLEAN, <1>2 DEF QuestionState, QuestionIs
<1> QED  BY <1>1, <1>3

\* complete takes it away.
LEMMA QuestionTaken ==
    ASSUME NEW d \in QuestionState
    PROVE  QuestionIs([d EXCEPT !.request = NoCall, !.reply = NoReply],
                      d.available, d.suspended, NoCall, NoReply)
BY DEF QuestionState, QuestionIs

\* The user replies.
LEMMA QuestionReplied ==
    ASSUME NEW d \in QuestionState, NEW r \in Reply
    PROVE  QuestionIs([d EXCEPT !.reply = r], d.available, d.suspended, d.request, r)
BY DEF QuestionState, QuestionIs

\* The question is suspended, or not, as the interface leaves.
LEMMA QuestionLeft ==
    ASSUME NEW d \in QuestionState, NEW f \in BOOLEAN
    PROVE  QuestionIs([d EXCEPT !.available = FALSE, !.suspended = f],
                      FALSE, f, d.request, d.reply)
<1>1. PICK g \in BOOLEAN : g = FALSE
  OBVIOUS
<1>2. QuestionIs([d EXCEPT !.available = g, !.suspended = f], g, f, d.request, d.reply)
  BY ONLY d \in QuestionState, f \in BOOLEAN, g \in BOOLEAN DEF QuestionState, QuestionIs
<1> QED  BY <1>1, <1>2

\* A process that starts, with or without a question of the last one.
LEMMA QuestionFree ==
    /\ QuestionIs(Free, TRUE, FALSE, NoCall, NoReply)
    /\ \A id \in CallId, r \in Reply \cup {NoReply} :
          QuestionIs([Free EXCEPT !.request = id, !.reply = r], TRUE, FALSE, id, r)
<1>1. PICK f \in BOOLEAN : f = FALSE
  OBVIOUS
<1>2. PICK t \in BOOLEAN : t = TRUE
  OBVIOUS
<1>3. PICK d : d = [available |-> t, suspended |-> f, request |-> NoCall, reply |-> NoReply]
  OBVIOUS
<1>4. QuestionIs(d, t, f, NoCall, NoReply)
  BY ONLY <1>3, f \in BOOLEAN, t \in BOOLEAN DEF QuestionState, QuestionIs
<1>5. Free = d
  BY <1>1, <1>2, <1>3 DEF Free
<1>6. ASSUME NEW id \in CallId, NEW r \in Reply \cup {NoReply}
      PROVE  QuestionIs([d EXCEPT !.request = id, !.reply = r], t, f, id, r)
  BY ONLY <1>4, f \in BOOLEAN, t \in BOOLEAN, id \in CallId, r \in Reply \cup {NoReply}
     DEF QuestionState, QuestionIs
<1> QED  BY <1>1, <1>2, <1>4, <1>5, <1>6

-----------------------------------------------------------------------------
(* Rounds of calls. *)

\* What a round calls.
LEMMA CallsAreCalls ==
    ASSUME NEW t \in Talk
    PROVE  /\ CallsOf(t) \subseteq CallId /\ Unresolved(t) \subseteq CallsOf(t)
           /\ t.round \in 0..MaxRounds /\ t.round \in Nat
           /\ t.calls \in Seq(CallId) /\ t.results \in [CallId -> Outcome \cup {NoReply}]
<1>1. t.calls \in Seq(CallId)
  <2>1. t.calls \in Rounds \cup {<<>>}
    BY DEF Talk
  <2>2. <<>> \in Seq(CallId)
    OBVIOUS
  <2> QED  BY <2>1, <2>2, QuestionsAssumption
<1>2. \A i \in DOMAIN t.calls : t.calls[i] \in CallId
  BY <1>1
<1> QED  BY <1>1, <1>2, QuestionsAssumption DEF Talk, CallsOf, Unresolved

\* A result that is not among the replies.
LEMMA OutcomesApart ==
    /\ NoReply \notin Outcome
    /\ \A o \in {"cancelled", "unavailable", "not_executed", "lost", "error"} : o \in Outcome /\ o \notin Reply
    /\ Reply \subseteq Outcome
BY QuestionsAssumption DEF Outcome

\* Settle gives some calls a result.
LEMMA Settles ==
    ASSUME NEW t \in Talk, NEW ids, NEW outcome \in Outcome
    PROVE  /\ Settle(t, ids, outcome) \in Talk
           /\ Settle(t, ids, outcome).round = t.round /\ Settle(t, ids, outcome).calls = t.calls
           /\ \A id \in CallId : Settle(t, ids, outcome).results[id]
                                   = IF id \in ids THEN outcome ELSE t.results[id]
           /\ CallsOf(Settle(t, ids, outcome)) = CallsOf(t)
           /\ Unresolved(Settle(t, ids, outcome)) = Unresolved(t) \ ids
<1>1. PICK rs : rs = [id \in CallId |-> IF id \in ids THEN outcome ELSE t.results[id]]
  OBVIOUS
<1>2. rs \in [CallId -> Outcome \cup {NoReply}]
  BY <1>1, CallsAreCalls
<1>3. PICK s : s = [t EXCEPT !.results = rs]
  OBVIOUS
<1>4. s \in Talk /\ s.round = t.round /\ s.calls = t.calls /\ s.results = rs
  BY ONLY t \in Talk, <1>2, <1>3 DEF Talk
<1>5. Settle(t, ids, outcome) = s
  <2>1. [t EXCEPT !.results = [id \in CallId |-> IF id \in ids THEN outcome ELSE @[id]]] = [t EXCEPT !.results = rs]
    BY <1>1, Zenon DEF Talk
  <2> QED  BY <1>3, <2>1 DEF Settle
<1>6. CallsOf(s) = CallsOf(t)
  BY <1>4 DEF CallsOf
<1>7. Unresolved(s) = Unresolved(t) \ ids
  BY <1>1, <1>4, <1>6, CallsAreCalls, OutcomesApart DEF Unresolved
<1> QED  BY <1>1, <1>4, <1>5, <1>6, <1>7

\* The call that is executed is the first that has no result.
LEMMA CurrentIsUnresolved ==
    ASSUME talk \in Talk, Unresolved(talk) # {}
    PROVE  Current \in Unresolved(talk)
<1> DEFINE open == {i \in DOMAIN talk.calls : talk.results[talk.calls[i]] = NoReply}
<1>1. DOMAIN talk.calls \subseteq Nat /\ \A i \in DOMAIN talk.calls : 1..(i - 1) \subseteq DOMAIN talk.calls
  BY CallsAreCalls
<1>2. open \subseteq Nat /\ open # {}
  BY <1>1 DEF Unresolved, CallsOf
<1>3. PICK m \in open : \A i \in open : ~(<<i, m>> \in OpToRel(<, Nat))
  BY <1>2, NatLessThanWellFounded, WFMin
<1>4. \A j \in 1..(m - 1) : talk.results[talk.calls[j]] # NoReply
  <2>1. SUFFICES ASSUME NEW j \in 1..(m - 1), talk.results[talk.calls[j]] = NoReply PROVE FALSE
    OBVIOUS
  <2>2. m \in Nat /\ j \in Nat /\ j < m /\ j \in DOMAIN talk.calls
    BY <1>1, <1>2
  <2>3. j \in open
    BY <2>1, <2>2
  <2> QED  BY <1>3, <2>2, <2>3 DEF OpToRel
<1>5. \E i \in DOMAIN talk.calls :
          /\ talk.results[talk.calls[i]] = NoReply
          /\ \A j \in 1..(i - 1) : talk.results[talk.calls[j]] # NoReply
  BY <1>3, <1>4
<1>6. PICK i \in DOMAIN talk.calls : talk.results[talk.calls[i]] = NoReply /\ Current = talk.calls[i]
  BY <1>5, Zenon DEF Current
<1> QED  BY <1>6 DEF Unresolved, CallsOf

-----------------------------------------------------------------------------
(* What holds of questions at any time. *)

Asked(id) == AskEvent(talk, id) \in journal.events
Answered(id, reply) == AnswerEvent(talk, id, reply) \in journal.events
Stopped == talk.round \in app.stopped

\* The saved round is the live one, or lacks results; events are of no later
\* round, and an answer is of a question.
SavedSound ==
    /\ journal.talk.round = talk.round /\ journal.talk.calls = talk.calls
    /\ \A id \in CallId : journal.talk.results[id] \in {NoReply, talk.results[id]}
    /\ \A e \in journal.events : e.round <= talk.round
    /\ \A id \in CallId, r \in Reply : Answered(id, r) => Asked(id)
    /\ asker.at # "idle" => talk.round # 0
    /\ asker.at = "call" => journal.talk = talk

\* Of the calls without a result at most one was put to the user: the one that
\* is executed, or in the saved round the last that was.
AskedSound ==
    /\ \A id \in Unresolved(talk) : Asked(id) => id = question.request
    /\ \A i, j \in Unresolved(journal.talk) : Asked(i) /\ Asked(j) => i = j
    /\ asker.at \in {"call", "continue", "emit", "wait", "look", "record"} => Unresolved(talk) # {}

\* The question that is pending is that of the call that is executed, and its
\* reply is saved.
RequestSound ==
    /\ asker.at \in {"idle", "call", "save", "ending"} => question.request = NoCall
    /\ asker.at \in {"continue", "emit", "wait"} => question.request # NoCall
    /\ question.request = NoCall => question.reply = NoReply
    /\ question.request # NoCall =>
          /\ Asked(question.request)
          /\ asker.at \notin {"complete", "ended"} => question.request = Current
          /\ IF asker.at = "complete" THEN question.request \notin Unresolved(talk)
             ELSE question.request \in Unresolved(talk)
          /\ question.reply # NoReply => Answered(question.request, question.reply)
          /\ question.reply = NoReply => \A r \in Reply : ~Answered(question.request, r)

\* The outcome that the worker is about to record.
OutcomeSound ==
    asker.at \in {"look", "record"} =>
        /\ asker.outcome \in Reply \cup {"cancelled", "unavailable", "error"}
        /\ asker.outcome \in Reply => Answered(Current, asker.outcome)
        /\ asker.outcome = "cancelled" => Stopped \/ (asker.at = "look" /\ Suspended)
        /\ asker.outcome = "unavailable" => question.request = NoCall

\* A turn is cancelled by the user's stop or as the interface leaves, which
\* suspends the question first.
StopSound ==
    /\ asker.cancelled => Stopped \/ app.at \in {"gone", "down"}
    /\ app.at \in {"quitting", "gone"} => ~question.available
    /\ app.at = "up" => question.available
    /\ question.suspended => ~question.available
    /\ ~question.available /\ question.request # NoCall /\ question.reply = NoReply
         => question.suspended \/ Stopped

\* A result of the round is what the user saved, or what nobody had answered.
ResultSound ==
    \A id \in CallsOf(talk) :
        /\ talk.results[id] \in Reply => Answered(id, talk.results[id])
        /\ talk.results[id] = "cancelled" => Stopped
        /\ Asked(id) /\ talk.results[id] # NoReply
             => talk.results[id] \in Reply \cup {"cancelled", "error"}

QuestionInv ==
    /\ QuestionTypeOK
    /\ SavedSound /\ AskedSound /\ RequestSound /\ OutcomeSound /\ StopSound /\ ResultSound

\* The types of what the invariant is about.
LEMMA QuestionFacts ==
    ASSUME QuestionTypeOK
    PROVE  /\ talk \in Talk /\ journal \in Journal /\ question \in QuestionState
           /\ asker \in AskerState /\ app \in AppState
           /\ journal.talk \in Talk /\ journal.events \in SUBSET QuestionEvent
           /\ question.available \in BOOLEAN /\ question.suspended \in BOOLEAN
           /\ question.request \in CallId \cup {NoCall} /\ question.reply \in Reply \cup {NoReply}
           /\ asker.at \in Place /\ asker.outcome \in Outcome \cup {NoReply}
           /\ asker.resumed \in BOOLEAN /\ asker.cancelled \in BOOLEAN
           /\ app.at \in {"up", "quitting", "gone", "down"} /\ app.stopped \in SUBSET (1..MaxRounds)
           /\ app.runs \in 1..MaxRuns
           /\ talk.round \in 0..MaxRounds /\ talk.round \in Nat
           /\ talk.results \in [CallId -> Outcome \cup {NoReply}]
           /\ journal.talk.results \in [CallId -> Outcome \cup {NoReply}]
           /\ CallsOf(talk) \subseteq CallId /\ Unresolved(talk) \subseteq CallId
           /\ Unresolved(journal.talk) \subseteq CallId
<1>1. /\ talk \in Talk /\ journal \in Journal /\ question \in QuestionState
      /\ asker \in AskerState /\ app \in AppState
  BY QuestionTypes
<1>2. journal.talk \in Talk /\ journal.events \in SUBSET QuestionEvent
  BY <1>1 DEF Journal
<1>3. /\ CallsOf(talk) \subseteq CallId /\ Unresolved(talk) \subseteq CallId
      /\ Unresolved(journal.talk) \subseteq CallId
      /\ talk.round \in 0..MaxRounds /\ talk.round \in Nat
      /\ talk.results \in [CallId -> Outcome \cup {NoReply}]
      /\ journal.talk.results \in [CallId -> Outcome \cup {NoReply}]
  BY <1>1, <1>2, CallsAreCalls
<1> QED  BY <1>1, <1>2, <1>3 DEF QuestionState, AskerState, AppState

\* Nothing of the round changes.
Unmoved == talk' = talk /\ journal' = journal

\* Then what was asked and answered, and what has no result, is the same.
LEMMA UnmovedSame ==
    ASSUME Unmoved
    PROVE  /\ \A id : Asked(id)' <=> Asked(id)
           /\ \A id, r : Answered(id, r)' <=> Answered(id, r)
           /\ Current' = Current /\ Unresolved(talk)' = Unresolved(talk)
           /\ Unresolved(journal.talk)' = Unresolved(journal.talk)
           /\ CallsOf(talk)' = CallsOf(talk)
BY DEF Unmoved, Asked, Answered, Current, Unresolved, CallsOf

\* The round and its results are as good as they were.
LEMMA UnmovedSound ==
    ASSUME SavedSound, ResultSound, Unmoved, app.stopped \subseteq app'.stopped,
           asker.at # "idle" \/ asker'.at = "idle", asker'.at # "call" \/ asker.at = "call"
    PROVE  SavedSound' /\ ResultSound'
<1>1. /\ \A id : Asked(id)' <=> Asked(id)
      /\ \A id, r : Answered(id, r)' <=> Answered(id, r)
      /\ CallsOf(talk)' = CallsOf(talk)
  BY UnmovedSame
<1>2. Stopped => Stopped'
  BY DEF Unmoved, Stopped
<1>3. SavedSound'
  BY <1>1 DEF SavedSound, Unmoved
<1>4. ResultSound'
  BY <1>1, <1>2 DEF ResultSound, Unmoved
<1> QED  BY <1>3, <1>4

-----------------------------------------------------------------------------
(* Steps of the worker that only look. *)

\* The worker alone moves.
LEMMA WorkerMoves ==
    ASSUME QuestionInv, Unmoved, question' = question, app' = app,
           asker' \in AskerState, asker'.cancelled = asker.cancelled,
           asker.at \in {"call", "continue", "emit", "wait", "look"},
           asker'.at \in {"emit", "wait", "look", "record", "ended"},
           asker'.at \in {"emit", "wait"} => question.request # NoCall,
           OutcomeSound'
    PROVE  QuestionInv'
<1>1. /\ QuestionTypeOK /\ SavedSound /\ AskedSound /\ RequestSound /\ StopSound /\ ResultSound
  BY DEF QuestionInv
<1>2. /\ \A id : Asked(id)' <=> Asked(id)
      /\ \A id, r : Answered(id, r)' <=> Answered(id, r)
      /\ Current' = Current /\ Unresolved(talk)' = Unresolved(talk)
      /\ Unresolved(journal.talk)' = Unresolved(journal.talk)
      /\ talk' = talk /\ journal' = journal
  BY UnmovedSame DEF Unmoved
<1>3. QuestionTypeOK'
  BY <1>1, <1>2, QuestionTypes, NextQuestionTypes
<1>4. SavedSound' /\ ResultSound'
  BY <1>1, UnmovedSound
<1>5. AskedSound'
  BY <1>1, <1>2 DEF AskedSound
<1>6. RequestSound'
  BY <1>1, <1>2 DEF RequestSound
<1>7. StopSound'
  BY <1>1, <1>2 DEF StopSound, Stopped
<1> QED  BY <1>3, <1>4, <1>5, <1>6, <1>7 DEF QuestionInv

\* The call has an outcome.
LEMMA WorkerHas ==
    ASSUME QuestionInv, Unmoved, question' = question, app' = app,
           asker.at \in {"call", "continue", "emit", "wait"},
           NEW o \in Reply \cup {"cancelled", "unavailable", "error"}, HasOutcome(o),
           o \in Reply => Answered(Current, o),
           o = "cancelled" => Stopped \/ Suspended,
           o = "unavailable" => question.request = NoCall
    PROVE  QuestionInv'
<1>1. asker \in AskerState /\ o \in Outcome \cup {NoReply}
  BY QuestionFacts, OutcomesApart DEF QuestionInv
<1>2. /\ asker' \in AskerState /\ asker'.at = "look" /\ asker'.outcome = o
      /\ asker'.cancelled = asker.cancelled
  BY <1>1, AskerHas DEF HasOutcome, AskerIs
<1>3. /\ \A id, r : Answered(id, r)' <=> Answered(id, r)
      /\ Current' = Current /\ (Stopped' <=> Stopped) /\ (Suspended' <=> Suspended)
  BY UnmovedSame DEF Unmoved, Stopped, Suspended
<1>4. OutcomeSound'
  BY <1>2, <1>3 DEF OutcomeSound
<1> QED  BY <1>2, <1>4, WorkerMoves

\* The call goes on.
LEMMA WorkerGoes ==
    ASSUME QuestionInv, Unmoved, question' = question, app' = app,
           asker.at \in {"continue", "emit"}, NEW at \in {"emit", "wait", "ended"},
           asker' = [asker EXCEPT !.at = at]
    PROVE  QuestionInv'
<1>1. asker \in AskerState /\ at \in Place
  BY QuestionFacts DEF QuestionInv, Place
<1>2. asker' \in AskerState /\ asker'.at = at /\ asker'.cancelled = asker.cancelled
  BY <1>1, AskerMoves DEF AskerIs
<1>3. OutcomeSound'
  BY <1>2 DEF OutcomeSound
<1>4. question.request # NoCall
  BY DEF QuestionInv, RequestSound
<1> QED  BY <1>2, <1>3, <1>4, WorkerMoves

\* AskUnavailable: nobody is there to ask.
LEMMA AskUnavailableStep ==
    ASSUME QuestionInv, AskUnavailable
    PROVE  QuestionInv'
<1>1. asker.at = "call" /\ question.request = NoCall
  BY DEF AskUnavailable, QuestionInv, RequestSound
<1>2. "unavailable" \notin Reply
  BY OutcomesApart
<1> QED  BY <1>1, <1>2, WorkerHas DEF AskUnavailable, Unmoved

\* continue_question: a saved reply is used without asking.
LEMMA ContinueStep ==
    ASSUME QuestionInv, Continue
    PROVE  QuestionInv'
<1>1. asker.at = "continue" /\ Unmoved /\ question' = question /\ app' = app
  BY DEF Continue, Unmoved
<1>2. CASE question.reply # NoReply
  <2>1. question.reply \in Reply /\ HasOutcome(question.reply)
    BY <1>2, QuestionFacts DEF QuestionInv, Continue
  <2>2. Answered(Current, question.reply)
    BY <1>1, <1>2 DEF QuestionInv, RequestSound
  <2>3. question.reply \notin {"cancelled", "unavailable"}
    BY <2>1, OutcomesApart
  <2> QED  BY <1>1, <2>1, <2>2, <2>3, WorkerHas
<1>3. CASE question.reply = NoReply
  BY <1>1, <1>3, WorkerGoes DEF Continue
<1> QED  BY <1>2, <1>3

\* The question is shown, or nobody takes events any more.
LEMMA EmitStep ==
    ASSUME QuestionInv, Emit
    PROVE  QuestionInv'
BY WorkerGoes DEF Emit, Unmoved

\* Nobody takes events any more: a resumed question is left, a new one fails.
LEMMA EmitFailsStep ==
    ASSUME QuestionInv, EmitFails
    PROVE  QuestionInv'
<1>1. asker.at = "emit" /\ Unmoved /\ question' = question /\ app' = app
  BY DEF EmitFails, Unmoved
<1>2. CASE asker.resumed
  BY <1>1, <1>2, WorkerGoes DEF EmitFails
<1>3. CASE ~asker.resumed
  BY <1>1, <1>3, WorkerHas, OutcomesApart DEF EmitFails
<1> QED  BY <1>2, <1>3

\* wait: a reply, or the turn is cancelled.
LEMMA WaitStep ==
    ASSUME QuestionInv, Wait, app.at # "down"
    PROVE  QuestionInv'
<1>1. asker.at = "wait" /\ Unmoved /\ question' = question /\ app' = app
  BY DEF Wait, Unmoved
<1>2. CASE question.reply # NoReply /\ HasOutcome(question.reply)
  <2>1. question.reply \in Reply
    BY <1>2, QuestionFacts DEF QuestionInv
  <2>2. Answered(Current, question.reply)
    BY <1>1, <1>2 DEF QuestionInv, RequestSound
  <2>3. question.reply \notin {"cancelled", "unavailable"}
    BY <2>1, OutcomesApart
  <2> QED  BY <1>1, <1>2, <2>1, <2>2, <2>3, WorkerHas
<1>3. CASE /\ question.reply = NoReply /\ (asker.cancelled \/ ~question.available)
           /\ HasOutcome("cancelled")
  <2>1. question.request # NoCall
    BY <1>1 DEF QuestionInv, RequestSound
  <2>2. app.at \in {"up", "quitting", "gone"}
    BY QuestionFacts DEF QuestionInv
  <2>3. Stopped \/ ~question.available
    BY <1>3, <2>2 DEF QuestionInv, StopSound
  <2>4. Stopped \/ Suspended
    BY <1>3, <2>1, <2>3 DEF QuestionInv, StopSound, Suspended
  <2> QED  BY <1>1, <1>3, <2>4, WorkerHas, OutcomesApart
<1> QED  BY <1>2, <1>3 DEF Wait

\* The question is not suspended, and its outcome will be recorded.
LEMMA NotSuspendedStep ==
    ASSUME QuestionInv, NotSuspended
    PROVE  QuestionInv'
<1>1. /\ asker.at = "look" /\ ~Suspended /\ asker' = [asker EXCEPT !.at = "record"]
      /\ Unmoved /\ question' = question /\ app' = app
  BY DEF NotSuspended, Unmoved
<1>2. asker \in AskerState /\ "record" \in Place
  BY QuestionFacts DEF QuestionInv, Place
<1>3. /\ asker' \in AskerState /\ asker'.at = "record" /\ asker'.outcome = asker.outcome
      /\ asker'.cancelled = asker.cancelled
  BY <1>1, <1>2, AskerMoves DEF AskerIs
<1>4. /\ \A id, r : Answered(id, r)' <=> Answered(id, r)
      /\ Current' = Current /\ (Stopped' <=> Stopped)
  BY <1>1, UnmovedSame DEF Unmoved, Stopped
<1>5. OutcomeSound'
  BY <1>1, <1>3, <1>4 DEF QuestionInv, OutcomeSound
<1> QED  BY <1>1, <1>3, <1>5, WorkerMoves

-----------------------------------------------------------------------------
(* Steps of the worker that change the round or the question. *)

\* The round gets results that nobody was asked for.
LEMMA SettledUnasked ==
    ASSUME QuestionInv, NEW ids \in SUBSET Unresolved(talk),
           \A id \in ids : ~Asked(id), NEW o \in {"not_executed", "lost"},
           talk' = Settle(talk, ids, o), app' = app, question' = question,
           journal' \in {journal, [journal EXCEPT !.talk = talk']},
           asker' \in AskerState, asker'.cancelled = asker.cancelled,
           asker.at # "idle",
           \/ asker'.at = "ending" /\ question.request = NoCall
           \/ asker'.at = "ended" /\ question.request \notin ids /\ asker.at # "complete"
    PROVE  QuestionInv'
<1>1. /\ QuestionTypeOK /\ SavedSound /\ AskedSound /\ RequestSound /\ StopSound /\ ResultSound
      /\ talk \in Talk /\ journal \in Journal
  BY QuestionFacts DEF QuestionInv
<1>2. o \in Outcome /\ o \notin Reply /\ o # "cancelled" /\ o # NoReply
  BY OutcomesApart
<1>3. /\ talk' \in Talk /\ talk'.round = talk.round /\ talk'.calls = talk.calls
      /\ \A id \in CallId : talk'.results[id] = IF id \in ids THEN o ELSE talk.results[id]
      /\ CallsOf(talk)' = CallsOf(talk) /\ Unresolved(talk)' = Unresolved(talk) \ ids
  BY <1>1, <1>2, Settles
<1>4. /\ journal' \in Journal /\ journal'.events = journal.events
      /\ journal'.talk \in {journal.talk, talk'}
  <2>1. PICK d \in Journal, t \in Talk : d = journal /\ t = talk'
    BY <1>1, <1>3
  <2>2. [d EXCEPT !.talk = t] \in Journal /\ [d EXCEPT !.talk = t].talk = t
        /\ [d EXCEPT !.talk = t].events = d.events
    BY ONLY d \in Journal, t \in Talk DEF Journal
  <2> QED  BY <1>1, <2>1, <2>2
<1>5. /\ \A id : Asked(id)' <=> Asked(id)
      /\ \A id, r : Answered(id, r)' <=> Answered(id, r)
      /\ Stopped' <=> Stopped
  BY <1>3, <1>4 DEF Asked, Answered, AskEvent, AnswerEvent, Stopped
<1>6. QuestionTypeOK'
  BY <1>1, <1>3, <1>4, QuestionTypes, NextQuestionTypes
<1>7. CallsOf(talk) \subseteq CallId /\ Unresolved(talk) \subseteq CallsOf(talk)
  BY <1>1, CallsAreCalls
<1>8. SavedSound'
  <2>1. \A id \in CallId : journal'.talk.results[id] \in {NoReply, talk'.results[id]}
    <3>1. SUFFICES ASSUME NEW id \in CallId, journal'.talk = journal.talk
                   PROVE  journal.talk.results[id] \in {NoReply, talk'.results[id]}
      BY <1>4
    <3>2. journal.talk.results[id] \in {NoReply, talk.results[id]}
      BY <1>1 DEF SavedSound
    <3>3. id \in ids => talk.results[id] = NoReply
      BY DEF Unresolved
    <3> QED  BY <1>3, <3>2, <3>3
  <2>2. journal'.talk.round = talk'.round /\ journal'.talk.calls = talk'.calls
    BY <1>1, <1>3, <1>4 DEF SavedSound
  <2> QED  BY <1>1, <1>3, <1>4, <1>5, <2>1, <2>2 DEF SavedSound
<1>9. AskedSound'
  <2>1. \A id \in Unresolved(talk)' : Asked(id)' => id = question'.request
    BY <1>1, <1>3, <1>5 DEF AskedSound
  <2>2. ASSUME NEW i \in Unresolved(journal.talk)', NEW j \in Unresolved(journal.talk)', Asked(i)', Asked(j)'
        PROVE  i = j
    <3>1. CASE journal'.talk = journal.talk
      <4>1. i \in Unresolved(journal.talk) /\ j \in Unresolved(journal.talk)
        BY <2>2, <3>1 DEF Unresolved, CallsOf
      <4> QED  BY <1>1, <1>5, <2>2, <4>1 DEF AskedSound
    <3>2. CASE journal'.talk = talk'
      <4>1. i \in Unresolved(talk)' /\ j \in Unresolved(talk)'
        BY <2>2, <3>2 DEF Unresolved, CallsOf
      <4> QED  BY <2>1, <2>2, <4>1
    <3> QED  BY <1>4, <3>1, <3>2
  <2> QED  BY <2>1, <2>2 DEF AskedSound
<1>10. RequestSound'
  BY <1>1, <1>3, <1>5 DEF RequestSound
<1>11. OutcomeSound' /\ StopSound'
  BY <1>1, <1>5 DEF OutcomeSound, StopSound
<1>12. ResultSound'
  <2>1. SUFFICES ASSUME NEW id \in CallsOf(talk)
                 PROVE  /\ talk'.results[id] \in Reply => Answered(id, talk'.results[id])
                        /\ talk'.results[id] = "cancelled" => Stopped
                        /\ Asked(id) /\ talk'.results[id] # NoReply
                             => talk'.results[id] \in Reply \cup {"cancelled", "error"}
    BY <1>3, <1>5 DEF ResultSound
  <2> QED  BY <1>1, <1>2, <1>3, <1>7, <2>1 DEF ResultSound
<1> QED  BY <1>6, <1>8, <1>9, <1>10, <1>11, <1>12 DEF QuestionInv

\* A cancelled turn runs no further call.
LEMMA CancelCallsStep ==
    ASSUME QuestionInv, CancelCalls
    PROVE  QuestionInv'
<1>1. /\ asker.at = "call" /\ talk' = Settle(talk, Unresolved(talk), "not_executed")
      /\ asker' = [asker EXCEPT !.at = "ending"] /\ journal' = journal
      /\ question' = question /\ app' = app
  BY DEF CancelCalls
<1>2. question.request = NoCall /\ \A id \in Unresolved(talk) : ~Asked(id)
  <2>1. question.request = NoCall
    BY <1>1 DEF QuestionInv, RequestSound
  <2>2. NoCall \notin Unresolved(talk)
    BY QuestionFacts, QuestionsAssumption DEF QuestionInv
  <2> QED  BY <2>1, <2>2 DEF QuestionInv, AskedSound
<1>3. asker' \in AskerState /\ asker'.at = "ending" /\ asker'.cancelled = asker.cancelled
  BY <1>1, QuestionFacts, AskerMoves DEF QuestionInv, Place, AskerIs
<1> QED  BY <1>1, <1>2, <1>3, SettledUnasked

\* The result cannot be saved: no further call runs.
LEMMA SaveResultFailsStep ==
    ASSUME QuestionInv, SaveResultFails
    PROVE  QuestionInv'
<1>1. /\ asker.at = "save" /\ talk' = Settle(talk, Unresolved(talk), "not_executed")
      /\ asker' = [asker EXCEPT !.at = "ending"] /\ journal' = journal
      /\ question' = question /\ app' = app
  BY DEF SaveResultFails
<1>2. question.request = NoCall /\ \A id \in Unresolved(talk) : ~Asked(id)
  <2>1. question.request = NoCall
    BY <1>1 DEF QuestionInv, RequestSound
  <2>2. NoCall \notin Unresolved(talk)
    BY QuestionFacts, QuestionsAssumption DEF QuestionInv
  <2> QED  BY <2>1, <2>2 DEF QuestionInv, AskedSound
<1>3. asker' \in AskerState /\ asker'.at = "ending" /\ asker'.cancelled = asker.cancelled
  BY <1>1, QuestionFacts, AskerMoves DEF QuestionInv, Place, AskerIs
<1> QED  BY <1>1, <1>2, <1>3, SettledUnasked

\* A suspended question stays without a result.
LEMMA PreserveStep ==
    ASSUME QuestionInv, Preserve
    PROVE  QuestionInv'
<1>1. PICK ids : ids = Unresolved(talk) \ {question.request}
  OBVIOUS
<1>2. /\ asker.at = "look" /\ talk' = Settle(talk, ids, "not_executed")
      /\ asker' = [asker EXCEPT !.at = "ended"]
      /\ journal' \in {journal, [journal EXCEPT !.talk = talk']}
      /\ question' = question /\ app' = app
  BY <1>1 DEF Preserve
<1>3. ids \in SUBSET Unresolved(talk) /\ question.request \notin ids /\ \A id \in ids : ~Asked(id)
  BY <1>1 DEF QuestionInv, AskedSound
<1>4. asker' \in AskerState /\ asker'.at = "ended" /\ asker'.cancelled = asker.cancelled
  BY <1>2, QuestionFacts, AskerMoves DEF QuestionInv, Place, AskerIs
<1> QED  BY <1>2, <1>3, <1>4, SettledUnasked

\* What the invariant says, part by part.
LEMMA QuestionParts ==
    ASSUME QuestionInv
    PROVE  /\ QuestionTypeOK /\ SavedSound /\ AskedSound /\ RequestSound
           /\ OutcomeSound /\ StopSound /\ ResultSound
BY DEF QuestionInv

\* A document of the journal with another round, or with another event.
LEMMA JournalWith ==
    ASSUME journal \in Journal, NEW t \in Talk, NEW e \in QuestionEvent
    PROVE  /\ [journal EXCEPT !.talk = t] \in Journal
           /\ [journal EXCEPT !.talk = t].talk = t
           /\ [journal EXCEPT !.talk = t].events = journal.events
           /\ [journal EXCEPT !.events = @ \cup {e}] \in Journal
           /\ [journal EXCEPT !.events = @ \cup {e}].talk = journal.talk
           /\ [journal EXCEPT !.events = @ \cup {e}].events = journal.events \cup {e}
<1>1. PICK d \in Journal : d = journal
  OBVIOUS
<1>2. PICK es : es = d.events \cup {e}
  OBVIOUS
<1>3. es \in SUBSET QuestionEvent
  BY <1>2 DEF Journal
<1>4. /\ [d EXCEPT !.talk = t] \in Journal /\ [d EXCEPT !.talk = t].talk = t
      /\ [d EXCEPT !.talk = t].events = d.events
      /\ [d EXCEPT !.events = es] \in Journal /\ [d EXCEPT !.events = es].talk = d.talk
      /\ [d EXCEPT !.events = es].events = es
  BY ONLY d \in Journal, t \in Talk, <1>3 DEF Journal
<1> QED  BY <1>1, <1>2, <1>4

\* The saved round changes, and the events stay.
LEMMA SavedWith ==
    ASSUME journal \in Journal, NEW t \in Talk
    PROVE  /\ [journal EXCEPT !.talk = t] \in Journal
           /\ [journal EXCEPT !.talk = t].talk = t
           /\ [journal EXCEPT !.talk = t].events = journal.events
<1>1. PICK d \in Journal : d = journal
  OBVIOUS
<1>2. /\ [d EXCEPT !.talk = t] \in Journal /\ [d EXCEPT !.talk = t].talk = t
      /\ [d EXCEPT !.talk = t].events = d.events
  BY ONLY d \in Journal, t \in Talk DEF Journal
<1> QED  BY <1>1, <1>2

\* The model calls: a round of which nothing was asked.
LEMMA NewRoundStep ==
    ASSUME QuestionInv, NewRound
    PROVE  QuestionInv'
<1>1. /\ QuestionTypeOK /\ SavedSound /\ AskedSound /\ RequestSound /\ StopSound /\ ResultSound
      /\ talk \in Talk /\ journal \in Journal /\ talk.round \in Nat
      /\ journal.events \in SUBSET QuestionEvent
  BY QuestionParts, QuestionFacts
<1>2. PICK calls \in Rounds : talk' = [Blank EXCEPT !.round = talk.round + 1, !.calls = calls]
  BY DEF NewRound
<1>3. /\ asker.at = "idle" /\ app.at = "up" /\ talk.round < MaxRounds
      /\ journal' = [journal EXCEPT !.talk = talk'] /\ asker' = [AskerIdle EXCEPT !.at = "call"]
      /\ question' = question /\ app' = app
  BY DEF NewRound
<1>4. PICK n : n = talk.round + 1
  OBVIOUS
<1>5. n \in 0..MaxRounds /\ n \in Nat /\ n # 0 /\ talk.round < n
  BY <1>1, <1>3, <1>4, QuestionsAssumption
<1>6. /\ talk' \in Talk /\ talk'.round = n /\ talk'.calls = calls
      /\ \A id \in CallId : talk'.results[id] = NoReply
  <2>1. PICK rs : rs = [id \in CallId |-> NoReply]
    OBVIOUS
  <2>2. rs \in [CallId -> Outcome \cup {NoReply}]
    BY <2>1
  <2>3. PICK b : b = [round |-> 0, calls |-> <<>>, results |-> rs]
    OBVIOUS
  <2>4. [b EXCEPT !.round = n, !.calls = calls] \in Talk
        /\ [b EXCEPT !.round = n, !.calls = calls].round = n
        /\ [b EXCEPT !.round = n, !.calls = calls].calls = calls
        /\ [b EXCEPT !.round = n, !.calls = calls].results = rs
    BY ONLY <2>2, <2>3, <1>5, calls \in Rounds DEF Talk
  <2>5. Blank = b
    BY <2>1, <2>3 DEF Blank
  <2> QED  BY <1>2, <1>4, <2>1, <2>4, <2>5
<1>7. journal' \in Journal /\ journal'.talk = talk' /\ journal'.events = journal.events
  BY <1>1, <1>3, <1>6, SavedWith
<1>8. asker' \in AskerState /\ asker'.at = "call" /\ asker'.cancelled = FALSE
  BY <1>3, AskerStarts DEF Place, AskerIs
<1>9. (\A id : ~Asked(id)') /\ (\A id, r : ~Answered(id, r)')
  <2>1. \A e \in journal.events : e.round # n
    BY <1>1, <1>5 DEF SavedSound, QuestionEvent
  <2> QED  BY <1>6, <1>7, <2>1 DEF Asked, Answered, AskEvent, AnswerEvent
<1>10. /\ Unresolved(talk)' # {} /\ CallsOf(talk)' \subseteq CallId
  <2>1. calls \in Seq(CallId) /\ calls # <<>>
    BY QuestionsAssumption
  <2>2. 1 \in DOMAIN calls /\ \A i \in DOMAIN calls : calls[i] \in CallId
    BY <2>1
  <2>3. calls[1] \in CallsOf(talk)' /\ CallsOf(talk)' \subseteq CallId
    BY <1>6, <2>2 DEF CallsOf
  <2> QED  BY <1>6, <2>2, <2>3 DEF Unresolved
<1>11. QuestionTypeOK'
  BY <1>1, <1>3, <1>6, <1>7, <1>8, QuestionTypes, NextQuestionTypes
<1>12. SavedSound'
  <2>1. \A e \in journal'.events : e.round <= talk'.round
    BY <1>1, <1>5, <1>6, <1>7 DEF SavedSound, QuestionEvent
  <2> QED  BY <1>5, <1>6, <1>7, <1>9, <2>1 DEF SavedSound
<1>13. AskedSound'
  BY <1>9, <1>10 DEF AskedSound
<1>14. RequestSound' /\ OutcomeSound'
  BY <1>1, <1>3, <1>8 DEF RequestSound, OutcomeSound
<1>15. StopSound'
  BY <1>1, <1>3, <1>8 DEF StopSound, RequestSound
<1>16. ResultSound'
  <2>1. NoReply \notin Reply /\ NoReply # "cancelled"
    BY QuestionsAssumption
  <2> QED  BY <1>6, <1>10, <2>1 DEF ResultSound
<1> QED  BY <1>11, <1>12, <1>13, <1>14, <1>15, <1>16 DEF QuestionInv

\* begin: the question is on disk before anybody sees it.
LEMMA AskBeginStep ==
    ASSUME QuestionInv, AskBegin
    PROVE  QuestionInv'
<1>1. /\ QuestionTypeOK /\ SavedSound /\ AskedSound /\ RequestSound /\ StopSound /\ ResultSound
      /\ talk \in Talk /\ journal \in Journal /\ question \in QuestionState /\ asker \in AskerState
      /\ talk.round \in 0..MaxRounds /\ Unresolved(talk) \subseteq CallId
      /\ CallsOf(talk) \subseteq CallId
  BY QuestionParts, QuestionFacts
<1>2. /\ asker.at = "call" /\ question.available /\ question.request = NoCall
      /\ talk' = talk /\ app' = app
  BY DEF AskBegin
<1>3. CASE HasOutcome("error") /\ journal' = journal /\ question' = question
  BY <1>2, <1>3, WorkerHas, OutcomesApart DEF Unmoved
<1>4. CASE /\ journal' = [journal EXCEPT !.events = @ \cup {AskEvent(talk, Current)}]
           /\ question' = [question EXCEPT !.request = Current, !.reply = NoReply, !.suspended = FALSE]
           /\ asker' = [asker EXCEPT !.at = "emit"]
  <2>1. Current \in Unresolved(talk) /\ Current \in CallId /\ Current # NoCall
    BY <1>1, <1>2, CurrentIsUnresolved, QuestionsAssumption DEF AskedSound
  <2>2. talk.round \in 1..MaxRounds
    BY <1>1, <1>2 DEF SavedSound
  <2>3. PICK e \in QuestionEvent : e = AskEvent(talk, Current)
    BY <2>1, <2>2 DEF QuestionEvent, AskEvent
  <2>4. e.id = Current /\ e.round = talk.round /\ e.reply = NoReply
    BY <2>3 DEF AskEvent
  <2>5. /\ journal' \in Journal /\ journal'.talk = journal.talk
        /\ journal'.events = journal.events \cup {e}
    BY <1>1, <1>4, <2>3, JournalWith
  <2>6. /\ question' \in QuestionState /\ question'.request = Current
        /\ question'.reply = NoReply /\ question'.available = question.available
        /\ question'.suspended = FALSE
    BY <1>1, <1>4, <2>1, QuestionPut DEF QuestionIs
  <2>7. asker' \in AskerState /\ asker'.at = "emit" /\ asker'.cancelled = asker.cancelled
    BY <1>1, <1>4, AskerMoves DEF Place, AskerIs
  <2>8. /\ \A id : Asked(id)' <=> (Asked(id) \/ id = Current)
        /\ \A id : \A r \in Reply : Answered(id, r)' <=> Answered(id, r)
    <3>1. ASSUME NEW id PROVE Asked(id)' <=> (Asked(id) \/ id = Current)
      <4>1. AskEvent(talk, id) = e <=> id = Current
        BY <2>3 DEF AskEvent
      <4> QED  BY <1>2, <2>5, <4>1 DEF Asked, AskEvent
    <3>2. ASSUME NEW id, NEW r \in Reply PROVE Answered(id, r)' <=> Answered(id, r)
      <4>1. AnswerEvent(talk, id, r) # e
        BY <2>3, QuestionsAssumption DEF AskEvent, AnswerEvent
      <4> QED  BY <1>2, <2>5, <4>1 DEF Answered, AnswerEvent
    <3> QED  BY <3>1, <3>2
  <2>9. \A id \in Unresolved(talk) : ~Asked(id)
    BY <1>1, <1>2, QuestionsAssumption DEF AskedSound
  <2>10. \A r \in Reply : ~Answered(Current, r)
    BY <1>1, <2>1, <2>9 DEF SavedSound
  <2>11. /\ Current' = Current /\ Unresolved(talk)' = Unresolved(talk)
         /\ CallsOf(talk)' = CallsOf(talk) /\ journal.talk = talk
         /\ Unresolved(journal.talk)' = Unresolved(talk)
         /\ Stopped' <=> Stopped
    BY <1>1, <1>2, <2>5 DEF Current, Unresolved, CallsOf, SavedSound, Stopped
  <2>12. QuestionTypeOK'
    BY <1>1, <1>2, <2>5, <2>6, <2>7, QuestionTypes, NextQuestionTypes
  <2>13. SavedSound'
    <3>1. \A d \in journal'.events : d.round <= talk'.round
      BY <1>1, <1>2, <2>4, <2>5 DEF SavedSound
    <3>2. \A id \in CallId, r \in Reply : Answered(id, r)' => Asked(id)'
      BY <1>1, <2>8 DEF SavedSound
    <3>3. talk'.round # 0 /\ asker'.at # "call"
      BY <1>2, <2>2, <2>7
    <3> QED  BY <1>1, <1>2, <2>5, <3>1, <3>2, <3>3 DEF SavedSound
  <2>14. AskedSound'
    <3>1. \A id \in Unresolved(talk)' : Asked(id)' => id = question'.request
      BY <2>6, <2>8, <2>9, <2>11
    <3>2. \A i, j \in Unresolved(journal.talk)' : Asked(i)' /\ Asked(j)' => i = j
      BY <2>11, <3>1
    <3> QED  BY <2>1, <2>11, <3>1, <3>2 DEF AskedSound
  <2>15. RequestSound'
    BY <2>1, <2>6, <2>7, <2>8, <2>10, <2>11 DEF RequestSound
  <2>16. OutcomeSound' /\ StopSound'
    BY <1>1, <1>2, <2>6, <2>7, <2>11 DEF OutcomeSound, StopSound
  <2>17. ResultSound'
    <3>1. talk.results[Current] = NoReply
      BY <2>1 DEF Unresolved
    <3>2. SUFFICES ASSUME NEW id \in CallsOf(talk)
                   PROVE  /\ talk.results[id] \in Reply => Answered(id, talk.results[id])'
                          /\ talk.results[id] = "cancelled" => Stopped
                          /\ Asked(id)' /\ talk.results[id] # NoReply
                               => talk.results[id] \in Reply \cup {"cancelled", "error"}
      BY <1>2, <2>11 DEF ResultSound
    <3>3. PICK r : r = talk.results[id]
      OBVIOUS
    <3>4. /\ r \in Reply => Answered(id, r)
          /\ r = "cancelled" => Stopped
          /\ Asked(id) /\ r # NoReply => r \in Reply \cup {"cancelled", "error"}
      BY <1>1, <3>3 DEF ResultSound
    <3>5. Asked(id)' /\ r # NoReply => Asked(id)
      BY <2>8, <3>1, <3>3
    <3>6. r \in Reply => Answered(id, r)'
      BY <2>8, <3>4
    <3> QED  BY <1>2, <3>3, <3>4, <3>5, <3>6
  <2> QED  BY <2>12, <2>13, <2>14, <2>15, <2>16, <2>17 DEF QuestionInv
<1> QED  BY <1>3, <1>4 DEF AskBegin

\* The outcome becomes the call's result.
LEMMA RecordStep ==
    ASSUME QuestionInv, Record
    PROVE  QuestionInv'
<1>1. /\ QuestionTypeOK /\ SavedSound /\ AskedSound /\ RequestSound /\ OutcomeSound
      /\ StopSound /\ ResultSound
      /\ talk \in Talk /\ journal \in Journal /\ question \in QuestionState /\ asker \in AskerState
      /\ CallsOf(talk) \subseteq CallId /\ Unresolved(talk) \subseteq CallsOf(talk)
  BY QuestionParts, QuestionFacts, CallsAreCalls
<1>2. /\ asker.at = "record" /\ talk' = Settle(talk, {Current}, asker.outcome)
      /\ asker' = [asker EXCEPT !.at = "complete"]
      /\ journal' = journal /\ question' = question /\ app' = app
  BY DEF Record
<1>3. PICK o \in Outcome : o = asker.outcome /\ o \in Reply \cup {"cancelled", "unavailable", "error"}
  BY <1>1, <1>2, OutcomesApart DEF OutcomeSound
<1>4. PICK c \in Unresolved(talk) : c = Current
  BY <1>1, <1>2, CurrentIsUnresolved DEF AskedSound
<1>5. /\ talk' \in Talk /\ talk'.round = talk.round /\ talk'.calls = talk.calls
      /\ \A id \in CallId : talk'.results[id] = IF id = c THEN o ELSE talk.results[id]
      /\ CallsOf(talk)' = CallsOf(talk) /\ Unresolved(talk)' = Unresolved(talk) \ {c}
  BY <1>1, <1>2, <1>3, <1>4, Settles
<1>6. asker' \in AskerState /\ asker'.at = "complete" /\ asker'.cancelled = asker.cancelled
  BY <1>1, <1>2, AskerMoves DEF Place, AskerIs
<1>7. /\ \A id : Asked(id)' <=> Asked(id)
      /\ \A id, r : Answered(id, r)' <=> Answered(id, r)
      /\ Stopped' <=> Stopped
      /\ Unresolved(journal.talk)' = Unresolved(journal.talk)
  <2>1. Unresolved(journal.talk)' = Unresolved(journal.talk)
    BY <1>2 DEF Unresolved, CallsOf
  <2> QED  BY <1>2, <1>5, <2>1 DEF Asked, Answered, AskEvent, AnswerEvent, Stopped
<1>8. QuestionTypeOK'
  BY <1>1, <1>2, <1>5, <1>6, QuestionTypes, NextQuestionTypes
<1>9. talk.results[c] = NoReply /\ c \in CallId /\ c # NoCall
  BY <1>1, <1>4, QuestionsAssumption DEF Unresolved
<1>10. SavedSound'
  <2>1. \A id \in CallId : journal'.talk.results[id] \in {NoReply, talk'.results[id]}
    <3>1. SUFFICES ASSUME NEW id \in CallId
                   PROVE  journal.talk.results[id] \in {NoReply, talk'.results[id]}
      BY <1>2
    <3>2. journal.talk.results[id] \in {NoReply, talk.results[id]}
      BY <1>1 DEF SavedSound
    <3> QED  BY <1>5, <1>9, <3>2
  <2> QED  BY <1>1, <1>2, <1>5, <1>6, <1>7, <2>1 DEF SavedSound
<1>11. AskedSound'
  BY <1>1, <1>2, <1>5, <1>6, <1>7 DEF AskedSound
<1>12. RequestSound'
  <2>1. question.request # NoCall => question.request = c
    BY <1>1, <1>2, <1>4 DEF RequestSound
  <2> QED  BY <1>1, <1>2, <1>5, <1>6, <1>7, <2>1 DEF RequestSound
<1>13. OutcomeSound' /\ StopSound'
  BY <1>1, <1>2, <1>6, <1>7 DEF OutcomeSound, StopSound
<1>14. ResultSound'
  <2>1. SUFFICES ASSUME NEW id \in CallsOf(talk), NEW r, r = talk'.results[id]
                 PROVE  /\ r \in Reply => Answered(id, r)
                        /\ r = "cancelled" => Stopped
                        /\ Asked(id) /\ r # NoReply => r \in Reply \cup {"cancelled", "error"}
    BY <1>5, <1>7 DEF ResultSound
  <2>2. CASE id = c
    <3>1. r = o
      BY <1>5, <1>9, <2>1, <2>2
    <3>2. o \in Reply => Answered(c, o)
      BY <1>1, <1>2, <1>3, <1>4 DEF OutcomeSound
    <3>3. o = "cancelled" => Stopped
      BY <1>1, <1>2, <1>3 DEF OutcomeSound
    <3>4. Asked(c) => question.request = c
      BY <1>1 DEF AskedSound
    <3>5. o = "unavailable" => question.request = NoCall
      BY <1>1, <1>2, <1>3 DEF OutcomeSound
    <3> QED  BY <1>3, <1>9, <2>2, <3>1, <3>2, <3>3, <3>4, <3>5
  <2>3. CASE id # c
    <3>1. r = talk.results[id]
      BY <1>1, <1>5, <2>1, <2>3
    <3> QED  BY <1>1, <3>1 DEF ResultSound
  <2> QED  BY <2>2, <2>3
<1> QED  BY <1>8, <1>10, <1>11, <1>12, <1>13, <1>14 DEF QuestionInv

\* The question is over.
LEMMA CompleteStep ==
    ASSUME QuestionInv, Complete
    PROVE  QuestionInv'
<1>1. /\ QuestionTypeOK /\ SavedSound /\ AskedSound /\ RequestSound
      /\ StopSound /\ ResultSound
      /\ talk \in Talk /\ journal \in Journal /\ question \in QuestionState /\ asker \in AskerState
      /\ Unresolved(talk) \subseteq CallId
  BY QuestionParts, QuestionFacts
<1>2. /\ asker.at = "complete" /\ asker' = [asker EXCEPT !.at = "save"]
      /\ question' = [question EXCEPT !.request = NoCall, !.reply = NoReply]
      /\ Unmoved /\ talk' = talk /\ journal' = journal /\ app' = app
  BY DEF Complete, Unmoved
<1>3. asker' \in AskerState /\ asker'.at = "save" /\ asker'.cancelled = asker.cancelled
  BY <1>1, <1>2, AskerMoves DEF Place, AskerIs
<1>4. question' \in QuestionState /\ question'.request = NoCall /\ question'.reply = NoReply
      /\ question'.available = question.available
  BY <1>1, <1>2, QuestionTaken DEF QuestionIs
<1>5. /\ \A id : Asked(id)' <=> Asked(id)
      /\ Unresolved(talk)' = Unresolved(talk)
      /\ Unresolved(journal.talk)' = Unresolved(journal.talk)
  BY <1>2, UnmovedSame
<1>6. QuestionTypeOK'
  BY <1>1, <1>2, <1>3, <1>4, QuestionTypes, NextQuestionTypes
<1>7. SavedSound' /\ ResultSound'
  BY <1>1, <1>2, <1>3, UnmovedSound
<1>8. \A id \in Unresolved(talk) : ~Asked(id)
  <2>1. \A id \in Unresolved(talk) : Asked(id) => id = question.request /\ id # NoCall
    BY <1>1, QuestionsAssumption DEF AskedSound
  <2> QED  BY <1>1, <1>2, <2>1 DEF RequestSound
<1>9. AskedSound'
  <2>1. \A id \in Unresolved(talk)' : ~Asked(id)'
    BY <1>5, <1>8
  <2>2. \A i, j \in Unresolved(journal.talk)' : Asked(i)' /\ Asked(j)' => i = j
    BY <1>1, <1>5 DEF AskedSound
  <2> QED  BY <1>3, <2>1, <2>2 DEF AskedSound
<1>10. RequestSound' /\ OutcomeSound'
  BY <1>3, <1>4 DEF RequestSound, OutcomeSound
<1>11. StopSound'
  BY <1>1, <1>2, <1>3, <1>4 DEF StopSound, Stopped
<1> QED  BY <1>6, <1>7, <1>9, <1>10, <1>11 DEF QuestionInv

\* The round is saved, or, at a turn's end, may not be.
LEMMA RoundIsSaved ==
    ASSUME QuestionInv, asker.at \in {"save", "ending"}, talk' = talk, question' = question,
           app' = app, journal' \in {journal, [journal EXCEPT !.talk = talk]},
           asker' \in AskerState, asker'.cancelled \in {asker.cancelled, FALSE},
           \/ asker'.at = "idle"
           \/ asker'.at = "call" /\ Unresolved(talk) # {} /\ journal' = [journal EXCEPT !.talk = talk]
    PROVE  QuestionInv'
<1>1. /\ QuestionTypeOK /\ SavedSound /\ AskedSound /\ RequestSound
      /\ StopSound /\ ResultSound
      /\ talk \in Talk /\ journal \in Journal
  BY QuestionParts, QuestionFacts
<1>2. /\ journal' \in Journal /\ journal'.events = journal.events
      /\ journal'.talk \in {journal.talk, talk}
      /\ asker'.at = "call" => journal'.talk = talk
  BY <1>1, SavedWith
<1>3. /\ \A id : Asked(id)' <=> Asked(id)
      /\ \A id, r : Answered(id, r)' <=> Answered(id, r)
      /\ Unresolved(talk)' = Unresolved(talk) /\ CallsOf(talk)' = CallsOf(talk)
      /\ Stopped' <=> Stopped
  BY <1>2 DEF Asked, Answered, Unresolved, CallsOf, Stopped
<1>4. QuestionTypeOK'
  BY <1>1, <1>2, QuestionTypes, NextQuestionTypes
<1>5. SavedSound'
  <2>1. \A id \in CallId : journal'.talk.results[id] \in {NoReply, talk.results[id]}
    BY <1>1, <1>2 DEF SavedSound
  <2>2. journal'.talk.round = talk.round /\ journal'.talk.calls = talk.calls
    BY <1>1, <1>2 DEF SavedSound
  <2> QED  BY <1>1, <1>2, <1>3, <2>1, <2>2 DEF SavedSound
<1>6. AskedSound'
  <2>1. \A id \in Unresolved(talk) : Asked(id) => id = question.request
    BY <1>1 DEF AskedSound
  <2>2. ASSUME NEW i \in Unresolved(journal.talk)', NEW j \in Unresolved(journal.talk)', Asked(i)', Asked(j)'
        PROVE  i = j
    <3>1. CASE journal'.talk = journal.talk
      <4>1. i \in Unresolved(journal.talk) /\ j \in Unresolved(journal.talk)
        BY <2>2, <3>1 DEF Unresolved, CallsOf
      <4> QED  BY <1>1, <1>3, <2>2, <4>1 DEF AskedSound
    <3>2. CASE journal'.talk = talk
      <4>1. i \in Unresolved(talk) /\ j \in Unresolved(talk)
        BY <2>2, <3>2 DEF Unresolved, CallsOf
      <4> QED  BY <1>3, <2>1, <2>2, <4>1
    <3> QED  BY <1>2, <3>1, <3>2
  <2>3. asker'.at \in {"call", "continue", "emit", "wait", "look", "record"} => Unresolved(talk)' # {}
    BY <1>3
  <2>4. \A id \in Unresolved(talk)' : Asked(id)' => id = question'.request
    BY <1>3, <2>1
  <2> QED  BY <2>2, <2>3, <2>4 DEF AskedSound
<1>7. RequestSound' /\ OutcomeSound'
  BY <1>1 DEF RequestSound, OutcomeSound
<1>8. StopSound'
  BY <1>1, <1>3 DEF StopSound
<1>9. ResultSound'
  BY <1>1, <1>3 DEF ResultSound
<1> QED  BY <1>4, <1>5, <1>6, <1>7, <1>8, <1>9 DEF QuestionInv

\* The result is saved.
LEMMA SaveResultStep ==
    ASSUME QuestionInv, SaveResult
    PROVE  QuestionInv'
<1>1. /\ asker.at = "save" /\ journal' = [journal EXCEPT !.talk = talk]
      /\ talk' = talk /\ question' = question /\ app' = app
  BY DEF SaveResult
<1>2. asker \in AskerState
  BY QuestionFacts DEF QuestionInv
<1>3. CASE Unresolved(talk) = {} /\ asker' = AskerIdle
  <2>1. asker' \in AskerState /\ asker'.at = "idle" /\ asker'.cancelled = FALSE
    BY <1>3, AskerStarts DEF AskerIs, Place
  <2> QED  BY <1>1, <2>1, RoundIsSaved
<1>4. CASE /\ Unresolved(talk) # {}
           /\ asker' = [asker EXCEPT !.at = "call", !.outcome = NoReply, !.resumed = FALSE]
  <2>1. asker' \in AskerState /\ asker'.at = "call" /\ asker'.cancelled = asker.cancelled
    BY <1>2, <1>4, AskerNextCall DEF AskerIs
  <2> QED  BY <1>1, <1>4, <2>1, RoundIsSaved
<1> QED  BY <1>3, <1>4 DEF SaveResult

\* The turn ends.
LEMMA EndTurnStep ==
    ASSUME QuestionInv, EndTurn
    PROVE  QuestionInv'
<1>1. asker' \in AskerState /\ asker'.at = "idle" /\ asker'.cancelled = FALSE
  BY AskerStarts DEF AskerIs, Place, EndTurn
<1> QED  BY <1>1, RoundIsSaved DEF EndTurn

-----------------------------------------------------------------------------
(* Steps of the user and of the process. *)

\* answer and dismiss: the reply is on disk before the worker may see it.
LEMMA AnswerQuestionStep ==
    ASSUME QuestionInv, AnswerQuestion
    PROVE  QuestionInv'
<1>1. /\ QuestionTypeOK /\ SavedSound /\ AskedSound /\ RequestSound /\ OutcomeSound
      /\ StopSound /\ ResultSound
      /\ talk \in Talk /\ journal \in Journal /\ question \in QuestionState /\ asker \in AskerState
      /\ talk.round \in 0..MaxRounds /\ Unresolved(talk) \subseteq CallId
      /\ CallsOf(talk) \subseteq CallId /\ question.request \in CallId \cup {NoCall}
  BY QuestionParts, QuestionFacts
<1>2. PICK q \in CallId : q = question.request
  BY <1>1 DEF AnswerQuestion
<1>3. /\ app.at = "up" /\ question.request # NoCall /\ question.reply = NoReply
      /\ talk' = talk /\ asker' = asker /\ app' = app
  BY DEF AnswerQuestion
<1>4. PICK reply \in Reply :
        /\ journal' = [journal EXCEPT !.events = @ \cup {AnswerEvent(talk, question.request, reply)}]
        /\ question' = [question EXCEPT !.reply = reply]
  BY DEF AnswerQuestion
<1>5. talk.round \in 1..MaxRounds
  <2>1. asker.at # "idle"
    BY <1>1, <1>3 DEF RequestSound
  <2> QED  BY <1>1, <2>1 DEF SavedSound
<1>6. PICK e \in QuestionEvent : e = AnswerEvent(talk, q, reply)
  BY <1>5 DEF QuestionEvent, AnswerEvent
<1>7. /\ journal' \in Journal /\ journal'.talk = journal.talk
      /\ journal'.events = journal.events \cup {e} /\ e.round = talk.round
  BY <1>1, <1>2, <1>4, <1>6, JournalWith DEF AnswerEvent
<1>8. /\ question' \in QuestionState /\ question'.request = q /\ question'.reply = reply
      /\ question'.available = question.available /\ question'.suspended = question.suspended
  BY <1>1, <1>2, <1>4, QuestionReplied DEF QuestionIs
<1>9. /\ \A id : Asked(id)' <=> Asked(id)
      /\ \A id, r : Answered(id, r)' <=> (Answered(id, r) \/ (id = q /\ r = reply))
  <2>1. ASSUME NEW id PROVE Asked(id)' <=> Asked(id)
    <3>1. AskEvent(talk, id) # e
      BY <1>6, QuestionsAssumption DEF AskEvent, AnswerEvent
    <3> QED  BY <1>3, <1>7, <3>1 DEF Asked, AskEvent
  <2>2. ASSUME NEW id, NEW r PROVE Answered(id, r)' <=> (Answered(id, r) \/ (id = q /\ r = reply))
    <3>1. AnswerEvent(talk, id, r) = e <=> id = q /\ r = reply
      BY <1>6 DEF AnswerEvent
    <3> QED  BY <1>3, <1>7, <3>1 DEF Answered, AnswerEvent
  <2> QED  BY <2>1, <2>2
<1>10. /\ Current' = Current /\ Unresolved(talk)' = Unresolved(talk)
       /\ CallsOf(talk)' = CallsOf(talk) /\ (Stopped' <=> Stopped)
       /\ Unresolved(journal.talk)' = Unresolved(journal.talk)
  BY <1>3, <1>7 DEF Current, Unresolved, CallsOf, Stopped
<1>11. Asked(q)
  BY <1>1, <1>2, <1>3 DEF RequestSound
<1>12. QuestionTypeOK'
  BY <1>1, <1>3, <1>7, <1>8, QuestionTypes, NextQuestionTypes
<1>13. SavedSound'
  <2>1. \A d \in journal'.events : d.round <= talk'.round
    BY <1>1, <1>3, <1>5, <1>7 DEF SavedSound
  <2>2. \A id \in CallId, r \in Reply : Answered(id, r)' => Asked(id)'
    BY <1>1, <1>9, <1>11 DEF SavedSound
  <2> QED  BY <1>1, <1>3, <1>7, <2>1, <2>2 DEF SavedSound
<1>14. AskedSound'
  BY <1>1, <1>2, <1>3, <1>8, <1>9, <1>10 DEF AskedSound
<1>15. RequestSound'
  BY <1>1, <1>2, <1>3, <1>8, <1>9, <1>10, QuestionsAssumption DEF RequestSound
<1>16. OutcomeSound'
  <2>1. ~Suspended
    BY <1>1, <1>3 DEF StopSound, Suspended
  <2>2. SUFFICES ASSUME asker.at \in {"look", "record"}
                 PROVE  /\ asker.outcome \in Reply \cup {"cancelled", "unavailable", "error"}
                        /\ asker.outcome \in Reply => Answered(Current, asker.outcome)'
                        /\ asker.outcome = "cancelled" => Stopped
                        /\ asker.outcome = "unavailable" => question'.request = NoCall
    BY <1>3, <1>10 DEF OutcomeSound
  <2>3. asker.outcome \in Reply => Answered(Current, asker.outcome)
    BY <1>1, <2>2 DEF OutcomeSound
  <2>4. PICK c, o : c = Current /\ o = asker.outcome
    OBVIOUS
  <2>5. Answered(c, o) => Answered(c, o)'
    BY <1>9
  <2> QED  BY <1>1, <1>2, <1>3, <1>8, <1>10, <2>1, <2>2, <2>3, <2>4, <2>5 DEF OutcomeSound
<1>17. StopSound'
  BY <1>1, <1>2, <1>3, <1>8, <1>10, QuestionsAssumption DEF StopSound
<1>18. ResultSound'
  <2>1. SUFFICES ASSUME NEW id \in CallsOf(talk), NEW r, r = talk.results[id]
                 PROVE  /\ r \in Reply => Answered(id, r)'
                        /\ r = "cancelled" => Stopped
                        /\ Asked(id) /\ r # NoReply => r \in Reply \cup {"cancelled", "error"}
    BY <1>3, <1>9, <1>10 DEF ResultSound
  <2> QED  BY <1>1, <1>9, <2>1 DEF ResultSound
<1> QED  BY <1>12, <1>13, <1>14, <1>15, <1>16, <1>17, <1>18 DEF QuestionInv

\* The user's side moves: what is asked and what it comes to stay as they are.
LEMMA UserMoves ==
    ASSUME QuestionInv, Unmoved,
           asker' \in AskerState, asker'.at = asker.at, asker'.outcome = asker.outcome,
           question' \in QuestionState, question'.request = question.request,
           question'.reply = question.reply,
           app' \in AppState, app.stopped \subseteq app'.stopped,
           Suspended => Suspended' \/ Stopped', StopSound'
    PROVE  QuestionInv'
<1>1. /\ QuestionTypeOK /\ SavedSound /\ AskedSound /\ RequestSound /\ OutcomeSound
      /\ StopSound /\ ResultSound /\ talk \in Talk /\ journal \in Journal
      /\ talk' = talk /\ journal' = journal
  BY QuestionParts, QuestionFacts DEF Unmoved
<1>2. /\ \A id : Asked(id)' <=> Asked(id)
      /\ \A id, r : Answered(id, r)' <=> Answered(id, r)
      /\ Current' = Current /\ Unresolved(talk)' = Unresolved(talk)
      /\ Unresolved(journal.talk)' = Unresolved(journal.talk)
  BY UnmovedSame
<1>3. Stopped => Stopped'
  BY <1>1 DEF Stopped
<1>4. QuestionTypeOK'
  BY <1>1, QuestionTypes, NextQuestionTypes
<1>5. SavedSound' /\ ResultSound'
  BY <1>1, UnmovedSound
<1>6. AskedSound'
  BY <1>1, <1>2 DEF AskedSound
<1>7. RequestSound'
  BY <1>1, <1>2 DEF RequestSound
<1>8. OutcomeSound'
  BY <1>1, <1>2, <1>3 DEF OutcomeSound
<1> QED  BY <1>4, <1>5, <1>6, <1>7, <1>8 DEF QuestionInv

AppIs(d, at, runs, halted) ==
    d \in AppState /\ d.at = at /\ d.runs = runs /\ d.stopped = halted

\* The user's side goes to another place.
LEMMA AppMoves ==
    ASSUME NEW d \in AppState, NEW at \in {"up", "quitting", "gone", "down"}
    PROVE  AppIs([d EXCEPT !.at = at], at, d.runs, d.stopped)
BY DEF AppState, AppIs

\* The user stops the turn.
LEMMA StopTurnStep ==
    ASSUME QuestionInv, StopTurn
    PROVE  QuestionInv'
<1>1. /\ QuestionTypeOK /\ SavedSound /\ StopSound
      /\ asker \in AskerState /\ question \in QuestionState /\ app \in AppState
      /\ talk.round \in 0..MaxRounds
  BY QuestionParts, QuestionFacts
<1>2. /\ app.at = "up" /\ asker.at # "idle" /\ Unmoved /\ question' = question /\ talk' = talk
      /\ asker' = [asker EXCEPT !.cancelled = TRUE]
      /\ app' = [app EXCEPT !.stopped = @ \cup {talk.round}]
  BY DEF StopTurn, Unmoved
<1>3. /\ asker' \in AskerState /\ asker'.at = asker.at /\ asker'.outcome = asker.outcome
  BY <1>1, <1>2, AskerCancelled DEF AskerIs
<1>4. talk.round \in 1..MaxRounds
  BY <1>1, <1>2 DEF SavedSound
<1>5. /\ app' \in AppState /\ app'.at = "up" /\ app'.stopped = app.stopped \cup {talk.round}
  <2>1. PICK d \in AppState : d = app
    BY <1>1
  <2>2. PICK s : s = d.stopped \cup {talk.round}
    OBVIOUS
  <2>3. s \in SUBSET (1..MaxRounds)
    BY <1>4, <2>2 DEF AppState
  <2>4. [d EXCEPT !.stopped = s] \in AppState /\ [d EXCEPT !.stopped = s].at = d.at
        /\ [d EXCEPT !.stopped = s].stopped = s
    BY ONLY d \in AppState, <2>3 DEF AppState
  <2> QED  BY <1>2, <2>1, <2>2, <2>4
<1>6. Stopped'
  BY <1>2, <1>5 DEF Stopped
<1>7. StopSound'
  BY <1>1, <1>2, <1>5, <1>6 DEF StopSound
<1>8. app.stopped \subseteq app'.stopped
  BY <1>5
<1> QED  BY <1>1, <1>2, <1>3, <1>5, <1>6, <1>7, <1>8, UserMoves

\* The interface begins to leave: the question is suspended.
LEMMA QuitStep ==
    ASSUME QuestionInv, Quit
    PROVE  QuestionInv'
<1>1. /\ QuestionTypeOK /\ StopSound
      /\ asker \in AskerState /\ question \in QuestionState /\ app \in AppState
      /\ question.suspended \in BOOLEAN
  BY QuestionParts, QuestionFacts
<1>2. PICK f \in BOOLEAN :
        f = IF talk.round \in app.stopped /\ asker.cancelled THEN question.suspended
            ELSE question.request # NoCall /\ question.reply = NoReply
  <2>1. (question.request # NoCall /\ question.reply = NoReply) \in BOOLEAN
    BY Zenon
  <2> QED  BY <1>1, <2>1
<1>3. /\ app.at = "up" /\ app' = [app EXCEPT !.at = "quitting"] /\ Unmoved /\ talk' = talk
      /\ asker' = asker /\ question' = [question EXCEPT !.available = FALSE, !.suspended = f]
  <2>1. QuitOrder[1] = "suspend"
    BY DEF QuitOrder
  <2>2. Quits("suspend")
    BY <2>1 DEF Quit
  <2>3. /\ asker' = asker
        /\ question' = [question EXCEPT !.available = FALSE,
              !.suspended = IF talk.round \in app.stopped /\ asker.cancelled THEN @
                            ELSE question.request # NoCall /\ question.reply = NoReply]
    BY <2>2 DEF Quits
  <2>4. question' = [question EXCEPT !.available = FALSE, !.suspended = f]
    BY <1>2, <2>3, Zenon DEF QuestionState
  <2> QED  BY <2>3, <2>4 DEF Quit, Unmoved
<1>4. /\ question' \in QuestionState /\ question'.available = FALSE /\ question'.suspended = f
      /\ question'.request = question.request /\ question'.reply = question.reply
  BY <1>1, <1>3, QuestionLeft DEF QuestionIs
<1>5. app' \in AppState /\ app'.at = "quitting" /\ app'.stopped = app.stopped
  BY <1>1, <1>3, AppMoves DEF AppIs
<1>6. Stopped' <=> Stopped
  BY <1>3, <1>5 DEF Stopped
<1>7. question.request # NoCall /\ question.reply = NoReply => f = TRUE \/ Stopped
  BY <1>2 DEF Stopped
<1>8. asker.cancelled => Stopped
  BY <1>1, <1>3 DEF StopSound
<1>9. StopSound'
  BY <1>3, <1>4, <1>5, <1>6, <1>7, <1>8 DEF StopSound
<1>10. Suspended => Suspended' \/ Stopped'
  BY <1>4, <1>6, <1>7 DEF Suspended
<1>11. app.stopped \subseteq app'.stopped
  BY <1>5
<1> QED  BY <1>1, <1>3, <1>4, <1>5, <1>9, <1>10, <1>11, UserMoves

\* Then the worker is told to stop.
LEMMA QuitGoesOnStep ==
    ASSUME QuestionInv, QuitGoesOn
    PROVE  QuestionInv'
<1>1. /\ QuestionTypeOK /\ StopSound
      /\ asker \in AskerState /\ question \in QuestionState /\ app \in AppState
  BY QuestionParts, QuestionFacts
<1>2. /\ app.at = "quitting" /\ app' = [app EXCEPT !.at = "gone"] /\ Unmoved /\ talk' = talk
      /\ question' = question /\ asker' = [asker EXCEPT !.cancelled = TRUE]
  <2>1. QuitOrder[2] = "cancel"
    BY DEF QuitOrder
  <2>2. Quits("cancel")
    BY <2>1 DEF QuitGoesOn
  <2> QED  BY <2>2 DEF Quits, QuitGoesOn, Unmoved
<1>3. asker' \in AskerState /\ asker'.at = asker.at /\ asker'.outcome = asker.outcome
  BY <1>1, <1>2, AskerCancelled DEF AskerIs
<1>4. app' \in AppState /\ app'.at = "gone" /\ app'.stopped = app.stopped
  BY <1>1, <1>2, AppMoves DEF AppIs
<1>5. (Stopped' <=> Stopped) /\ (Suspended' <=> Suspended)
  BY <1>2, <1>4 DEF Stopped, Suspended
<1>6. StopSound'
  BY <1>1, <1>2, <1>4, <1>5 DEF StopSound
<1>7. app.stopped \subseteq app'.stopped
  BY <1>4
<1> QED  BY <1>1, <1>2, <1>3, <1>4, <1>5, <1>6, <1>7, UserMoves

\* The process ends, or is killed.
LEMMA ProcessOverStep ==
    ASSUME QuestionInv, ProcessEnds \/ Crash
    PROVE  QuestionInv'
<1>1. /\ QuestionTypeOK /\ StopSound
      /\ asker \in AskerState /\ question \in QuestionState /\ app \in AppState
  BY QuestionParts, QuestionFacts
<1>2. /\ app' = [app EXCEPT !.at = "down"] /\ Unmoved /\ talk' = talk
      /\ question' = question /\ asker' = asker
  BY DEF ProcessEnds, Crash, Unmoved
<1>3. app' \in AppState /\ app'.at = "down" /\ app'.stopped = app.stopped
  BY <1>1, <1>2, AppMoves DEF AppIs
<1>4. (Stopped' <=> Stopped) /\ (Suspended' <=> Suspended)
  BY <1>2, <1>3 DEF Stopped, Suspended
<1>5. StopSound'
  BY <1>1, <1>2, <1>3, <1>4 DEF StopSound
<1>6. app.stopped \subseteq app'.stopped
  BY <1>3
<1> QED  BY <1>1, <1>2, <1>3, <1>4, <1>5, <1>6, UserMoves

-----------------------------------------------------------------------------
(* The session is opened again. *)

\* What is recovered of the journal: the question without a result, with its
\* saved reply if there is one.
LEMMA RecoveredIsAsked ==
    ASSUME QuestionInv
    PROVE  /\ \A q \in Recovered :
                 /\ q.id \in Unresolved(journal.talk) /\ q.id \in CallId /\ Asked(q.id)
                 /\ q.reply \in Reply \cup {NoReply}
                 /\ q.reply # NoReply => Answered(q.id, q.reply)
                 /\ q.reply = NoReply => \A r \in Reply : ~Answered(q.id, r)
           /\ \A id \in Unresolved(journal.talk) : Asked(id) => \E q \in Recovered : q.id = id
<1>1. /\ journal.events \in SUBSET QuestionEvent /\ Unresolved(journal.talk) \subseteq CallId
      /\ journal.talk.round = talk.round
  BY QuestionFacts DEF QuestionInv, SavedSound
<1>2. ASSUME NEW id
      PROVE  /\ Asked(id) <=> \E e \in journal.events : Recent(e) /\ e.id = id /\ e.reply = NoReply
             /\ \A r \in Reply : Answered(id, r) <=> r \in RecentReplies(id)
             /\ RecentReplies(id) \subseteq Reply
  <2>1. ASSUME NEW e \in journal.events
        PROVE  e = [id |-> e.id, round |-> e.round, reply |-> e.reply] /\ e.reply \in Reply \cup {NoReply}
    BY <1>1 DEF QuestionEvent
  <2>2. Asked(id) <=> \E e \in journal.events : Recent(e) /\ e.id = id /\ e.reply = NoReply
    BY <1>1, <2>1 DEF Asked, AskEvent, Recent
  <2>3. ASSUME NEW r \in Reply PROVE Answered(id, r) <=> r \in RecentReplies(id)
    <3>1. Answered(id, r) <=> \E e \in journal.events : Recent(e) /\ e.id = id /\ e.reply = r
      BY <1>1, <2>1 DEF Answered, AnswerEvent, Recent
    <3>2. r # NoReply
      BY QuestionsAssumption
    <3> QED  BY <3>1, <3>2 DEF RecentReplies
  <2>4. RecentReplies(id) \subseteq Reply
    BY <2>1 DEF RecentReplies
  <2> QED  BY <2>2, <2>3, <2>4
<1>3. ASSUME NEW q \in Recovered
      PROVE  /\ q.id \in Unresolved(journal.talk) /\ q.id \in CallId /\ Asked(q.id)
             /\ q.reply \in Reply \cup {NoReply}
             /\ q.reply # NoReply => Answered(q.id, q.reply)
             /\ q.reply = NoReply => \A r \in Reply : ~Answered(q.id, r)
  <2>1. /\ q.id \in Unresolved(journal.talk) /\ q.reply \in Reply \cup {NoReply}
        /\ \E e \in journal.events : Recent(e) /\ e.id = q.id /\ e.reply = NoReply
        /\ IF RecentReplies(q.id) = {} THEN q.reply = NoReply ELSE q.reply \in RecentReplies(q.id)
    BY DEF Recovered
  <2>2. NoReply \notin Reply
    BY QuestionsAssumption
  <2> QED  BY <1>1, <1>2, <2>1, <2>2
<1>4. ASSUME NEW id \in Unresolved(journal.talk), Asked(id)
      PROVE  \E q \in Recovered : q.id = id
  <2>1. PICK r : IF RecentReplies(id) = {} THEN r = NoReply ELSE r \in RecentReplies(id)
    OBVIOUS
  <2>2. r \in Reply \cup {NoReply}
    BY <1>2, <2>1
  <2>3. PICK q : q = [id |-> id, reply |-> r]
    OBVIOUS
  <2>4. q \in [id : Unresolved(journal.talk), reply : Reply \cup {NoReply}] /\ q.id = id /\ q.reply = r
    BY <2>2, <2>3
  <2>5. q \in Recovered
    BY <1>2, <1>4, <2>1, <2>4 DEF Recovered
  <2> QED  BY <2>4, <2>5
<1> QED  BY <1>3, <1>4

\* The call that is executed is one without a result, in this state and the next.
LEMMA CurrentIsOpen ==
    talk \in Talk /\ Unresolved(talk) # {} => Current \in Unresolved(talk)
BY CurrentIsUnresolved

\* The same of the next state.
LEMMA NextCurrentIsOpen ==
    (talk \in Talk /\ Unresolved(talk) # {} => Current \in Unresolved(talk))'
BY CurrentIsOpen, PTL

\* The process starts again: the question that was pending is put once more, or
\* its reply taken, and every other call of the round is lost.
LEMMA ReopenStep ==
    ASSUME QuestionInv, Reopen
    PROVE  QuestionInv'
<1>1. /\ QuestionTypeOK /\ SavedSound /\ AskedSound /\ ResultSound
      /\ talk \in Talk /\ journal \in Journal /\ app \in AppState
      /\ journal.talk \in Talk /\ journal.events \in SUBSET QuestionEvent
      /\ Unresolved(journal.talk) \subseteq CallId /\ CallsOf(talk) \subseteq CallId
  BY QuestionParts, QuestionFacts
<1>2. PICK open, t : open = Unresolved(journal.talk) /\ t = journal.talk
  OBVIOUS
<1>3. PICK put : put = {q.id : q \in Recovered}
  OBVIOUS
<1>4. PICK lost : lost = open \ put
  OBVIOUS
<1>5. /\ \A id \in put : id \in open /\ id \in CallId /\ Asked(id)
      /\ \A id \in open : Asked(id) => id \in put
  BY <1>2, <1>3, RecoveredIsAsked
<1>6. /\ talk' = Settle(t, lost, "lost") /\ journal' = [journal EXCEPT !.talk = talk']
      /\ app.at = "down" /\ app.runs < MaxRuns /\ app' = [app EXCEPT !.at = "up", !.runs = @ + 1]
  BY <1>2, <1>3, <1>4 DEF Reopen
<1>7. /\ talk' \in Talk /\ talk'.round = t.round /\ talk'.calls = t.calls
      /\ \A id \in CallId : talk'.results[id] = IF id \in lost THEN "lost" ELSE t.results[id]
      /\ CallsOf(talk') = CallsOf(t) /\ Unresolved(talk') = open \ lost
  BY <1>1, <1>2, <1>6, Settles, OutcomesApart
<1>8. journal' \in Journal /\ journal'.talk = talk' /\ journal'.events = journal.events
  <2>1. PICK d \in Journal : d = journal
    BY <1>1
  <2>2. PICK s \in Talk : s = talk'
    BY <1>7
  <2>3. [d EXCEPT !.talk = s] \in Journal /\ [d EXCEPT !.talk = s].talk = s
        /\ [d EXCEPT !.talk = s].events = d.events
    BY ONLY d \in Journal, s \in Talk DEF Journal
  <2> QED  BY <1>6, <2>1, <2>2, <2>3
<1>9. app' \in AppState /\ app'.at = "up" /\ app'.stopped = app.stopped
  <2>1. PICK d \in AppState : d = app
    BY <1>1
  <2>2. PICK n : n = d.runs + 1
    OBVIOUS
  <2>3. n \in 1..MaxRuns /\ "up" \in {"up", "quitting", "gone", "down"}
    BY <1>6, <2>1, <2>2, QuestionsAssumption DEF AppState
  <2>4. [d EXCEPT !.at = "up", !.runs = n] \in AppState /\ [d EXCEPT !.at = "up", !.runs = n].at = "up"
        /\ [d EXCEPT !.at = "up", !.runs = n].stopped = d.stopped
    BY ONLY d \in AppState, <2>3 DEF AppState
  <2> QED  BY <1>6, <2>1, <2>2, <2>4
<1>10. t.round = talk.round /\ t.calls = talk.calls /\ CallsOf(t) = CallsOf(talk)
       /\ \A id \in CallId : t.results[id] \in {NoReply, talk.results[id]}
  BY <1>1, <1>2 DEF SavedSound, CallsOf
<1>11. /\ \A id : Asked(id)' <=> Asked(id)
       /\ \A id, r : Answered(id, r)' <=> Answered(id, r)
       /\ (Stopped' <=> Stopped)
  BY <1>7, <1>8, <1>9, <1>10 DEF Asked, Answered, AskEvent, AnswerEvent, Stopped
<1>12. /\ Unresolved(talk)' = put /\ Unresolved(journal.talk)' = put /\ CallsOf(talk)' = CallsOf(talk)
  <2>1. Unresolved(talk') = put
    BY <1>4, <1>5, <1>7
  <2>2. CallsOf(talk') = CallsOf(talk)
    BY <1>7, <1>10
  <2>3. Unresolved(journal'.talk) = put
    BY <1>8, <2>1
  <2> QED  BY <2>1, <2>2, <2>3 DEF Unresolved, CallsOf
<1>13. \A i, j \in put : i = j
  BY <1>1, <1>2, <1>5 DEF AskedSound
<1>14. ASSUME NEW id \in put PROVE talk.round # 0
  <2>1. AskEvent(talk, id) \in QuestionEvent
    BY <1>1, <1>5, <1>14 DEF Asked
  <2>2. AskEvent(talk, id).round \in 1..MaxRounds
    BY <2>1 DEF QuestionEvent
  <2> QED  BY <2>2 DEF AskEvent
<1>15. \/ put = {} /\ question' = Free /\ asker' = AskerIdle
       \/ \E q \in Recovered :
             /\ question' = [Free EXCEPT !.request = q.id, !.reply = q.reply]
             /\ asker' = [AskerIdle EXCEPT !.at = "continue", !.resumed = TRUE]
  BY <1>3 DEF Reopen
<1>16. /\ question' \in QuestionState /\ question'.available = TRUE /\ question'.suspended = FALSE
       /\ asker' \in AskerState /\ asker'.cancelled = FALSE
       /\ \/ /\ put = {} /\ asker'.at = "idle" /\ question'.request = NoCall
             /\ question'.reply = NoReply
          \/ /\ question'.request \in put /\ asker'.at = "continue"
             /\ question'.reply \in Reply \cup {NoReply}
             /\ question'.reply # NoReply => Answered(question'.request, question'.reply)
             /\ question'.reply = NoReply => \A r \in Reply : ~Answered(question'.request, r)
  <2>1. CASE put = {} /\ question' = Free /\ asker' = AskerIdle
    <3>1. "idle" \in Place /\ TRUE \in BOOLEAN
      BY DEF Place
    <3>2. AskerIs(AskerIdle, "idle", NoReply, FALSE, FALSE)
      BY <3>1, AskerStarts
    <3> QED  BY <2>1, <3>2, QuestionFree DEF AskerIs, QuestionIs
  <2>2. CASE \E q \in Recovered :
                /\ question' = [Free EXCEPT !.request = q.id, !.reply = q.reply]
                /\ asker' = [AskerIdle EXCEPT !.at = "continue", !.resumed = TRUE]
    <3>0. PICK q \in Recovered :
                /\ question' = [Free EXCEPT !.request = q.id, !.reply = q.reply]
                /\ asker' = [AskerIdle EXCEPT !.at = "continue", !.resumed = TRUE]
      BY <2>2
    <3>1. PICK f \in BOOLEAN : f = TRUE
      OBVIOUS
    <3>2. "continue" \in Place
      BY DEF Place
    <3>3. AskerIs([AskerIdle EXCEPT !.at = "continue", !.resumed = f], "continue", NoReply, f, FALSE)
      BY <3>2, AskerStarts
    <3>4. asker' \in AskerState /\ asker'.cancelled = FALSE /\ asker'.at = "continue"
      BY <3>0, <3>1, <3>3 DEF AskerIs
    <3>5. PICK i, r : i = q.id /\ r = q.reply
      OBVIOUS
    <3>6. /\ i \in put /\ i \in CallId /\ r \in Reply \cup {NoReply}
          /\ r # NoReply => Answered(i, r)
          /\ r = NoReply => \A s \in Reply : ~Answered(i, s)
      BY <1>3, <1>5, <3>5, RecoveredIsAsked
    <3>7. question' = [Free EXCEPT !.request = i, !.reply = r]
      BY <3>0, <3>5
    <3>8. QuestionIs(question', TRUE, FALSE, i, r)
      BY <3>6, <3>7, QuestionFree
    <3>9. question' \in QuestionState /\ question'.available = TRUE /\ question'.suspended = FALSE
          /\ question'.request = i /\ question'.reply = r
      BY <3>8 DEF QuestionIs
    <3>10. question'.request \in put /\ question'.reply \in Reply \cup {NoReply}
      BY <3>6, <3>9
    <3>11. question'.reply # NoReply => Answered(question'.request, question'.reply)
      BY <3>6, <3>9, Zenon
    <3>12. question'.reply = NoReply => \A s \in Reply : ~Answered(question'.request, s)
      BY <3>6, <3>9, Zenon
    <3> QED  BY <3>4, <3>9, <3>10, <3>11, <3>12
  <2> QED  BY <1>15, <2>1, <2>2
<1>17. QuestionTypeOK'
  BY <1>7, <1>8, <1>9, <1>16, NextQuestionTypes
<1>18. SavedSound'
  <2>1. asker'.at # "idle" => talk'.round # 0
    BY <1>7, <1>10, <1>14, <1>16
  <2>2. \A e \in journal'.events : e.round <= talk'.round
    BY <1>1, <1>7, <1>8, <1>10 DEF SavedSound
  <2>3. \A id \in CallId, r \in Reply : Answered(id, r)' => Asked(id)'
    BY <1>1, <1>11 DEF SavedSound
  <2>4. asker'.at # "call"
    BY <1>16
  <2> QED  BY <1>8, <2>1, <2>2, <2>3, <2>4 DEF SavedSound
<1>19. AskedSound'
  BY <1>12, <1>13, <1>16 DEF AskedSound
<1>20. RequestSound'
  <2>1. CASE put = {} /\ asker'.at = "idle" /\ question'.request = NoCall /\ question'.reply = NoReply
    BY <2>1 DEF RequestSound
  <2>2. CASE /\ question'.request \in put /\ asker'.at = "continue"
             /\ question'.reply # NoReply => Answered(question'.request, question'.reply)
             /\ question'.reply = NoReply => \A r \in Reply : ~Answered(question'.request, r)
    <3>1. PICK i, r : i = question'.request /\ r = question'.reply
      OBVIOUS
    <3>2. Current' \in Unresolved(talk)'
      BY <1>7, <1>12, <2>2, NextCurrentIsOpen
    <3>3. Current' = i
      BY <1>12, <1>13, <2>2, <3>1, <3>2
    <3>4. Asked(i)' /\ (Answered(i, r)' <=> Answered(i, r)) /\ \A s \in Reply : Answered(i, s)' <=> Answered(i, s)
      BY <1>5, <1>11, <2>2, <3>1
    <3>5. i \in CallId /\ i # NoCall
      BY <1>5, <2>2, <3>1, QuestionsAssumption
    <3> QED  BY <1>12, <2>2, <3>1, <3>3, <3>4, <3>5 DEF RequestSound, Asked, Answered
  <2> QED  BY <1>16, <2>1, <2>2
<1>21. OutcomeSound' /\ StopSound'
  BY <1>9, <1>16 DEF OutcomeSound, StopSound
<1>22. ResultSound'
  <2>1. SUFFICES ASSUME NEW id \in CallsOf(talk)
                 PROVE  /\ talk'.results[id] \in Reply => Answered(id, talk.results[id])'
                        /\ talk'.results[id] = "cancelled" => Stopped'
                        /\ Asked(id)' /\ talk'.results[id] # NoReply
                             => talk'.results[id] \in Reply \cup {"cancelled", "error"}
    BY <1>12 DEF ResultSound
  <2>2. PICK new, old : new = talk'.results[id] /\ old = talk.results[id]
    OBVIOUS
  <2>3. id \in CallId
    BY <1>1
  <2>4. new = (IF id \in lost THEN "lost" ELSE t.results[id]) /\ t.results[id] \in {NoReply, old}
    BY <1>7, <1>10, <2>2, <2>3
  <2>5. /\ old \in Reply => Answered(id, old)
        /\ old = "cancelled" => Stopped
        /\ Asked(id) /\ old # NoReply => old \in Reply \cup {"cancelled", "error"}
    BY <1>1, <2>2 DEF ResultSound
  <2>6. CASE id \in lost
    <3>1. new = "lost" /\ ~Asked(id)
      BY <1>4, <1>5, <2>4, <2>6
    <3> QED  BY <1>11, <2>2, <3>1, OutcomesApart
  <2>7. CASE id \notin lost
    <3>1. new \in {NoReply, old}
      BY <2>4, <2>7
    <3>2. new \in Reply => Answered(id, new)
      BY <2>5, <3>1, QuestionsAssumption
    <3>3. new \in Reply => Answered(id, new)'
      BY <1>11, <3>2
    <3>5. new \in Reply => AnswerEvent(talk', id, talk'.results[id]) \in journal'.events
      BY <2>2, <3>3 DEF Answered
    <3>6. new = "cancelled" => Stopped'
      BY <1>11, <2>5, <3>1, OutcomesApart
    <3>7. Asked(id)' /\ new # NoReply => new \in Reply \cup {"cancelled", "error"}
      BY <1>11, <2>5, <3>1
    <3> QED  BY <2>2, <3>5, <3>6, <3>7 DEF Answered
  <2> QED  BY <2>6, <2>7
<1> QED  BY <1>17, <1>18, <1>19, <1>20, <1>21, <1>22 DEF QuestionInv

-----------------------------------------------------------------------------
(* Theorems. *)

\* At the start nothing was asked.
LEMMA QuestionInvInit ==
    ASSUME QuestionInit
    PROVE  QuestionInv
<1>1. Blank \in Talk /\ Blank.round = 0 /\ Blank.calls = <<>>
  <2>1. PICK rs : rs = [id \in CallId |-> NoReply]
    OBVIOUS
  <2>2. rs \in [CallId -> Outcome \cup {NoReply}] /\ 0 \in 0..MaxRounds
    BY <2>1, QuestionsAssumption
  <2>3. Blank = [round |-> 0, calls |-> <<>>, results |-> rs]
    BY <2>1 DEF Blank
  <2> QED  BY <2>2, <2>3 DEF Talk
<1>2. CallsOf(talk) = {} /\ Unresolved(talk) = {} /\ Unresolved(journal.talk) = {}
  BY <1>1 DEF QuestionInit, CallsOf, Unresolved
<1>3. talk = Blank /\ journal.talk = Blank /\ journal.events = {} /\ journal \in Journal
  BY <1>1 DEF QuestionInit, Journal
<1>4. /\ question \in QuestionState /\ question.available = TRUE /\ question.suspended = FALSE
      /\ question.request = NoCall /\ question.reply = NoReply
  BY QuestionFree DEF QuestionInit, QuestionIs
<1>5. asker \in AskerState /\ asker.at = "idle" /\ asker.cancelled = FALSE
  <2>1. "idle" \in Place /\ TRUE \in BOOLEAN
    BY DEF Place
  <2> QED  BY <2>1, AskerStarts DEF QuestionInit, AskerIs
<1>6. app \in AppState /\ app.at = "up" /\ app.stopped = {}
  BY QuestionsAssumption DEF QuestionInit, AppState
<1>7. QuestionTypeOK
  BY <1>1, <1>3, <1>4, <1>5, <1>6, QuestionTypes
<1>8. SavedSound
  BY <1>3, <1>5 DEF SavedSound, Answered
<1>9. AskedSound /\ RequestSound /\ OutcomeSound /\ StopSound /\ ResultSound
  BY <1>2, <1>4, <1>5, <1>6 DEF AskedSound, RequestSound, OutcomeSound, StopSound, ResultSound
<1> QED  BY <1>7, <1>8, <1>9 DEF QuestionInv

\* Every step of the worker, the user and the process keeps the invariant.
LEMMA QuestionInvNext ==
    ASSUME QuestionInv, [QuestionNext]_questionVars
    PROVE  QuestionInv'
<1>1. CASE UNCHANGED questionVars
  <2>1. /\ asker \in AskerState /\ question \in QuestionState /\ app \in AppState /\ StopSound
    BY QuestionParts, QuestionFacts
  <2>2. /\ Unmoved /\ talk' = talk /\ asker' = asker /\ question' = question /\ app' = app
    BY <1>1 DEF questionVars, Unmoved
  <2>3. StopSound' /\ (Suspended => Suspended')
    BY <2>1, <2>2 DEF StopSound, Stopped, Suspended
  <2> QED  BY <2>1, <2>2, <2>3, UserMoves
<1>2. CASE app.at # "down" /\ Asks
  BY <1>2, NewRoundStep, CancelCallsStep, AskUnavailableStep, AskBeginStep, ContinueStep, EmitStep,
     EmitFailsStep, WaitStep, PreserveStep, NotSuspendedStep, RecordStep, CompleteStep,
     SaveResultStep, SaveResultFailsStep, EndTurnStep DEF Asks
<1>3. CASE AnswerQuestion \/ StopTurn \/ Quit \/ QuitGoesOn \/ ProcessEnds \/ Crash \/ Reopen
  BY <1>3, AnswerQuestionStep, StopTurnStep, QuitStep, QuitGoesOnStep, ProcessOverStep, ReopenStep
<1> QED  BY <1>1, <1>2, <1>3 DEF QuestionNext

\* The invariant of the questions to the user.
THEOREM QuestionInvariant == QuestionSpec => []QuestionInv
<1>1. QuestionInit => QuestionInv
  BY QuestionInvInit
<1>2. QuestionInv /\ [QuestionNext]_questionVars => QuestionInv'
  BY QuestionInvNext
<1> QED  BY <1>1, <1>2, PTL DEF QuestionSpec

\* What the invariant says of the saved replies.
LEMMA RepliesAreAnswers ==
    ASSUME QuestionTypeOK, NEW id
    PROVE  /\ SavedReplies(id) \subseteq Reply
           /\ \A r \in Reply : r \in SavedReplies(id) <=> Answered(id, r)
<1>1. journal.events \in SUBSET QuestionEvent
  BY QuestionFacts
<1>2. ASSUME NEW e \in journal.events
      PROVE  e = [id |-> e.id, round |-> e.round, reply |-> e.reply] /\ e.reply \in Reply \cup {NoReply}
  BY <1>1 DEF QuestionEvent
<1>3. ASSUME NEW r \in Reply PROVE r \in SavedReplies(id) <=> Answered(id, r)
  <2>1. Answered(id, r) <=> \E e \in journal.events : e.id = id /\ e.round = talk.round /\ e.reply = r
    BY <1>2 DEF Answered, AnswerEvent
  <2>2. r # NoReply
    BY QuestionsAssumption
  <2> QED  BY <2>1, <2>2 DEF SavedReplies
<1> QED  BY <1>2, <1>3 DEF SavedReplies

\* The result of a call tells what the user did in this round.
LEMMA HonestResults ==
    ASSUME QuestionInv
    PROVE  ResultsAreHonest
<1>1. QuestionTypeOK /\ ResultSound /\ SavedSound
  BY QuestionParts
<1>2. SUFFICES ASSUME NEW id \in CallsOf(talk), talk.results[id] # NoReply
               PROVE  /\ talk.results[id] \in Reply => talk.results[id] \in SavedReplies(id)
                      /\ talk.results[id] = "cancelled" => Stopped
                      /\ SavedReplies(id) # {}
                           => talk.results[id] \in SavedReplies(id) \cup {"error"} \/ Stopped
                      /\ talk.results[id] \in {"lost", "not_executed"} => ~Asked(id)
  BY DEF ResultsAreHonest, Stopped, Asked
<1>3. PICK result : result = talk.results[id]
  OBVIOUS
<1>4. id \in CallId
  BY <1>1, QuestionFacts
<1>5. /\ result \in Reply => Answered(id, result)
      /\ result = "cancelled" => Stopped
      /\ Asked(id) => result \in Reply \cup {"cancelled", "error"}
  BY <1>1, <1>2, <1>3 DEF ResultSound
<1>6. /\ SavedReplies(id) \subseteq Reply
      /\ \A r \in Reply : r \in SavedReplies(id) <=> Answered(id, r)
  BY <1>1, RepliesAreAnswers
<1>7. SavedReplies(id) # {} => Asked(id)
  BY <1>1, <1>4, <1>6 DEF SavedSound
<1>8. result \in {"lost", "not_executed"} => ~Asked(id)
  BY <1>5, OutcomesApart
<1> QED  BY <1>3, <1>5, <1>6, <1>7, <1>8

\* ResultsAreHonest: an answer that the model reads is one the user gave in this
\* round, "cancelled" is the user's stop, and no question that was put is lost.
THEOREM QuestionsAreHonest == QuestionSpec => []ResultsAreHonest
<1>1. QuestionInv => ResultsAreHonest
  BY HonestResults
<1> QED  BY <1>1, QuestionInvariant, PTL

\* A resumed question whose answer is saved is not put again.
LEMMA AsksUnanswered ==
    ASSUME QuestionInv, [QuestionNext]_questionVars, asker.at = "continue", asker'.at = "emit"
    PROVE  SavedReplies(question.request) = {}
<1>1. QuestionTypeOK /\ RequestSound /\ asker \in AskerState
  BY QuestionParts, QuestionFacts
<1>2. asker' # asker
  OBVIOUS
<1>3. ~Reopen
  <2>1. "continue" \in Place /\ TRUE \in BOOLEAN
    BY DEF Place
  <2>2. /\ AskerIdle.at = "idle"
        /\ \A f \in BOOLEAN : [AskerIdle EXCEPT !.at = "continue", !.resumed = f].at = "continue"
    BY <2>1, AskerStarts DEF AskerIs
  <2>3. PICK f \in BOOLEAN : f = TRUE
    OBVIOUS
  <2>4. [AskerIdle EXCEPT !.at = "continue", !.resumed = TRUE].at = "continue"
    BY <2>2, <2>3
  <2> QED  BY <2>2, <2>4 DEF Reopen
<1>4. StopTurn \/ Quit \/ QuitGoesOn => asker'.at = asker.at
  <2>1. [asker EXCEPT !.cancelled = TRUE].at = asker.at
    BY <1>1, AskerCancelled DEF AskerIs
  <2> QED  BY <2>1 DEF StopTurn, Quit, QuitGoesOn, Quits, QuitOrder
<1>5. Continue
  BY <1>2, <1>3, <1>4 DEF QuestionNext, questionVars, Asks, AnswerQuestion, ProcessEnds, Crash,
     NewRound, CancelCalls, AskUnavailable, AskBegin, Emit, EmitFails, Wait, Preserve,
     NotSuspended, Record, Complete, SaveResult, SaveResultFails, EndTurn
<1>6. question.reply = NoReply
  <2>1. SUFFICES ASSUME question.reply # NoReply PROVE FALSE
    OBVIOUS
  <2>2. asker' = [asker EXCEPT !.at = "look", !.outcome = question.reply]
    BY <1>5, <2>1 DEF Continue, HasOutcome
  <2>3. question.reply \in Outcome \cup {NoReply}
    BY <1>1, QuestionFacts, OutcomesApart
  <2>4. asker'.at = "look"
    BY <1>1, <2>2, <2>3, AskerHas DEF AskerIs
  <2> QED  BY <2>4
<1>7. \A r \in Reply : ~Answered(question.request, r)
  BY <1>1, <1>6 DEF RequestSound
<1>8. PICK id : id = question.request
  OBVIOUS
<1>9. SavedReplies(id) \subseteq Reply /\ \A r \in Reply : r \notin SavedReplies(id)
  BY <1>1, <1>7, <1>8, RepliesAreAnswers
<1> QED  BY <1>8, <1>9

\* AnsweredOnce: after a restart a question is put again only if no answer of
\* it was saved.
THEOREM QuestionsAreAnsweredOnce == QuestionSpec => AnsweredOnce
<1>1. QuestionInv /\ [QuestionNext]_questionVars
        => [asker.at = "continue" /\ asker'.at = "emit"
              => SavedReplies(question.request) = {}]_questionVars
  BY AsksUnanswered
<1> QED  BY <1>1, QuestionInvariant, PTL DEF QuestionSpec, AnsweredOnce
=============================================================================
