----------------------------- MODULE TurnProofs -----------------------------
(***************************************************************************)
(* Proofs about ToolTurn.  TurnInv relates four things: what has happened  *)
(* to a call, the results a turn has in memory, the document it works on   *)
(* and the document that is saved.  Results are in the order of the calls  *)
(* and honest (MessagesSound); a document is valid, its answers are a      *)
(* prefix of those results, and of every call that has started it either   *)
(* tells the outcome or names the call among those whose outcome recovery  *)
(* calls unknown (DocSound, of both documents); the saved one tells        *)
(* nothing that the live one does not (Ahead).  PlaceSound says which      *)
(* fields are pending where the worker is, JobsSound what the state of a   *)
(* job says of its effect.                                                 *)
(***************************************************************************)
EXTENDS ToolTurn, NaturalsInduction, WellFoundedInduction, SequenceTheorems, FiniteSetTheorems,
        TLAPS

-----------------------------------------------------------------------------
(* What is told of a turn, and what it has to be.                          *)

\* An outcome that is told of a call is true of it.
Honest(outcome, e) == (outcome = "done" => e = "done") /\ (outcome \in Untouched => e = "none")

\* What a document tells of a call, when its answers are in order.
Told(doc, c) == IF c \in DOMAIN doc.answers THEN doc.answers[c].outcome ELSE doc.completed[c]

\* A document that recovery says nothing of c about but what is true.
Covers(doc, c) == c \in {doc.tool} \cup doc.reads \cup doc.batch /\ c \notin doc.waiting

\* m are results in memory, e is what really happened.
DocSound(doc, m, e) ==
    /\ Valid(doc)
    /\ DOMAIN doc.answers \subseteq DOMAIN m
    /\ \A i \in DOMAIN doc.answers : doc.answers[i] = m[i]
    /\ ~doc.called => doc.answers = <<>>
    /\ \A c \in Call : Told(doc, c) # "none" => Honest(Told(doc, c), e[c])
    /\ \A c \in Call : e[c] # "none" => doc.called /\ (Told(doc, c) # "none" \/ Covers(doc, c))

\* What one document tells, the later one tells too.
Ahead(old, new) == \A c \in Call : Told(old, c) # "none" => Told(new, c) = Told(old, c)

MessagesSound(m, e) == \A i \in DOMAIN m : m[i].call = i /\ Honest(m[i].outcome, e[i])

Idle(doc) == doc.tool = NoCall /\ doc.reads = {} /\ doc.batch = {}

One == {"permit", "asking", "running", "result"}
Wave == {"prepare", "working", "abort"}

PlaceSound ==
    /\ pc = "begin" => /\ messages = <<>> /\ index = 1 /\ ~live.called /\ live.active /\ Idle(live)
                       /\ saved = live
    /\ pc \in {"next"} \cup One \cup Wave =>
          /\ live.called /\ live.active /\ live.answers = messages /\ Len(messages) = index - 1
          /\ pc # "abort" => saved = live
    /\ pc \in {"next", "begin"} => Idle(live) /\ live.waiting \subseteq DOMAIN messages
    /\ pc \in One => /\ index <= Calls /\ wave = {index} /\ live.tool = index
                     /\ live.reads = {} /\ live.batch = {}
                     /\ live.waiting \subseteq DOMAIN messages \cup {index}
    /\ pc = "permit" => index \notin live.waiting
    /\ pc = "asking" => (decision # "none" => index \notin live.waiting)
    /\ pc = "running" => index \notin live.waiting
    /\ pc \in Wave => /\ index <= Calls /\ \E last \in index..Calls : wave = index..last
                      /\ live.tool = NoCall /\ live.reads = wave
                      /\ live.batch = (IF Declared THEN wave ELSE {})
                      /\ live.waiting \subseteq DOMAIN messages
    /\ pc = "end" => Len(messages) = Calls
    /\ pc \notin {"working", "down"} => live.completed = NoOutcomes

JobsSound ==
    /\ \A c \in Call :
          /\ job[c] \in {"ready", "running"} => pc \in {"running", "working"} /\ c \in wave
          /\ job[c] = "ready" => effect[c] = "none"
          /\ job[c] \in {"running", "panicked"} => effect[c] = "running"
          /\ job[c] = "done" => effect[c] = "done"
          /\ pc \notin {"down", "ended"} /\ job[c] = "none" => effect[c] = "none"
          /\ pc \notin {"down", "ended"} /\ c \notin DOMAIN messages
                /\ ~(pc \in {"running", "result", "working"} /\ c \in wave)
             => job[c] = "none" /\ outcomes[c] = "none"
    /\ pc = "running" => job[index] \in {"ready", "running", "done"}
    /\ pc = "result" => outcomes[index] # "none" /\ Honest(outcomes[index], effect[index])
    /\ pc = "result" => (index \in live.waiting => effect[index] = "none")
    /\ pc = "working" => \A c \in wave :
          /\ job[c] # "none"
          /\ Declared /\ outcomes[c] # "none" => job[c] \in {"done", "panicked"} /\ outcomes[c] = ResultOf(c)
          /\ live.completed[c] # "none" => Declared /\ outcomes[c] = live.completed[c]

TurnInv ==
    /\ TypeOK
    /\ MessagesSound(messages, effect)
    /\ DocSound(live, messages, effect)
    /\ DocSound(saved, messages, effect)
    /\ Ahead(saved, live)
    /\ PlaceSound
    /\ JobsSound
    /\ AllAnswered

-----------------------------------------------------------------------------
(* Orders of calls.                                                        *)

\* The order of successive calls is the order of the numbers.
LEMMA OrderOfInterval ==
    ASSUME NEW a \in Nat, NEW b \in Nat, a <= b + 1
    PROVE  /\ Cardinality(a..b) = b - a + 1
           /\ InOrder(a..b) = [k \in 1..(b - a + 1) |-> a + k - 1]
<1> DEFINE n == b - a + 1
           inc == [k \in 1..n |-> a + k - 1]
           Rises(f) == \A i, j \in DOMAIN f : i < j => f[i] < f[j]
<1>1. Cardinality(a..b) = n /\ n \in Nat
  BY FS_Interval
<1>2. inc \in [1..n -> a..b] /\ Rises(inc)
  BY <1>1
<1>3. ASSUME NEW f \in [1..n -> a..b], Rises(f) PROVE f = inc
  <2>1. ASSUME NEW k \in 1..n PROVE f[k] >= a + k - 1
    <3> SUFFICES ASSUME f[k] < a + k - 1 PROVE FALSE
      BY <1>3
    <3> DEFINE Low == {i \in 1..n : f[i] < a + i - 1}
    <3>0. k \in Low /\ Low \subseteq 1..n /\ 1..n \subseteq Nat
      BY <1>1
    <3>1. Low \subseteq Nat /\ Low # {}
      BY <3>0
    <3>2. PICK m \in Low : \A i \in Low : ~(<<i, m>> \in OpToRel(<, Nat))
      BY <3>1, NatLessThanWellFounded, WFMin
    <3>3. m \in 1..n /\ f[m] \in a..b /\ f[m] < a + m - 1
      BY <1>3
    <3>4. m - 1 \in 1..n
      BY <3>3, <1>1
    <3>5. f[m - 1] < f[m] /\ f[m - 1] \in a..b
      BY <3>3, <3>4, <1>3
    <3>6. m - 1 \in Low
      BY <3>3, <3>4, <3>5, <1>1
    <3>7. <<m - 1, m>> \in OpToRel(<, Nat)
      BY <3>3, <3>4, <1>1 DEF OpToRel
    <3> QED  BY ONLY <3>2, <3>6, <3>7
  <2>2. ASSUME NEW k \in 1..n PROVE f[k] <= a + k - 1
    <3> SUFFICES ASSUME f[k] > a + k - 1 PROVE FALSE
      BY <1>3
    <3> DEFINE High == {n - i : i \in {j \in 1..n : f[j] > a + j - 1}}
    <3>0. n - k \in High /\ \A i \in 1..n : n - i \in Nat
      BY <1>1
    <3>1. High \subseteq Nat /\ High # {}
      BY <3>0
    <3>2. PICK h \in High : \A i \in High : ~(<<i, h>> \in OpToRel(<, Nat))
      BY <3>1, NatLessThanWellFounded, WFMin
    <3>3. PICK m \in 1..n : h = n - m /\ f[m] > a + m - 1
      BY <3>2
    <3>4. f[m] \in a..b /\ m + 1 \in 1..n
      BY <3>3, <1>1, <1>3
    <3>5. f[m] < f[m + 1] /\ f[m + 1] \in a..b
      BY <3>3, <3>4, <1>3
    <3>6. n - (m + 1) \in High
      BY <3>3, <3>4, <3>5, <1>1
    <3>7. <<n - (m + 1), h>> \in OpToRel(<, Nat)
      BY <3>3, <3>4, <1>1 DEF OpToRel
    <3> QED  BY ONLY <3>2, <3>6, <3>7
  <2>3. ASSUME NEW k \in 1..n PROVE f[k] = a + k - 1
    <3>1. f[k] \in a..b /\ k \in Int
      BY <1>3
    <3>2. f[k] \in Int /\ f[k] >= a + k - 1 /\ f[k] <= a + k - 1
      BY <2>1, <2>2, <3>1
    <3> QED  BY <3>1, <3>2
  <2> QED  BY <2>3, <1>1
<1>4. inc = CHOOSE f \in [1..n -> a..b] : Rises(f)
  <2> HIDE DEF inc, Rises
  <2> QED  BY <1>2, <1>3, Zenon
<1>5. InOrder(a..b) = CHOOSE f \in [1..Cardinality(a..b) -> a..b] : Rises(f)
  BY Zenon DEF InOrder
<1>6. InOrder(a..b) = inc
  <2> HIDE DEF inc, Rises, n
  <2> QED  BY <1>1, <1>4, <1>5, Zenon
<1> QED  BY <1>1, <1>6

\* The calls after n of them are told, in order, that they did not run.
LEMMA NotExecutedInOrder ==
    ASSUME NEW n \in 0..Calls
    PROVE  /\ NotExecuted(Later(n)) \in Seq(Answer)
           /\ Len(NotExecuted(Later(n))) = Calls - n
           /\ \A i \in 1..(Calls - n) :
                NotExecuted(Later(n))[i] = [call |-> n + i, outcome |-> "not_executed"]
<1>1. Calls \in Nat /\ n \in Nat
  BY CallsAssumption
<1>2. Later(n) = (n + 1)..Calls
  BY <1>1 DEF Later, Call
<1>3. InOrder((n + 1)..Calls) = [k \in 1..(Calls - n) |-> n + k]
  <2>1. InOrder((n + 1)..Calls) = [k \in 1..(Calls - (n + 1) + 1) |-> (n + 1) + k - 1]
    BY <1>1, OrderOfInterval
  <2>2. Calls - (n + 1) + 1 = Calls - n /\ \A k \in 1..(Calls - n) : (n + 1) + k - 1 = n + k
    BY <1>1
  <2> QED  BY <2>1, <2>2
<1>4. NotExecuted(Later(n)) = [i \in 1..(Calls - n) |-> [call |-> n + i, outcome |-> "not_executed"]]
  BY <1>2, <1>3 DEF NotExecuted, AnswersOf
<1>5. \A i \in 1..(Calls - n) : [call |-> n + i, outcome |-> "not_executed"] \in Answer
  BY <1>1 DEF Answer, Outcome, Untouched, Call
<1>6. Calls - n \in Nat
  BY <1>1
<1> DEFINE s == [i \in 1..(Calls - n) |-> [call |-> n + i, outcome |-> "not_executed"]]
<1>7. s \in Seq(Answer) /\ Len(s) = Calls - n
  BY <1>5, <1>6
<1> QED  BY <1>4, <1>7

-----------------------------------------------------------------------------
(* Documents and fields.                                                   *)

\* A document and its fields.
Fields(d, called, answers, active, tool, reads, batch, completed, waiting) ==
    /\ d \in Document
    /\ d.called = called /\ d.answers = answers /\ d.active = active /\ d.tool = tool
    /\ d.reads = reads /\ d.batch = batch /\ d.completed = completed /\ d.waiting = waiting

\* No call has an outcome at first.
LEMMA NoOutcomesType == NoOutcomes \in [Call -> Outcome \cup {"none"}] /\ \A c \in Call : NoOutcomes[c] = "none"
BY DEF NoOutcomes

\* The fields of a document that has taken the results in memory.
LEMMA SyncFields ==
    ASSUME NEW d \in Document, NEW m \in Seq(Answer), NEW b \in BOOLEAN
    PROVE  Fields([d EXCEPT !.answers = m, !.called = b],
                  b, m, d.active, d.tool, d.reads, d.batch, d.completed, d.waiting)
<1>1. PICK r : r = [d EXCEPT !.answers = m, !.called = b]
  OBVIOUS
<1>2. Fields(r, b, m, d.active, d.tool, d.reads, d.batch, d.completed, d.waiting)
  BY <1>1 DEF Document, Fields
<1> QED  BY <1>1, <1>2

\* The fields of a document with other answers.
LEMMA AnswersFields ==
    ASSUME NEW d \in Document, NEW m \in Seq(Answer)
    PROVE  Fields([d EXCEPT !.answers = m],
                  d.called, m, d.active, d.tool, d.reads, d.batch, d.completed, d.waiting)
<1>1. PICK r : r = [d EXCEPT !.answers = m]
  OBVIOUS
<1>2. Fields(r, d.called, m, d.active, d.tool, d.reads, d.batch, d.completed, d.waiting)
  BY <1>1 DEF Document, Fields
<1> QED  BY <1>1, <1>2

\* The fields of a document with other calls that wait for permission.
LEMMA WaitingFields ==
    ASSUME NEW d \in Document, NEW cs \in SUBSET Call
    PROVE  Fields([d EXCEPT !.waiting = cs],
                  d.called, d.answers, d.active, d.tool, d.reads, d.batch, d.completed, cs)
<1>1. PICK r : r = [d EXCEPT !.waiting = cs]
  OBVIOUS
<1>2. Fields(r, d.called, d.answers, d.active, d.tool, d.reads, d.batch, d.completed, cs)
  BY <1>1 DEF Document, Fields
<1> QED  BY <1>1, <1>2

\* The fields of a document that has taken the calls of the turn.
LEMMA CalledFields ==
    ASSUME NEW d \in Document
    PROVE  Fields([d EXCEPT !.called = TRUE],
                  TRUE, d.answers, d.active, d.tool, d.reads, d.batch, d.completed, d.waiting)
<1>1. PICK r : r = [d EXCEPT !.called = TRUE]
  OBVIOUS
<1>2. Fields(r, TRUE, d.answers, d.active, d.tool, d.reads, d.batch, d.completed, d.waiting)
  BY <1>1 DEF Document, Fields
<1> QED  BY <1>1, <1>2

\* The fields of a document with another pending call.
LEMMA ToolFields ==
    ASSUME NEW d \in Document, NEW c \in Call \cup {NoCall}
    PROVE  Fields([d EXCEPT !.tool = c],
                  d.called, d.answers, d.active, c, d.reads, d.batch, d.completed, d.waiting)
<1>1. PICK r : r = [d EXCEPT !.tool = c]
  OBVIOUS
<1>2. Fields(r, d.called, d.answers, d.active, c, d.reads, d.batch, d.completed, d.waiting)
  BY <1>1 DEF Document, Fields
<1> QED  BY <1>1, <1>2

\* The fields of a document with other pending reads.
LEMMA ReadsFields ==
    ASSUME NEW d \in Document, NEW cs \in SUBSET Call
    PROVE  Fields([d EXCEPT !.reads = cs],
                  d.called, d.answers, d.active, d.tool, cs, d.batch, d.completed, d.waiting)
<1>1. PICK r : r = [d EXCEPT !.reads = cs]
  OBVIOUS
<1>2. Fields(r, d.called, d.answers, d.active, d.tool, cs, d.batch, d.completed, d.waiting)
  BY <1>1 DEF Document, Fields
<1> QED  BY <1>1, <1>2

\* A batch begins, or ends.
LEMMA BatchFields ==
    ASSUME NEW d \in Document, NEW cs \in SUBSET Call, NEW rs \in SUBSET Call
    PROVE  Fields([d EXCEPT !.batch = cs, !.reads = rs, !.completed = NoOutcomes],
                  d.called, d.answers, d.active, d.tool, rs, cs, NoOutcomes, d.waiting)
<1>1. PICK b : b = [d EXCEPT !.batch = cs]
  OBVIOUS
<1>2. PICK r : r = [b EXCEPT !.reads = rs]
  OBVIOUS
<1>3. PICK n : n = [r EXCEPT !.completed = NoOutcomes]
  OBVIOUS
<1>4. n = [d EXCEPT !.batch = cs, !.reads = rs, !.completed = NoOutcomes]
  BY <1>1, <1>2, <1>3, Zenon
<1>5. Fields(b, d.called, d.answers, d.active, d.tool, d.reads, cs, d.completed, d.waiting)
  BY <1>1 DEF Document, Fields
<1>6. Fields(r, d.called, d.answers, d.active, d.tool, rs, cs, d.completed, d.waiting)
  BY <1>2, <1>5 DEF Document, Fields
<1>7. Fields(n, d.called, d.answers, d.active, d.tool, rs, cs, NoOutcomes, d.waiting)
  BY <1>3, <1>6, NoOutcomesType DEF Document, Fields
<1> QED  BY <1>4, <1>7

\* The fields of a document with the results of a wave.
LEMMA ResultFields ==
    ASSUME NEW d \in Document, NEW c \in Call, NEW o \in Outcome
    PROVE  Fields(ToolBatchResult(d, c, o),
                  d.called, d.answers, d.active, d.tool, d.reads, d.batch,
                  [d.completed EXCEPT ![c] = o], d.waiting)
<1>1. PICK f : f = [d.completed EXCEPT ![c] = o]
  OBVIOUS
<1>2. f \in [Call -> Outcome \cup {"none"}]
  BY <1>1 DEF Document
<1>3. PICK r : r = [d EXCEPT !.completed = f]
  OBVIOUS
<1>4. Fields(r, d.called, d.answers, d.active, d.tool, d.reads, d.batch, f, d.waiting)
  BY <1>2, <1>3 DEF Document, Fields
<1>5. ToolBatchResult(d, c, o) = r
  BY <1>1, <1>3, Zenon DEF ToolBatchResult
<1> QED  BY <1>1, <1>4, <1>5

\* The fields of a document with nothing pending.
LEMMA ReadyFields ==
    ASSUME NEW d \in Document
    PROVE  Fields(Ready(d), d.called, d.answers, FALSE, NoCall, {}, {}, NoOutcomes, d.waiting)
<1>1. PICK a : a = [d EXCEPT !.active = FALSE]
  OBVIOUS
<1>2. PICK t : t = [a EXCEPT !.tool = NoCall]
  OBVIOUS
<1>3. PICK r : r = [t EXCEPT !.reads = {}]
  OBVIOUS
<1>4. PICK b : b = [r EXCEPT !.batch = {}]
  OBVIOUS
<1>5. PICK n : n = [b EXCEPT !.completed = NoOutcomes]
  OBVIOUS
<1>6. n = Ready(d)
  BY <1>1, <1>2, <1>3, <1>4, <1>5, Zenon DEF Ready
<1>7. Fields(a, d.called, d.answers, FALSE, d.tool, d.reads, d.batch, d.completed, d.waiting)
  BY <1>1 DEF Document, Fields
<1>8. Fields(t, d.called, d.answers, FALSE, NoCall, d.reads, d.batch, d.completed, d.waiting)
  BY <1>2, <1>7 DEF Document, Fields
<1>9. Fields(r, d.called, d.answers, FALSE, NoCall, {}, d.batch, d.completed, d.waiting)
  BY <1>3, <1>8 DEF Document, Fields
<1>10. Fields(b, d.called, d.answers, FALSE, NoCall, {}, {}, d.completed, d.waiting)
  BY <1>4, <1>9 DEF Document, Fields
<1>11. Fields(n, d.called, d.answers, FALSE, NoCall, {}, {}, NoOutcomes, d.waiting)
  BY <1>5, <1>10, NoOutcomesType DEF Document, Fields
<1> QED  BY <1>6, <1>11

-----------------------------------------------------------------------------
(* Documents that are sound, and what may be done to them.                 *)

Effect == [Call -> {"none", "running", "done"}]

\* m2 are the results m, and more.
Extends(m, m2) == DOMAIN m \subseteq DOMAIN m2 /\ \A i \in DOMAIN m : m2[i] = m[i]

\* Results in the order of the calls are those of the first calls.
LEMMA InOrderFacts ==
    ASSUME NEW m \in Seq(Answer), NEW e, MessagesSound(m, e)
    PROVE  /\ Len(m) \in 0..Calls /\ DOMAIN m = 1..Len(m) /\ DOMAIN m \subseteq Call
           /\ \A c \in DOMAIN m : m[c] \in Answer /\ m[c].call = c /\ m[c].outcome \in Outcome
<1>1. PICK n \in Nat : n = Len(m)
  OBVIOUS
<1>2. DOMAIN m = 1..n /\ \A c \in 1..n : m[c] \in Answer
  BY <1>1
<1>3. \A c \in 1..n : m[c].call = c /\ m[c].call \in Call /\ m[c].outcome \in Outcome
  BY <1>2 DEF MessagesSound, Answer
<1>4. n \in 0..Calls
  BY <1>3, CallsAssumption DEF Call
<1> QED  BY <1>1, <1>2, <1>3, <1>4

\* What is answered and outstanding, when answers are a prefix of honest results.
LEMMA AnsweredInOrderFacts ==
    ASSUME NEW d \in Document, NEW m \in Seq(Answer), NEW e, MessagesSound(m, e), Extends(d.answers, m)
    PROVE  /\ Answered(d) = DOMAIN d.answers /\ DOMAIN d.answers \subseteq Call
           /\ DOMAIN d.answers = 1..Len(d.answers) /\ Len(d.answers) \in 0..Len(m)
           /\ Outstanding(d) = IF d.called THEN Call \ DOMAIN d.answers ELSE {}
<1>1. d.answers \in Seq(Answer)
  BY DEF Document
<1>2. DOMAIN m = 1..Len(m) /\ DOMAIN m \subseteq Call
  BY InOrderFacts
<1>3. \A i \in DOMAIN d.answers : d.answers[i].call = i
  BY DEF Extends, MessagesSound
<1>4. Answered(d) = DOMAIN d.answers
  BY <1>3 DEF Answered
<1>5. DOMAIN d.answers = 1..Len(d.answers) /\ Len(d.answers) \in Nat /\ Len(m) \in Nat
  BY <1>1
<1>6. Len(d.answers) <= Len(m)
  BY <1>2, <1>5 DEF Extends
<1> QED  BY <1>2, <1>4, <1>5, <1>6 DEF Extends, Outstanding

\* The outcomes.
LEMMA OutcomeFacts == Outcome = {"done", "unknown", "refused", "not_executed"} /\ "none" \notin Outcome
BY DEF Outcome, Untouched

\* What a document tells of a call is an outcome, or nothing.
LEMMA ToldType ==
    ASSUME NEW d \in Document, NEW c \in Call
    PROVE  Told(d, c) \in Outcome \cup {"none"}
<1>1. d.answers \in Seq(Answer) /\ d.completed \in [Call -> Outcome \cup {"none"}]
  BY DEF Document
<1>2. CASE c \in DOMAIN d.answers
  <2>1. d.answers[c] \in Answer
    BY <1>1, <1>2
  <2> QED  BY <1>2, <2>1 DEF Told, Answer
<1>3. CASE c \notin DOMAIN d.answers
  BY <1>1, <1>3 DEF Told
<1> QED  BY <1>2, <1>3

\* More results in memory make no document wrong.
LEMMA MoreResults ==
    ASSUME NEW d \in Document, NEW m, NEW m2, NEW e, DocSound(d, m, e), Extends(m, m2)
    PROVE  DocSound(d, m2, e)
<1>1. DOMAIN d.answers \subseteq DOMAIN m2 /\ \A i \in DOMAIN d.answers : d.answers[i] = m2[i]
  BY DEF DocSound, Extends
<1> QED  BY <1>1 DEF DocSound

\* A covered call that nothing is told of may start,
LEMMA CoveredStarts ==
    ASSUME NEW d \in Document, NEW m, NEW e \in Effect, DocSound(d, m, e), NEW c \in Call, d.called,
           Told(d, c) = "none", Covers(d, c)
    PROVE  DocSound(d, m, [e EXCEPT ![c] = "running"])
<1>1. PICK f : f = [e EXCEPT ![c] = "running"]
  OBVIOUS
<1>2. f[c] = "running" /\ \A b \in Call \ {c} : f[b] = e[b]
  BY <1>1 DEF Effect
<1>3. \A b \in Call : Told(d, b) # "none" => Honest(Told(d, b), f[b])
  BY <1>2 DEF DocSound
<1>4. \A b \in Call : f[b] # "none" => d.called /\ (Told(d, b) # "none" \/ Covers(d, b))
  BY <1>2 DEF DocSound
<1>5. DocSound(d, m, f)
  BY <1>3, <1>4 DEF DocSound
<1> QED  BY <1>1, <1>5

\* and a call that has started may end.
LEMMA StartedEnds ==
    ASSUME NEW d \in Document, NEW m, NEW e \in Effect, DocSound(d, m, e), NEW c \in Call, e[c] = "running"
    PROVE  DocSound(d, m, [e EXCEPT ![c] = "done"])
<1>1. PICK f : f = [e EXCEPT ![c] = "done"]
  OBVIOUS
<1>2. f[c] = "done" /\ \A b \in Call \ {c} : f[b] = e[b]
  BY <1>1 DEF Effect
<1>3. ASSUME NEW b \in Call, Told(d, b) # "none" PROVE Honest(Told(d, b), f[b])
  <2>1. Honest(Told(d, b), e[b])
    BY <1>3 DEF DocSound
  <2>2. CASE b = c
    BY <1>2, <2>1, <2>2 DEF Honest
  <2> QED  BY <1>2, <2>1, <2>2
<1>4. \A b \in Call : f[b] # "none" => d.called /\ (Told(d, b) # "none" \/ Covers(d, b))
  BY <1>2 DEF DocSound
<1>5. DocSound(d, m, f)
  BY <1>3, <1>4 DEF DocSound
<1> QED  BY <1>1, <1>5

\* A document that takes all results in memory.
LEMMA SyncedSound ==
    ASSUME NEW d \in Document, NEW m \in Seq(Answer), NEW e, MessagesSound(m, e),
           d.called, d.answers = m, Valid(d),
           \A c \in Call \ DOMAIN m : d.completed[c] # "none" => Honest(d.completed[c], e[c]),
           \A c \in Call \ DOMAIN m : e[c] # "none" => d.completed[c] # "none" \/ Covers(d, c)
    PROVE  DocSound(d, m, e)
<1>1. ASSUME NEW c \in Call, Told(d, c) # "none" PROVE Honest(Told(d, c), e[c])
  <2>1. CASE c \in DOMAIN m
    BY <2>1 DEF MessagesSound, Told
  <2>2. CASE c \notin DOMAIN m
    BY <1>1, <2>2 DEF Told
  <2> QED  BY <2>1, <2>2
<1>2. ASSUME NEW c \in Call, e[c] # "none" PROVE Told(d, c) # "none" \/ Covers(d, c)
  <2>1. CASE c \in DOMAIN m
    <3>1. Told(d, c) = m[c].outcome /\ m[c].outcome \in Outcome
      BY <2>1, InOrderFacts DEF Told
    <3> QED  BY <3>1, OutcomeFacts
  <2>2. CASE c \notin DOMAIN m
    BY <1>2, <2>2 DEF Told
  <2> QED  BY <2>1, <2>2
<1> QED  BY <1>1, <1>2 DEF DocSound

\* It tells what the document before it told.
LEMMA SyncedAhead ==
    ASSUME NEW d \in Document, NEW old \in Document, NEW m0, NEW m, NEW e, DocSound(old, m0, e), Extends(m0, m),
           d.answers = m,
           \A c \in Call \ DOMAIN m : old.completed[c] # "none" => d.completed[c] = old.completed[c],
           \A c \in (Call \cap DOMAIN m) \ DOMAIN old.answers : old.completed[c] # "none" => m[c].outcome = old.completed[c]
    PROVE  Ahead(old, d)
<1> SUFFICES ASSUME NEW c \in Call, Told(old, c) # "none" PROVE Told(d, c) = Told(old, c)
  BY DEF Ahead
<1>1. CASE c \in DOMAIN old.answers
  <2>1. c \in DOMAIN m0 /\ old.answers[c] = m0[c] /\ c \in DOMAIN m /\ m[c] = m0[c]
    BY <1>1 DEF DocSound, Extends
  <2> QED  BY <1>1, <2>1 DEF Told
<1>2. CASE c \notin DOMAIN old.answers /\ c \in DOMAIN m
  BY <1>2 DEF Told
<1>3. CASE c \notin DOMAIN old.answers /\ c \notin DOMAIN m
  BY <1>3 DEF Told
<1> QED  BY <1>1, <1>2, <1>3

\* Telling more, and then more again, is telling more.
LEMMA AheadTrans ==
    ASSUME NEW a, NEW b, NEW c, Ahead(a, b), Ahead(b, c)
    PROVE  Ahead(a, c)
BY DEF Ahead

\* A document takes nothing back of what it tells itself.
LEMMA AheadSelf == ASSUME NEW a PROVE Ahead(a, a)
BY DEF Ahead

\* A batch's document, when the calls without a result are outstanding.
LEMMA ValidDocument ==
    ASSUME NEW d \in Document, NEW m \in Seq(Answer), NEW e, MessagesSound(m, e),
           d.called, d.answers = m, Call \subseteq DOMAIN m \/ d.active,
           d.tool # NoCall => d.active /\ d.tool \in Call \ DOMAIN m /\ d.reads = {} /\ d.batch = {},
           d.reads # {} => d.active /\ d.reads \subseteq Call \ DOMAIN m,
           d.batch \in {{}, d.reads},
           \A c \in Call : d.completed[c] # "none" => c \in d.batch
    PROVE  Valid(d)
<1>1. Outstanding(d) = Call \ DOMAIN m
  <2>1. Extends(d.answers, m)
    BY DEF Extends
  <2> QED  BY <2>1, AnsweredInOrderFacts
<1>2. Outstanding(d) # {} => d.active
  BY <1>1
<1>3. d.tool # NoCall => d.active /\ d.tool \in Outstanding(d)
  BY <1>1
<1>4. d.reads # {} => d.active /\ d.tool = NoCall /\ d.reads \subseteq Outstanding(d)
  BY <1>1
<1>5. d.batch # {} => /\ d.active /\ d.tool = NoCall /\ d.batch \subseteq Outstanding(d)
                      /\ d.reads \in {{}, d.batch}
  BY <1>1, <1>4
<1> QED  BY <1>2, <1>3, <1>4, <1>5 DEF Valid

DocsSound ==
    /\ MessagesSound(messages, effect)
    /\ DocSound(live, messages, effect)
    /\ DocSound(saved, messages, effect)
    /\ Ahead(saved, live)

\* The types that the invariant gives, one by one.
LEMMA TurnTypes ==
    ASSUME TurnInv
    PROVE  /\ Calls \in Nat /\ Call = 1..Calls
           /\ mode \in [Call -> Mode] /\ index \in 1..(Calls + 1) /\ wave \subseteq Call
           /\ messages \in Seq(Answer)
           /\ Len(messages) \in 0..Calls /\ DOMAIN messages = 1..Len(messages)
           /\ job \in [Call -> {"none", "ready", "running", "done", "panicked"}]
           /\ outcomes \in [Call -> Outcome \cup {"none"}]
           /\ failing \in BOOLEAN /\ cancelled \in BOOLEAN
           /\ decision \in {"none", "allow", "deny"}
           /\ live \in Document /\ saved \in Document /\ effect \in Effect
           /\ faults \in 0..MaxFaults /\ crashes \in 0..MaxCrashes
           /\ MaxFaults \in Nat /\ MaxCrashes \in Nat
<1>1. TypeOK /\ MessagesSound(messages, effect)
  BY DEF TurnInv
<1>2. messages \in Seq(Answer)
  BY <1>1 DEF TypeOK
<1>3. Len(messages) \in 0..Calls /\ DOMAIN messages = 1..Len(messages)
  BY <1>1, <1>2, InOrderFacts
<1> QED  BY <1>1, <1>2, <1>3, CallsAssumption, BoundsAssumption DEF TypeOK, Effect, Call

\* Documents are as sound as they were when nothing they speak of changes.
LEMMA DocsStay ==
    ASSUME TurnInv, UNCHANGED <<messages, live, saved, effect>>
    PROVE  DocsSound' /\ Ahead(saved, saved')
BY AheadSelf DEF TurnInv, DocsSound

\* The turn has no more calls.
LEMMA NoMoreCallsStep ==
    ASSUME TurnInv, NoMoreCalls
    PROVE  TurnInv' /\ Ahead(saved, saved')
<1>1. DocsSound' /\ Ahead(saved, saved')
  BY DocsStay DEF NoMoreCalls, docs, world
<1>2. TypeOK'
  BY TurnTypes DEF NoMoreCalls, docs, world, work, TypeOK, Place, Effect
<1>3. PlaceSound'
  BY TurnTypes DEF NoMoreCalls, docs, world, work, TurnInv, PlaceSound, One, Wave, Declared
<1>4. JobsSound'
  BY TurnTypes DEF NoMoreCalls, docs, world, work, TurnInv, JobsSound, Declared, ResultOf
<1>5. AllAnswered'
  BY DEF NoMoreCalls, AllAnswered
<1> QED  BY <1>1, <1>2, <1>3, <1>4, <1>5 DEF TurnInv, DocsSound

\* A call is permitted.
LEMMA PermittedStep ==
    ASSUME TurnInv, Permitted
    PROVE  TurnInv' /\ Ahead(saved, saved')
<1>1. DocsSound' /\ Ahead(saved, saved')
  BY DocsStay DEF Permitted, docs, world
<1>2. TypeOK'
  BY TurnTypes DEF Permitted, StartTool, docs, world, work, TypeOK, Place, Effect
<1>3. PlaceSound'
  BY TurnTypes DEF Permitted, StartTool, docs, world, work, TurnInv, PlaceSound, One, Wave, Declared
<1>4. JobsSound'
  BY TurnTypes DEF Permitted, StartTool, docs, world, work, TurnInv, JobsSound, PlaceSound, One, Declared, ResultOf
<1>5. AllAnswered'
  BY DEF Permitted, StartTool, AllAnswered
<1> QED  BY <1>1, <1>2, <1>3, <1>4, <1>5 DEF TurnInv, DocsSound

-----------------------------------------------------------------------------
(* Steps of the turn that end it or start a request.                       *)

\* A call is refused.
LEMMA RefusedStep ==
    ASSUME TurnInv, Refused
    PROVE  TurnInv' /\ Ahead(saved, saved')
<1>1. DocsSound' /\ Ahead(saved, saved')
  BY DocsStay DEF Refused, docs, world
<1>2. TypeOK'
  BY TurnTypes, OutcomeFacts DEF Refused, WithoutRunning, docs, world, work, TypeOK, Place, Effect
<1>3. PlaceSound'
  BY TurnTypes DEF Refused, WithoutRunning, docs, world, work, TurnInv, PlaceSound, One, Wave, Declared
<1>4. JobsSound'
  BY TurnTypes, OutcomeFacts DEF Refused, WithoutRunning, docs, world, work, TurnInv, JobsSound, PlaceSound, One, Wave, Declared, ResultOf, Honest, Untouched
<1>5. AllAnswered'
  BY DEF Refused, WithoutRunning, docs, world, AllAnswered, TurnInv, Outstanding, Answered
<1> QED  BY <1>1, <1>2, <1>3, <1>4, <1>5 DEF TurnInv, DocsSound

\* The user allows a call.
LEMMA AllowedStep ==
    ASSUME TurnInv, Allowed
    PROVE  TurnInv' /\ Ahead(saved, saved')
<1>1. DocsSound' /\ Ahead(saved, saved')
  BY DocsStay DEF Allowed, docs, world
<1>2. TypeOK'
  BY TurnTypes, OutcomeFacts DEF Allowed, StartTool, WithoutRunning, docs, world, work, TypeOK, Place, Effect
<1>3. PlaceSound'
  BY TurnTypes DEF Allowed, StartTool, WithoutRunning, docs, world, work, TurnInv, PlaceSound, One, Wave, Declared
<1>4. JobsSound'
  BY TurnTypes, OutcomeFacts DEF Allowed, StartTool, WithoutRunning, docs, world, work, TurnInv, JobsSound, PlaceSound, One, Wave, Declared, ResultOf, Honest, Untouched
<1>5. AllAnswered'
  BY DEF Allowed, StartTool, WithoutRunning, docs, world, AllAnswered, TurnInv, Outstanding, Answered
<1> QED  BY <1>1, <1>2, <1>3, <1>4, <1>5 DEF TurnInv, DocsSound

\* The user denies a call.
LEMMA DeniedStep ==
    ASSUME TurnInv, Denied
    PROVE  TurnInv' /\ Ahead(saved, saved')
<1>1. DocsSound' /\ Ahead(saved, saved')
  BY DocsStay DEF Denied, docs, world
<1>2. TypeOK'
  BY TurnTypes, OutcomeFacts DEF Denied, WithoutRunning, docs, world, work, TypeOK, Place, Effect
<1>3. PlaceSound'
  BY TurnTypes DEF Denied, WithoutRunning, docs, world, work, TurnInv, PlaceSound, One, Wave, Declared
<1>4. JobsSound'
  BY TurnTypes, OutcomeFacts DEF Denied, WithoutRunning, docs, world, work, TurnInv, JobsSound, PlaceSound, One, Wave, Declared, ResultOf, Honest, Untouched
<1>5. AllAnswered'
  BY DEF Denied, WithoutRunning, docs, world, AllAnswered, TurnInv, Outstanding, Answered
<1> QED  BY <1>1, <1>2, <1>3, <1>4, <1>5 DEF TurnInv, DocsSound

\* A call that needs no permission.
LEMMA UnaskedStep ==
    ASSUME TurnInv, Unasked
    PROVE  TurnInv' /\ Ahead(saved, saved')
<1>1. DocsSound' /\ Ahead(saved, saved')
  BY DocsStay DEF Unasked, docs, world
<1>2. TypeOK'
  <2>1. faults' \in 0..MaxFaults
    BY TurnTypes DEF Unasked, NotShown, Fault
  <2>2. pc' \in Place /\ outcomes' \in [Call -> Outcome \cup {"none"}]
    BY TurnTypes, OutcomeFacts DEF Unasked, WithoutRunning, Place
  <2> QED  BY <2>1, <2>2 DEF Unasked, docs, TurnInv, TypeOK
<1>3. PlaceSound'
  BY TurnTypes DEF Unasked, WithoutRunning, NotShown, Fault, docs, world, work, TurnInv, PlaceSound, One, Wave, Declared
<1>4. JobsSound'
  BY TurnTypes, OutcomeFacts DEF Unasked, WithoutRunning, NotShown, Fault, docs, world, work, TurnInv, JobsSound, PlaceSound, One, Wave, Declared, ResultOf, Honest, Untouched
<1>5. AllAnswered'
  BY DEF Unasked, WithoutRunning, NotShown, Fault, docs, world, AllAnswered, TurnInv, Outstanding, Answered
<1> QED  BY <1>1, <1>2, <1>3, <1>4, <1>5 DEF TurnInv, DocsSound

\* A single call is about to run.
LEMMA RunOneStep ==
    ASSUME TurnInv, RunOne
    PROVE  TurnInv' /\ Ahead(saved, saved')
<1>1. DocsSound' /\ Ahead(saved, saved')
  BY DocsStay DEF RunOne, docs, world
<1>2. TypeOK'
  BY TurnTypes, OutcomeFacts DEF RunOne, WithoutRunning, docs, world, work, TypeOK, Place, Effect
<1>3. PlaceSound'
  BY TurnTypes DEF RunOne, WithoutRunning, docs, world, work, TurnInv, PlaceSound, One, Wave, Declared
<1>4. JobsSound'
  BY TurnTypes, OutcomeFacts DEF RunOne, WithoutRunning, docs, world, work, TurnInv, JobsSound, PlaceSound, One, Wave, Declared, ResultOf, Honest, Untouched
<1>5. AllAnswered'
  BY DEF RunOne, WithoutRunning, docs, world, AllAnswered, TurnInv, Outstanding, Answered
<1> QED  BY <1>1, <1>2, <1>3, <1>4, <1>5 DEF TurnInv, DocsSound

\* The jobs of a wave are started.
LEMMA SpawnStep ==
    ASSUME TurnInv, Spawn
    PROVE  TurnInv' /\ Ahead(saved, saved')
<1>1. DocsSound' /\ Ahead(saved, saved')
  BY DocsStay DEF Spawn, docs, world
<1>2. TypeOK'
  BY TurnTypes, OutcomeFacts DEF Spawn, docs, world, work, TypeOK, Place, Effect
<1>3. PlaceSound'
  BY TurnTypes DEF Spawn, docs, world, work, TurnInv, PlaceSound, One, Wave, Declared
<1>4. JobsSound'
  <2>1. /\ pc = "prepare" /\ pc' = "working"
        /\ \A c \in wave : job'[c] = "ready" /\ c \in Call
        /\ \A c \in Call \ wave : job'[c] = job[c]
        /\ UNCHANGED <<mode, index, messages, wave, outcomes, live, effect>>
    BY TurnTypes DEF Spawn, docs, world
  <2>2. \A c \in wave : c \notin DOMAIN messages
    BY <2>1, TurnTypes DEF TurnInv, PlaceSound, Wave
  <2>3. \A c \in wave : job[c] = "none" /\ outcomes[c] = "none" /\ effect[c] = "none"
    BY <2>1, <2>2, TurnTypes DEF TurnInv, JobsSound
  <2>4. \A c \in Call : live.completed[c] = "none"
    BY <2>1 DEF TurnInv, PlaceSound, NoOutcomes
  <2> QED  BY <2>1, <2>2, <2>3, <2>4, TurnTypes DEF TurnInv, JobsSound, Declared, ResultOf
<1>5. AllAnswered'
  BY DEF Spawn, docs, world, AllAnswered, TurnInv, Outstanding, Answered
<1> QED  BY <1>1, <1>2, <1>3, <1>4, <1>5 DEF TurnInv, DocsSound

\* A call cannot be prepared.
LEMMA CannotPrepareStep ==
    ASSUME TurnInv, CannotPrepare
    PROVE  TurnInv' /\ Ahead(saved, saved')
<1>1. DocsSound' /\ Ahead(saved, saved')
  BY DocsStay DEF CannotPrepare, docs, world
<1>2. TypeOK'
  BY TurnTypes, OutcomeFacts DEF CannotPrepare, NotShown, Fault, docs, world, work, TypeOK, Place, Effect
<1>3. PlaceSound'
  BY TurnTypes DEF CannotPrepare, NotShown, Fault, docs, world, work, TurnInv, PlaceSound, One, Wave, Declared
<1>4. JobsSound'
  BY TurnTypes, OutcomeFacts DEF CannotPrepare, NotShown, Fault, docs, world, work, TurnInv, JobsSound, PlaceSound, One, Wave, Declared, ResultOf, Honest, Untouched
<1>5. AllAnswered'
  BY DEF CannotPrepare, NotShown, Fault, docs, world, AllAnswered, TurnInv, Outstanding, Answered
<1> QED  BY <1>1, <1>2, <1>3, <1>4, <1>5 DEF TurnInv, DocsSound

\* The user interrupts the turn.
LEMMA CancelStep ==
    ASSUME TurnInv, Cancel
    PROVE  TurnInv' /\ Ahead(saved, saved')
<1>1. DocsSound' /\ Ahead(saved, saved')
  BY DocsStay DEF Cancel, docs, world
<1>2. TypeOK'
  <2>1. failing' \in BOOLEAN /\ cancelled' \in BOOLEAN
    BY TurnTypes DEF Cancel, work
  <2>2. UNCHANGED <<mode, pc, index, messages, wave, job, outcomes, decision, live, saved, effect, faults, crashes>>
    BY DEF Cancel, docs, world, work
  <2>3. TypeOK
    BY DEF TurnInv
  <2> QED  BY ONLY <2>1, <2>2, <2>3 DEF TypeOK
<1>3. PlaceSound'
  BY TurnTypes DEF Cancel, docs, world, work, TurnInv, PlaceSound, One, Wave, Declared
<1>4. JobsSound'
  BY TurnTypes, OutcomeFacts DEF Cancel, docs, world, work, TurnInv, JobsSound, PlaceSound, One, Wave, Declared, ResultOf, Honest, Untouched
<1>5. AllAnswered'
  BY DEF Cancel, docs, world, AllAnswered, TurnInv, Outstanding, Answered
<1> QED  BY <1>1, <1>2, <1>3, <1>4, <1>5 DEF TurnInv, DocsSound

\* The program stops where it is.
LEMMA CrashStep ==
    ASSUME TurnInv, Crash
    PROVE  TurnInv' /\ Ahead(saved, saved')
<1>1. DocsSound' /\ Ahead(saved, saved')
  BY DocsStay DEF Crash, docs, world
<1>2. TypeOK'
  <2>1. crashes' \in 0..MaxCrashes
    BY TurnTypes DEF Crash
  <2>2. pc' \in Place /\ job' \in [Call -> {"none", "ready", "running", "done", "panicked"}]
    BY DEF Crash, Place
  <2>3. UNCHANGED <<mode, index, messages, wave, outcomes, failing, decision, cancelled, live, saved, effect, faults>>
    BY DEF Crash, docs
  <2>4. TypeOK
    BY DEF TurnInv
  <2> QED  BY ONLY <2>1, <2>2, <2>3, <2>4 DEF TypeOK
<1>3. PlaceSound'
  BY TurnTypes DEF Crash, docs, world, work, TurnInv, PlaceSound, One, Wave, Declared
<1>4. JobsSound'
  BY TurnTypes, OutcomeFacts DEF Crash, docs, world, work, TurnInv, JobsSound, PlaceSound, One, Wave, Declared, ResultOf, Honest, Untouched
<1>5. AllAnswered'
  BY DEF Crash, docs, world, AllAnswered, TurnInv, Outstanding, Answered
<1> QED  BY <1>1, <1>2, <1>3, <1>4, <1>5 DEF TurnInv, DocsSound

\* The remaining calls, none of which has started, are told not to have run.
LEMMA RestNotExecuted ==
    ASSUME NEW m \in Seq(Answer), NEW e, MessagesSound(m, e), NEW n, n = Len(m),
           \A c \in Call \ DOMAIN m : e[c] = "none",
           NEW m2, m2 = m \o NotExecuted(Later(n))
    PROVE  /\ m2 \in Seq(Answer) /\ Len(m2) = Calls /\ DOMAIN m2 = Call
           /\ Extends(m, m2) /\ MessagesSound(m2, e)
<1>1. n \in 0..Calls /\ DOMAIN m = 1..n /\ Calls \in Nat /\ n \in Nat
  BY InOrderFacts, CallsAssumption
<1>2. PICK s : s = NotExecuted(Later(n))
  OBVIOUS
<1>3. /\ s \in Seq(Answer) /\ Len(s) = Calls - n
      /\ \A i \in 1..(Calls - n) : s[i] = [call |-> n + i, outcome |-> "not_executed"]
  BY <1>1, <1>2, NotExecutedInOrder
<1>4. m2 = m \o s
  BY <1>2
<1>5. m2 \in Seq(Answer) /\ Len(m2) = n + (Calls - n)
  BY <1>3, <1>4
<1>6. Len(m2) = Calls /\ DOMAIN m2 = Call
  BY <1>1, <1>5 DEF Call
<1>7. \A i \in 1..n : m2[i] = m[i]
  BY <1>1, <1>3, <1>4
<1>8. ASSUME NEW i \in (n + 1)..Calls PROVE m2[i] = [call |-> i, outcome |-> "not_executed"]
  <2>1. i - n \in 1..(Calls - n) /\ m2[i] = s[i - n]
    BY <1>1, <1>3, <1>4
  <2>2. n + (i - n) = i
    BY <1>1
  <2> QED  BY <2>1, <2>2, <1>3
<1>9. Extends(m, m2)
  BY <1>1, <1>6, <1>7 DEF Extends, Call
<1>10. ASSUME NEW i \in DOMAIN m2 PROVE m2[i].call = i /\ Honest(m2[i].outcome, e[i])
  <2>1. CASE i \in 1..n
    BY <1>1, <1>7, <2>1 DEF MessagesSound
  <2>2. CASE i \in (n + 1)..Calls
    <3>1. i \in Call \ DOMAIN m
      BY <1>1, <2>2 DEF Call
    <3>2. e[i] = "none"
      BY <3>1
    <3>3. m2[i] = [call |-> i, outcome |-> "not_executed"]
      BY <1>8, <2>2
    <3>4. m2[i].call = i /\ m2[i].outcome = "not_executed"
      BY <3>3
    <3> QED  BY <3>2, <3>4 DEF Honest, Untouched
  <2> QED  BY <2>1, <2>2, <1>1, <1>6 DEF Call
<1> QED  BY <1>5, <1>6, <1>9, <1>10 DEF MessagesSound

\* Results are added in memory only.
LEMMA OnlyMessages ==
    ASSUME TurnInv, NEW m, messages' = m, MessagesSound(m, effect), Extends(messages, m),
           UNCHANGED <<live, saved, effect>>
    PROVE  DocsSound' /\ Ahead(saved, saved')
<1>1. DocSound(live, m, effect) /\ DocSound(saved, m, effect)
  <2>1. PICK l, s, m0, e : l = live /\ s = saved /\ m0 = messages /\ e = effect
    OBVIOUS
  <2>2. l \in Document /\ s \in Document /\ DocSound(l, m0, e) /\ DocSound(s, m0, e) /\ Extends(m0, m)
    BY <2>1, TurnTypes DEF TurnInv
  <2>3. DocSound(l, m, e) /\ DocSound(s, m, e)
    BY ONLY <2>2, MoreResults
  <2> QED  BY <2>1, <2>3
<1> QED  BY <1>1, AheadSelf DEF TurnInv, DocsSound

\* Without a running call, what is not told has not started.
LEMMA NotStarted ==
    ASSUME TurnInv, pc \in {"begin", "next", "permit", "asking", "prepare", "abort"}
    PROVE  \A c \in Call \ DOMAIN messages : effect[c] = "none" /\ job[c] = "none" /\ outcomes[c] = "none"
BY TurnTypes DEF TurnInv, JobsSound

\* The turn is interrupted between two calls.
LEMMA CancelledBetweenStep ==
    ASSUME TurnInv, CancelledBetween
    PROVE  TurnInv' /\ Ahead(saved, saved')
<1>1. PICK m0, e, n : m0 = messages /\ e = effect /\ n = index - 1
  OBVIOUS
<1>2. PICK m : m = m0 \o NotExecuted(Later(n))
  OBVIOUS
<1>3. m0 \in Seq(Answer) /\ MessagesSound(m0, e) /\ n = Len(m0) /\ \A c \in Call \ DOMAIN m0 : e[c] = "none"
  BY <1>1, TurnTypes, NotStarted DEF TurnInv, CancelledBetween, PlaceSound
<1>4. m \in Seq(Answer) /\ Len(m) = Calls /\ DOMAIN m = Call /\ Extends(m0, m) /\ MessagesSound(m, e)
  BY ONLY <1>2, <1>3, RestNotExecuted
<1>5. messages' = m
  BY <1>1, <1>2 DEF CancelledBetween
<1>6. DocsSound' /\ Ahead(saved, saved')
  <2>1. UNCHANGED <<live, saved, effect>> /\ MessagesSound(m, effect) /\ Extends(messages, m)
    BY <1>1, <1>4 DEF CancelledBetween, docs, world
  <2> QED  BY <2>1, <1>5, OnlyMessages
<1>7. TypeOK'
  BY TurnTypes, <1>4, <1>5 DEF CancelledBetween, docs, world, work, TypeOK, Place, Effect
<1>8. PlaceSound'
  BY TurnTypes, <1>4, <1>5 DEF CancelledBetween, docs, world, work, TurnInv, PlaceSound, One, Wave, Declared
<1>9. JobsSound'
  BY TurnTypes, <1>4, <1>5 DEF CancelledBetween, docs, world, work, TurnInv, JobsSound, Declared, ResultOf
<1>10. AllAnswered'
  BY DEF CancelledBetween, AllAnswered
<1> QED  BY <1>5, <1>6, <1>7, <1>8, <1>9, <1>10 DEF TurnInv, DocsSound

\* A call cannot be noted before it runs.
LEMMA NotNotedStep ==
    ASSUME TurnInv, NotNoted
    PROVE  TurnInv' /\ Ahead(saved, saved')
<1>1. PICK m0, e, n : m0 = messages /\ e = effect /\ n = index - 1
  OBVIOUS
<1>2. PICK m : m = m0 \o NotExecuted(Later(n))
  OBVIOUS
<1>a. \A c \in Call \ DOMAIN messages : effect[c] = "none"
  BY TurnTypes DEF TurnInv, NotNoted, JobsSound, PlaceSound, One
<1>3. m0 \in Seq(Answer) /\ MessagesSound(m0, e) /\ n = Len(m0) /\ \A c \in Call \ DOMAIN m0 : e[c] = "none"
  BY <1>1, <1>a, TurnTypes DEF TurnInv, NotNoted, PlaceSound, One
<1>4. m \in Seq(Answer) /\ Len(m) = Calls /\ DOMAIN m = Call /\ Extends(m0, m) /\ MessagesSound(m, e)
  BY ONLY <1>2, <1>3, RestNotExecuted
<1>5. messages' = m
  BY <1>1, <1>2 DEF NotNoted
<1>6. DocsSound' /\ Ahead(saved, saved')
  <2>1. UNCHANGED <<live, saved, effect>> /\ MessagesSound(m, effect) /\ Extends(messages, m)
    BY <1>1, <1>4 DEF NotNoted, docs, world
  <2> QED  BY <2>1, <1>5, OnlyMessages
<1>7. TypeOK'
  <2>1. faults' \in 0..MaxFaults
    BY TurnTypes DEF NotNoted, NotShown, Fault
  <2>2. pc' \in Place /\ job' \in [Call -> {"none", "ready", "running", "done", "panicked"}]
    BY TurnTypes DEF NotNoted, Place
  <2> QED  BY <2>1, <2>2, <1>4, <1>5 DEF NotNoted, docs, TurnInv, TypeOK
<1>8. PlaceSound'
  BY TurnTypes, <1>4, <1>5 DEF NotNoted, docs, world, work, TurnInv, PlaceSound, One, Wave, Declared
<1>9. JobsSound'
  BY TurnTypes, <1>4, <1>5 DEF NotNoted, docs, world, work, TurnInv, JobsSound, PlaceSound, One, Declared, ResultOf
<1>10. AllAnswered'
  BY DEF NotNoted, AllAnswered
<1> QED  BY <1>5, <1>6, <1>7, <1>8, <1>9, <1>10 DEF TurnInv, DocsSound

\* A call begins to have its effect.
LEMMA BeginStep ==
    ASSUME TurnInv, NEW c \in Call, Begin(c)
    PROVE  TurnInv' /\ saved' = saved /\ Told(saved, c) = "none" /\ effect[c] = "none"
<1>1. /\ pc \in {"running", "working"} /\ c \in wave /\ effect[c] = "none" /\ c \notin DOMAIN messages
      /\ saved = live /\ live.called /\ live.answers = messages
  BY TurnTypes DEF TurnInv, Begin, JobsSound, PlaceSound, One, Wave
<1>2. Told(live, c) = "none" /\ Covers(live, c)
  <2>1. CASE pc = "running"
    BY <1>1, <2>1, TurnTypes DEF TurnInv, PlaceSound, One, Told, NoOutcomes, Covers
  <2>2. CASE pc = "working"
    <3>1. live.completed[c] = "none"
      BY <1>1, <2>2, TurnTypes DEF TurnInv, JobsSound, Begin
    <3> QED  BY <1>1, <2>2, <3>1, TurnTypes DEF TurnInv, PlaceSound, Wave, Told, Covers
  <2> QED  BY <1>1, <2>1, <2>2
<1>3. PICK e \in Effect, d \in Document, m \in Seq(Answer) : e = effect /\ d = live /\ m = messages
  BY TurnTypes
<1>4. PICK f : f = [e EXCEPT ![c] = "running"]
  OBVIOUS
<1>5. f \in Effect /\ f[c] = "running" /\ \A b \in Call \ {c} : f[b] = e[b]
  BY <1>4 DEF Effect
<1>6. effect' = f /\ UNCHANGED <<mode, pc, index, wave, messages, outcomes, failing, decision, cancelled, live, saved, faults, crashes>>
  BY <1>3, <1>4 DEF Begin, docs
<1>7. DocSound(d, m, f)
  <2>1. DocSound(d, m, e) /\ d.called /\ Told(d, c) = "none" /\ Covers(d, c)
    BY <1>1, <1>2, <1>3 DEF TurnInv
  <2>2. DocSound(d, m, [e EXCEPT ![c] = "running"])
    BY ONLY <2>1, <1>3, CoveredStarts
  <2> QED  BY <1>4, <2>2
<1>8. DocsSound'
  <2>1. MessagesSound(m, f)
    <3>1. MessagesSound(m, e) /\ c \notin DOMAIN m /\ DOMAIN m \subseteq Call
      BY <1>1, <1>3, TurnTypes DEF TurnInv
    <3> QED  BY <3>1, <1>5 DEF MessagesSound
  <2> QED  BY <2>1, <1>1, <1>3, <1>6, <1>7 DEF DocsSound, TurnInv
<1>9. TypeOK'
  <2>1. job' \in [Call -> {"none", "ready", "running", "done", "panicked"}]
    BY TurnTypes DEF Begin
  <2> QED  BY <1>5, <1>6, <2>1 DEF TurnInv, TypeOK, Effect
<1>10. PlaceSound'
  BY <1>6, TurnTypes DEF TurnInv, PlaceSound, One, Wave, Declared
<1>11. JobsSound'
  <2>1. /\ job[c] = "ready" /\ job'[c] = "running"
        /\ \A b \in Call \ {c} : job'[b] = job[b] /\ effect'[b] = effect[b]
        /\ effect'[c] = "running"
    BY <1>3, <1>5, <1>6, TurnTypes DEF Begin
  <2>2. wave \subseteq Call /\ (pc = "running" => index \in Call)
    BY TurnTypes DEF TurnInv, PlaceSound, One
  <2> QED  BY <1>1, <1>6, <2>1, <2>2 DEF TurnInv, JobsSound, Declared, ResultOf
<1>12. AllAnswered'
  BY <1>6 DEF TurnInv, AllAnswered, Outstanding, Answered
<1> QED  BY <1>1, <1>2, <1>6, <1>8, <1>9, <1>10, <1>11, <1>12 DEF TurnInv, DocsSound

\* A call ends, or panics; either way its effect is as its result tells.
LEMMA EndStep ==
    ASSUME TurnInv, NEW c \in Call, End(c)
    PROVE  /\ TurnInv' /\ saved' = saved /\ effect[c] = "running"
           /\ effect' \in {effect, [effect EXCEPT ![c] = "done"]}
<1>1. /\ pc \in {"running", "working"} /\ c \in wave /\ effect[c] = "running" /\ c \notin DOMAIN messages
  BY TurnTypes DEF TurnInv, End, JobsSound, PlaceSound, One, Wave
<1>2. /\ UNCHANGED <<mode, pc, index, wave, messages, outcomes, failing, decision, cancelled, live, saved, faults, crashes>>
      /\ effect' \in {effect, [effect EXCEPT ![c] = "done"]}
  BY DEF End, docs
<1>3. PICK e \in Effect, d \in Document, s \in Document, m \in Seq(Answer) : e = effect /\ d = live /\ s = saved /\ m = messages
  BY TurnTypes
<1>4. PICK f : f = [e EXCEPT ![c] = "done"]
  OBVIOUS
<1>5. f \in Effect /\ f[c] = "done" /\ \A b \in Call \ {c} : f[b] = e[b]
  BY <1>4 DEF Effect
<1>6. DocSound(d, m, e) /\ DocSound(s, m, e) /\ e[c] = "running" /\ MessagesSound(m, e)
  BY <1>1, <1>3 DEF TurnInv
<1>7. DocSound(d, m, [e EXCEPT ![c] = "done"]) /\ DocSound(s, m, [e EXCEPT ![c] = "done"])
  BY ONLY <1>3, <1>6, StartedEnds
<1>8. DocSound(d, m, f) /\ DocSound(s, m, f)
  BY <1>4, <1>7
<1>9. MessagesSound(m, f)
  <2>1. c \notin DOMAIN m /\ DOMAIN m \subseteq Call
    BY <1>1, <1>3, TurnTypes
  <2> QED  BY <2>1, <1>5, <1>6 DEF MessagesSound
<1>10. effect' \in {e, f}
  BY <1>2, <1>3, <1>4
<1>11. DocsSound'
  BY <1>2, <1>3, <1>6, <1>8, <1>9, <1>10 DEF DocsSound, TurnInv
<1>12. TypeOK'
  <2>1. job' \in [Call -> {"none", "ready", "running", "done", "panicked"}]
    BY TurnTypes DEF End
  <2> QED  BY <1>2, <1>3, <1>5, <1>10, <2>1 DEF TurnInv, TypeOK, Effect
<1>13. PlaceSound'
  BY <1>2, TurnTypes DEF TurnInv, PlaceSound, One, Wave, Declared
<1>14. JobsSound'
  <2>1. CASE job' = [job EXCEPT ![c] = "done"] /\ effect' = f
    BY <1>1, <1>2, <1>3, <1>5, <2>1, TurnTypes DEF TurnInv, End, JobsSound, PlaceSound, One, Declared, ResultOf, Honest
  <2>2. CASE job' = [job EXCEPT ![c] = "panicked"] /\ effect' = effect /\ pc = "working"
    BY <1>1, <1>2, <2>2, TurnTypes DEF TurnInv, End, JobsSound, PlaceSound, One, Declared, ResultOf, Honest
  <2> QED  BY <1>3, <1>4, <2>1, <2>2 DEF End
<1>15. AllAnswered'
  BY <1>2 DEF TurnInv, AllAnswered, Outstanding, Answered
<1> QED  BY <1>1, <1>2, <1>11, <1>12, <1>13, <1>14, <1>15 DEF TurnInv, DocsSound

\* A checkpoint, saved or not, of a document that is sound and ahead.
LEMMA Checkpointed ==
    ASSUME TurnInv, NEW d \in Document, NEW m, NEW m2, DocSound(d, m, effect), Extends(messages, m2),
           Extends(m, m2), MessagesSound(m2, effect), Ahead(live, d),
           messages' = m2, effect' = effect,
           Saves(d) \/ SaveFails(d) \/ (live' = d /\ saved' = d /\ NotShown)
    PROVE  /\ DocsSound' /\ Ahead(saved, saved') /\ live' = d /\ live' \in Document /\ saved' \in Document
           /\ faults' \in 0..MaxFaults
<1>1. live' = d /\ saved' \in {saved, d} /\ faults' \in 0..MaxFaults
  <2>1. faults \in 0..MaxFaults /\ MaxFaults \in Nat
    BY TurnTypes
  <2> QED  BY <2>1 DEF Saves, SaveFails, NotShown, Fault
<1>2. PICK l, s, m0, e : l = live /\ s = saved /\ m0 = messages /\ e = effect
  OBVIOUS
<1>3. /\ l \in Document /\ s \in Document /\ DocSound(l, m0, e) /\ DocSound(s, m0, e) /\ Ahead(s, l)
      /\ Extends(m0, m2) /\ Extends(m, m2) /\ DocSound(d, m, e) /\ Ahead(l, d)
  BY <1>2, TurnTypes DEF TurnInv
<1>4. DocSound(s, m2, e) /\ DocSound(d, m2, e)
  BY ONLY <1>3, d \in Document, MoreResults
<1>5. Ahead(s, d) /\ Ahead(d, d) /\ Ahead(s, s)
  BY <1>3, AheadTrans, AheadSelf
<1>6. DocSound(live', m2, e) /\ DocSound(saved', m2, e) /\ Ahead(saved', live') /\ Ahead(saved, saved')
  BY <1>1, <1>2, <1>4, <1>5
<1> QED  BY <1>1, <1>2, <1>3, <1>6 DEF DocsSound

\* A sequence extends itself.
LEMMA ExtendsSelf == ASSUME NEW m PROVE Extends(m, m)
BY DEF Extends

\* A call waits for permission.
LEMMA AsksStep ==
    ASSUME TurnInv, Asks
    PROVE  TurnInv' /\ Ahead(saved, saved')
<1>1. /\ index \in Call /\ index \notin DOMAIN messages /\ live.called /\ live.active /\ live.answers = messages
      /\ live.tool = index /\ live.reads = {} /\ live.batch = {} /\ live.completed = NoOutcomes
      /\ live.waiting \subseteq DOMAIN messages \cup {index} /\ wave = {index} /\ Len(messages) = index - 1
  BY TurnTypes DEF Asks, TurnInv, PlaceSound, One
<1>2. PICK l \in Document, m \in Seq(Answer), e \in Effect, i \in Call :
         l = live /\ m = messages /\ e = effect /\ i = index
  BY <1>1, TurnTypes
<1>3. PICK cs : cs = l.waiting \cup {i}
  OBVIOUS
<1>4. PICK d : d = [l EXCEPT !.waiting = cs]
  OBVIOUS
<1>5. cs \in SUBSET Call
  BY <1>3 DEF Document
<1>6. Fields([l EXCEPT !.waiting = cs], l.called, l.answers, l.active, l.tool, l.reads, l.batch, l.completed, cs)
  BY ONLY <1>2, <1>5, l \in Document, WaitingFields
<1>7. Fields(d, TRUE, m, TRUE, i, {}, {}, NoOutcomes, cs)
  <2>1. l.called = TRUE /\ l.active = TRUE
    BY <1>1, <1>2 DEF Document
  <2> QED  BY <1>1, <1>2, <1>4, <1>6, <2>1 DEF Fields
<1>8. d \in Document /\ MessagesSound(m, e) /\ d.called /\ d.answers = m
  BY <1>2, <1>7 DEF Fields, TurnInv
<1>9. \A c \in Call \ DOMAIN m : e[c] = "none" /\ d.completed[c] = "none"
  BY <1>2, <1>7, NotStarted, NoOutcomesType DEF Asks, Fields
<1>10. Valid(d)
  BY <1>1, <1>2, <1>7, <1>8, NoOutcomesType, ValidDocument DEF Fields
<1>11. DocSound(d, m, e)
  BY <1>8, <1>9, <1>10, SyncedSound
<1>12. Ahead(l, d)
  <2>1. DocSound(l, m, e) /\ l.completed = NoOutcomes
    BY <1>1, <1>2 DEF TurnInv
  <2> QED  BY <1>8, <2>1, ExtendsSelf, NoOutcomesType, SyncedAhead
<1>13. messages' = m /\ effect' = effect /\ Saves(d)
  BY <1>2, <1>3, <1>4 DEF Asks, SavesEvent
<1>14. /\ DocsSound' /\ Ahead(saved, saved') /\ live' = d /\ live' \in Document /\ saved' \in Document
       /\ faults' \in 0..MaxFaults
  <2>1. DocSound(d, m, effect) /\ Extends(messages, m) /\ Extends(m, m) /\ MessagesSound(m, effect) /\ Ahead(live, d)
    BY <1>2, <1>8, <1>11, <1>12, ExtendsSelf
  <2> QED  BY <1>8, <1>13, <2>1, Checkpointed
<1>15. TypeOK'
  BY <1>14 DEF Asks, TurnInv, TypeOK, Place
<1>16. PlaceSound'
  BY <1>1, <1>2, <1>3, <1>7, <1>13, <1>14, TurnTypes DEF Asks, Saves, SavesEvent, PlaceSound, One, Wave, Fields
<1>17. JobsSound'
  BY <1>14, TurnTypes DEF Asks, TurnInv, JobsSound, Declared, ResultOf
<1>18. AllAnswered'
  BY DEF Asks, AllAnswered
<1> QED  BY <1>14, <1>15, <1>16, <1>17, <1>18 DEF TurnInv, DocsSound

\* A checkpoint while no call without a result has started or is told of.
LEMMA QuietCheckpoint ==
    ASSUME TurnInv, NEW d \in Document, NEW m \in Seq(Answer), MessagesSound(m, effect), Extends(messages, m),
           d.called, d.answers = m, Valid(d), d.completed = NoOutcomes, live.completed = NoOutcomes,
           \A c \in Call \ DOMAIN m : effect[c] = "none",
           NEW m2, Extends(m, m2), MessagesSound(m2, effect), messages' = m2, effect' = effect,
           Saves(d) \/ SaveFails(d) \/ (live' = d /\ saved' = d /\ NotShown)
    PROVE  /\ DocsSound' /\ Ahead(saved, saved') /\ live' = d /\ live' \in Document /\ saved' \in Document
           /\ faults' \in 0..MaxFaults
<1>1. PICK l \in Document, m0 \in Seq(Answer), e \in Effect : l = live /\ m0 = messages /\ e = effect
  BY TurnTypes
<1>2. /\ MessagesSound(m, e) /\ DocSound(l, m0, e) /\ Extends(m0, m)
      /\ \A c \in Call \ DOMAIN m : d.completed[c] = "none" /\ e[c] = "none"
      /\ \A c \in Call : l.completed[c] = "none"
  BY <1>1, NoOutcomesType DEF TurnInv
<1>3. DocSound(d, m, e)
  BY <1>2, SyncedSound
<1>4. Ahead(l, d)
  BY <1>2, SyncedAhead
<1>5. Extends(messages, m2) /\ DocSound(d, m, effect) /\ Ahead(live, d)
  BY <1>1, <1>3, <1>4 DEF Extends
<1> QED  BY <1>5, Checkpointed

\* The mode of a call is decided.
LEMMA DecideStep ==
    ASSUME TurnInv, Decide
    PROVE  TurnInv' /\ Ahead(saved, saved')
<1>1. /\ index \in Call /\ index \notin DOMAIN messages /\ live.called /\ live.active /\ live.answers = messages
      /\ live.tool = index /\ live.reads = {} /\ live.batch = {} /\ live.completed = NoOutcomes
      /\ live.waiting \subseteq DOMAIN messages \cup {index} /\ wave = {index} /\ Len(messages) = index - 1
  BY TurnTypes DEF Decide, TurnInv, PlaceSound, One
<1>2. PICK l \in Document, m \in Seq(Answer), e \in Effect, i \in Call :
         l = live /\ m = messages /\ e = effect /\ i = index
  BY <1>1, TurnTypes
<1>3. PICK cs : cs = l.waiting \ {i}
  OBVIOUS
<1>4. PICK d : d = [l EXCEPT !.waiting = cs]
  OBVIOUS
<1>5. cs \in SUBSET Call
  BY <1>3 DEF Document
<1>6. Fields([l EXCEPT !.waiting = cs], l.called, l.answers, l.active, l.tool, l.reads, l.batch, l.completed, cs)
  BY ONLY <1>2, <1>5, l \in Document, WaitingFields
<1>7. Fields(d, TRUE, m, TRUE, i, {}, {}, NoOutcomes, cs)
  <2>1. l.called = TRUE /\ l.active = TRUE
    BY <1>1, <1>2 DEF Document
  <2> QED  BY <1>1, <1>2, <1>4, <1>6, <2>1 DEF Fields
<1>8. d \in Document /\ MessagesSound(m, e) /\ d.called /\ d.answers = m /\ d.completed = NoOutcomes
  BY <1>2, <1>7 DEF Fields, TurnInv
<1>9. \A c \in Call \ DOMAIN m : e[c] = "none"
  BY <1>2, NotStarted DEF Decide
<1>10. Valid(d)
  BY <1>1, <1>2, <1>7, <1>8, NoOutcomesType, ValidDocument DEF Fields
<1>11. /\ MessagesSound(m, effect) /\ Extends(messages, m) /\ Extends(m, m)
       /\ \A c \in Call \ DOMAIN m : effect[c] = "none"
       /\ messages' = m /\ effect' = effect /\ Saves(d) /\ live.completed = NoOutcomes
  BY <1>1, <1>2, <1>3, <1>4, <1>8, <1>9, ExtendsSelf DEF Decide, SavesEvent
<1>12. /\ DocsSound' /\ Ahead(saved, saved') /\ live' = d /\ live' \in Document /\ saved' \in Document
       /\ faults' \in 0..MaxFaults
  BY <1>8, <1>10, <1>11, QuietCheckpoint
<1>13. TypeOK'
  BY <1>12 DEF Decide, TurnInv, TypeOK, Place
<1>14. PlaceSound'
  BY <1>1, <1>2, <1>3, <1>7, <1>11, <1>12, TurnTypes DEF Decide, Saves, SavesEvent, PlaceSound, One, Wave, Fields
<1>15. JobsSound'
  BY <1>12, TurnTypes DEF Decide, TurnInv, JobsSound, Declared, ResultOf
<1>16. AllAnswered'
  BY DEF Decide, AllAnswered
<1> QED  BY <1>12, <1>13, <1>14, <1>15, <1>16 DEF TurnInv, DocsSound

\* The results of a turn none of whose calls ran.
LEMMA CompletionStep ==
    ASSUME TurnInv, Completion
    PROVE  TurnInv' /\ Ahead(saved, saved')
<1>1. /\ pc = "begin" /\ messages = <<>> /\ index = 1 /\ live.active /\ Idle(live) /\ saved = live
      /\ live.completed = NoOutcomes /\ live.waiting \subseteq DOMAIN messages /\ live.answers = <<>>
  BY DEF Completion, TurnInv, PlaceSound, DocSound
<1>2. PICK l \in Document, m \in Seq(Answer), e \in Effect : l = live /\ m = messages /\ e = effect
  BY TurnTypes
<1>3. PICK d : d = [l EXCEPT !.called = TRUE]
  OBVIOUS
<1>4. Fields([l EXCEPT !.called = TRUE], TRUE, l.answers, l.active, l.tool, l.reads, l.batch, l.completed, l.waiting)
  BY CalledFields
<1>5. Fields(d, TRUE, m, TRUE, NoCall, {}, {}, NoOutcomes, l.waiting)
  <2>1. l.active = TRUE
    BY <1>1, <1>2 DEF Document
  <2> QED  BY <1>1, <1>2, <1>3, <1>4, <2>1 DEF Fields, Idle
<1>6. d \in Document /\ MessagesSound(m, e) /\ d.called /\ d.answers = m /\ d.completed = NoOutcomes
  BY <1>2, <1>5 DEF Fields, TurnInv
<1>7. \A c \in Call \ DOMAIN m : e[c] = "none"
  BY <1>1, <1>2, NotStarted
<1>8. Valid(d)
  BY <1>1, <1>2, <1>5, <1>6, NoOutcomesType, ValidDocument DEF Fields
<1>9. PICK m3 : m3 = m \o NotExecuted(Later(0))
  OBVIOUS
<1>10. m3 \in Seq(Answer) /\ Len(m3) = Calls /\ DOMAIN m3 = Call /\ Extends(m, m3) /\ MessagesSound(m3, e)
  <2>1. 0 = Len(m)
    BY <1>1, <1>2
  <2> QED  BY ONLY <1>6, <1>7, <1>9, <2>1, m \in Seq(Answer), RestNotExecuted
<1>11. m3 = NotExecuted(Call)
  <2>1. Later(0) = Call
    BY TurnTypes DEF Later
  <2>2. 0 \in 0..Calls
    BY TurnTypes
  <2>3. NotExecuted(Later(0)) \in Seq(Answer)
    BY ONLY <2>2, NotExecutedInOrder
  <2>4. m = <<>>
    BY <1>1, <1>2
  <2> QED  BY <2>1, <2>3, <2>4, <1>9
<1>12. /\ messages' \in {m, m3}
       /\ effect' = effect
       /\ Saves(d) \/ SaveFails(d) \/ (live' = d /\ saved' = d /\ NotShown)
       /\ \/ pc' = "next" /\ Saves(d) /\ messages' = m
          \/ pc' = "end" /\ messages' = m3
  BY <1>2, <1>3, <1>11 DEF Completion
<1>13. /\ MessagesSound(m, effect) /\ Extends(messages, m) /\ Extends(m, messages') /\ MessagesSound(messages', effect)
       /\ \A c \in Call \ DOMAIN m : effect[c] = "none"
       /\ live.completed = NoOutcomes
  BY <1>1, <1>2, <1>6, <1>7, <1>10, <1>12, ExtendsSelf
<1>14. /\ DocsSound' /\ Ahead(saved, saved') /\ live' = d /\ live' \in Document /\ saved' \in Document
       /\ faults' \in 0..MaxFaults
  <2>1. PICK m2 : m2 = messages'
    OBVIOUS
  <2>2. Extends(m, m2) /\ MessagesSound(m2, effect) /\ messages' = m2
    BY <1>13, <2>1
  <2> QED  BY <1>6, <1>8, <1>12, <1>13, <2>2, QuietCheckpoint
<1>15. TypeOK'
  BY <1>10, <1>12, <1>14 DEF Completion, work, TurnInv, TypeOK, Place
<1>16. PlaceSound'
  <2>1. CASE pc' = "next" /\ Saves(d) /\ messages' = m
    BY <1>1, <1>2, <1>5, <1>14, <2>1, TurnTypes DEF Completion, work, Saves, PlaceSound, One, Wave, Idle, Fields
  <2>2. CASE pc' = "end" /\ messages' = m3
    BY <1>1, <1>2, <1>5, <1>10, <1>14, <2>2, TurnTypes DEF Completion, work, PlaceSound, One, Wave, Fields
  <2> QED  BY <1>12, <2>1, <2>2
<1>17. JobsSound'
  <2>1. DOMAIN messages \subseteq DOMAIN messages'
    BY <1>2, <1>10, <1>12, <1>13 DEF Extends
  <2> QED  BY <1>1, <1>12, <2>1, TurnTypes DEF Completion, work, TurnInv, JobsSound, Declared, ResultOf
<1>18. AllAnswered'
  BY <1>12 DEF AllAnswered
<1> QED  BY <1>14, <1>15, <1>16, <1>17, <1>18 DEF TurnInv, DocsSound

\* The documents of a save before a call: all results in memory, no call's result.
LEMMA StartOneStep ==
    ASSUME TurnInv, StartOne
    PROVE  TurnInv' /\ Ahead(saved, saved')
<1>1. /\ pc = "next" /\ index \in Call /\ live.called /\ live.active /\ Idle(live) /\ live.answers = messages
      /\ live.completed = NoOutcomes /\ live.waiting \subseteq DOMAIN messages /\ Len(messages) = index - 1
      /\ index \notin DOMAIN messages
  BY TurnTypes DEF StartOne, TurnInv, PlaceSound
<1>2. PICK l \in Document, m \in Seq(Answer), e \in Effect, i \in Call :
         l = live /\ m = messages /\ e = effect /\ i = index
  BY <1>1, TurnTypes
<1>3. PICK s : s = [l EXCEPT !.answers = m, !.called = TRUE]
  OBVIOUS
<1>4. PICK d : d = [s EXCEPT !.tool = i]
  OBVIOUS
<1>5. Fields(s, TRUE, m, l.active, l.tool, l.reads, l.batch, l.completed, l.waiting)
  <2>1. TRUE \in BOOLEAN
    OBVIOUS
  <2>2. Fields([l EXCEPT !.answers = m, !.called = TRUE],
               TRUE, m, l.active, l.tool, l.reads, l.batch, l.completed, l.waiting)
    BY ONLY <2>1, l \in Document, m \in Seq(Answer), SyncFields
  <2> QED  BY <1>3, <2>2
<1>6. Fields(d, TRUE, m, TRUE, i, {}, {}, NoOutcomes, l.waiting)
  <2>1. s \in Document /\ i \in Call \cup {NoCall}
    BY <1>5 DEF Fields
  <2>2. Fields([s EXCEPT !.tool = i], s.called, s.answers, s.active, i, s.reads, s.batch, s.completed, s.waiting)
    BY ONLY <2>1, ToolFields
  <2>3. l.active = TRUE
    BY <1>1, <1>2 DEF Document
  <2> QED  BY <1>1, <1>2, <1>4, <1>5, <2>2, <2>3 DEF Fields, Idle
<1>7. d \in Document /\ MessagesSound(m, e) /\ d.called /\ d.answers = m /\ d.completed = NoOutcomes
  BY <1>2, <1>6 DEF Fields, TurnInv
<1>8. \A c \in Call \ DOMAIN m : e[c] = "none"
  BY <1>1, <1>2, NotStarted
<1>9. Valid(d)
  BY <1>1, <1>2, <1>6, <1>7, NoOutcomesType, ValidDocument DEF Fields
<1>10. PICK n : n = i - 1
  OBVIOUS
<1>11. PICK m3 : m3 = m \o NotExecuted(Later(n))
  OBVIOUS
<1>12. m3 \in Seq(Answer) /\ Len(m3) = Calls /\ DOMAIN m3 = Call /\ Extends(m, m3) /\ MessagesSound(m3, e)
  <2>1. n = Len(m)
    BY <1>1, <1>2, <1>10
  <2> QED  BY ONLY <1>7, <1>8, <1>11, <2>1, m \in Seq(Answer), RestNotExecuted
<1>13. Tool(Synced, index) = d
  <2>1. (pc # "begin") = TRUE
    BY <1>1
  <2> QED  BY <1>2, <1>3, <1>4, <2>1 DEF Tool, Synced
<1>14. /\ effect' = effect
       /\ Saves(d) \/ SaveFails(d) \/ (live' = d /\ saved' = d /\ NotShown)
       /\ \/ pc' = "permit" /\ Saves(d) /\ messages' = m
          \/ pc' = "end" /\ messages' = m3
  BY <1>2, <1>10, <1>11, <1>13 DEF StartOne
<1>15. /\ MessagesSound(m, effect) /\ Extends(messages, m) /\ Extends(m, messages') /\ MessagesSound(messages', effect)
       /\ \A c \in Call \ DOMAIN m : effect[c] = "none"
       /\ live.completed = NoOutcomes
  BY <1>1, <1>2, <1>7, <1>8, <1>12, <1>14, ExtendsSelf
<1>16. /\ DocsSound' /\ Ahead(saved, saved') /\ live' = d /\ live' \in Document /\ saved' \in Document
       /\ faults' \in 0..MaxFaults
  <2>1. PICK m2 : m2 = messages'
    OBVIOUS
  <2>2. Extends(m, m2) /\ MessagesSound(m2, effect) /\ messages' = m2
    BY <1>15, <2>1
  <2> QED  BY <1>7, <1>9, <1>14, <1>15, <2>2, QuietCheckpoint
<1>17. TypeOK'
  <2>1. failing' \in BOOLEAN /\ cancelled' \in BOOLEAN /\ wave' \subseteq Call /\ pc' \in Place
    BY <1>1, <1>14, TurnTypes DEF StartOne, Place
  <2> QED  BY <1>12, <1>14, <1>16, <2>1, <1>2 DEF StartOne, TurnInv, TypeOK
<1>18. PlaceSound'
  <2>1. CASE pc' = "permit" /\ Saves(d) /\ messages' = m
    BY <1>1, <1>2, <1>6, <1>16, <2>1, TurnTypes DEF StartOne, Saves, PlaceSound, One, Wave, Fields
  <2>2. CASE pc' = "end" /\ messages' = m3
    BY <1>1, <1>2, <1>6, <1>12, <1>16, <2>2, TurnTypes DEF StartOne, PlaceSound, One, Wave, Fields
  <2> QED  BY <1>14, <2>1, <2>2
<1>19. JobsSound'
  <2>1. DOMAIN messages \subseteq DOMAIN messages'
    BY <1>2, <1>15 DEF Extends
  <2> QED  BY <1>1, <1>14, <2>1, TurnTypes DEF StartOne, TurnInv, JobsSound, Declared, ResultOf
<1>20. AllAnswered'
  BY <1>14 DEF AllAnswered
<1> QED  BY <1>14, <1>16, <1>17, <1>18, <1>19, <1>20 DEF TurnInv, DocsSound

-----------------------------------------------------------------------------
(* Results, one after another.                                             *)

\* One more result.
LEMMA OneMoreResult ==
    ASSUME NEW m \in Seq(Answer), NEW e, MessagesSound(m, e), NEW a \in Answer, a.call = Len(m) + 1,
           Honest(a.outcome, e[a.call])
    PROVE  /\ Append(m, a) \in Seq(Answer) /\ Len(Append(m, a)) = a.call
           /\ DOMAIN Append(m, a) = DOMAIN m \cup {a.call}
           /\ Extends(m, Append(m, a)) /\ MessagesSound(Append(m, a), e)
<1>1. DOMAIN m = 1..Len(m) /\ Len(m) \in Nat
  OBVIOUS
<1>2. PICK m2, i : m2 = Append(m, a) /\ i = a.call
  OBVIOUS
<1>5. m2 \in Seq(Answer) /\ Len(m2) = i /\ m2[i] = a /\ \A k \in 1..Len(m) : m2[k] = m[k]
  BY <1>1, <1>2
<1>6. DOMAIN m2 = DOMAIN m \cup {i}
  BY <1>1, <1>2, <1>5
<1>7. Extends(m, m2)
  BY <1>1, <1>5, <1>6 DEF Extends
<1>8. ASSUME NEW k \in DOMAIN m2 PROVE m2[k].call = k /\ Honest(m2[k].outcome, e[k])
  <2>1. CASE k \in DOMAIN m
    BY <1>1, <1>5, <2>1 DEF MessagesSound
  <2>2. CASE k = i
    BY <1>2, <1>5, <2>2
  <2> QED  BY <1>6, <2>1, <2>2
<1>9. MessagesSound(m2, e)
  BY <1>8 DEF MessagesSound
<1> QED  BY ONLY <1>2, <1>5, <1>6, <1>7, <1>9

\* The document takes the results m.
LEMMA SyncedFields ==
    ASSUME TurnInv, pc # "begin", NEW m \in Seq(Answer)
    PROVE  Fields([Synced EXCEPT !.answers = m], TRUE, m, live.active, live.tool, live.reads, live.batch,
                  live.completed, live.waiting)
<1>1. PICK l \in Document, m0 \in Seq(Answer) : l = live /\ m0 = messages
  BY TurnTypes
<1>2. PICK s : s = [l EXCEPT !.answers = m0, !.called = TRUE]
  OBVIOUS
<1>3. s = Synced
  <2>1. (pc # "begin") = TRUE
    OBVIOUS
  <2> QED  BY <1>1, <1>2, <2>1 DEF Synced
<1>4. TRUE \in BOOLEAN
  OBVIOUS
<1>5. Fields([l EXCEPT !.answers = m0, !.called = TRUE],
             TRUE, m0, l.active, l.tool, l.reads, l.batch, l.completed, l.waiting)
  BY ONLY <1>4, l \in Document, m0 \in Seq(Answer), SyncFields
<1>6. s \in Document
  BY <1>2, <1>5 DEF Fields
<1>7. Fields([s EXCEPT !.answers = m],
             s.called, m, s.active, s.tool, s.reads, s.batch, s.completed, s.waiting)
  BY ONLY <1>6, m \in Seq(Answer), AnswersFields
<1>8. s.called = TRUE /\ s.active = l.active /\ s.tool = l.tool /\ s.reads = l.reads /\ s.batch = l.batch
      /\ s.completed = l.completed /\ s.waiting = l.waiting
  BY <1>2, <1>5 DEF Fields
<1> QED  BY <1>1, <1>3, <1>7, <1>8

\* The fields of the document of a turn that has just taken its results.
LEMMA JustSynced ==
    ASSUME TurnInv, pc # "begin"
    PROVE  Fields(Synced, TRUE, messages, live.active, live.tool, live.reads, live.batch,
                  live.completed, live.waiting)
<1>1. PICK l \in Document, m0 \in Seq(Answer) : l = live /\ m0 = messages
  BY TurnTypes
<1>2. PICK s : s = [l EXCEPT !.answers = m0, !.called = TRUE]
  OBVIOUS
<1>3. s = Synced
  <2>1. (pc # "begin") = TRUE
    OBVIOUS
  <2> QED  BY <1>1, <1>2, <2>1 DEF Synced
<1>4. TRUE \in BOOLEAN
  OBVIOUS
<1>5. Fields([l EXCEPT !.answers = m0, !.called = TRUE],
             TRUE, m0, l.active, l.tool, l.reads, l.batch, l.completed, l.waiting)
  BY ONLY <1>4, l \in Document, m0 \in Seq(Answer), SyncFields
<1> QED  BY <1>1, <1>2, <1>3, <1>5

\* A single call is finished.
LEMMA FinishOneStep ==
    ASSUME TurnInv, FinishOne
    PROVE  TurnInv' /\ Ahead(saved, saved')
<1>1. /\ pc = "result" /\ index \in Call /\ live.called /\ live.active /\ live.answers = messages
      /\ live.tool = index /\ live.reads = {} /\ live.batch = {} /\ live.completed = NoOutcomes
      /\ live.waiting \subseteq DOMAIN messages \cup {index} /\ wave = {index} /\ Len(messages) = index - 1
      /\ outcomes[index] \in Outcome /\ Honest(outcomes[index], effect[index])
  BY TurnTypes, OutcomeFacts DEF FinishOne, TurnInv, PlaceSound, JobsSound, One
<1>2. PICK l \in Document, m0 \in Seq(Answer), e \in Effect, i \in Call, o \in Outcome :
         l = live /\ m0 = messages /\ e = effect /\ i = index /\ o = outcomes[index]
  BY <1>1, TurnTypes
<1>a. PICK a \in Answer : a = [call |-> i, outcome |-> o]
  BY DEF Answer
<1>3. PICK m : m = Append(m0, a)
  OBVIOUS
<1>4. m \in Seq(Answer) /\ Len(m) = i /\ DOMAIN m = DOMAIN m0 \cup {i} /\ Extends(m0, m) /\ MessagesSound(m, e)
  <2>1. a.call = i /\ Honest(a.outcome, e[a.call])
    BY <1>1, <1>2, <1>a
  <2>2. a.call = Len(m0) + 1 /\ MessagesSound(m0, e)
    BY <1>1, <1>2, <2>1, TurnTypes DEF TurnInv
  <2>3. m0 \in Seq(Answer) /\ a \in Answer
    OBVIOUS
  <2>4. /\ Append(m0, a) \in Seq(Answer) /\ Len(Append(m0, a)) = a.call
        /\ DOMAIN Append(m0, a) = DOMAIN m0 \cup {a.call}
        /\ Extends(m0, Append(m0, a)) /\ MessagesSound(Append(m0, a), e)
    BY ONLY <2>1, <2>2, <2>3, OneMoreResult
  <2> QED  BY ONLY <1>3, <2>1, <2>4
<1>5. PICK s : s = [Synced EXCEPT !.answers = m]
  OBVIOUS
<1>6. Fields(s, TRUE, m, TRUE, i, {}, {}, NoOutcomes, l.waiting)
  <2>1. Fields([Synced EXCEPT !.answers = m], TRUE, m, live.active, live.tool, live.reads, live.batch,
               live.completed, live.waiting)
    BY <1>1, <1>4, SyncedFields
  <2>2. l.active = TRUE
    BY <1>1, <1>2 DEF Document
  <2> QED  BY <1>1, <1>2, <1>5, <2>1, <2>2
<1>7. PICK d : d = [s EXCEPT !.tool = NoCall]
  OBVIOUS
<1>8. Fields(d, TRUE, m, TRUE, NoCall, {}, {}, NoOutcomes, l.waiting)
  <2>1. s \in Document /\ NoCall \in Call \cup {NoCall}
    BY <1>6 DEF Fields
  <2>2. Fields([s EXCEPT !.tool = NoCall], s.called, s.answers, s.active, NoCall, s.reads, s.batch, s.completed,
               s.waiting)
    BY ONLY <2>1, ToolFields
  <2> QED  BY <1>6, <1>7, <2>2 DEF Fields
<1>9. d \in Document /\ d.called /\ d.answers = m /\ d.completed = NoOutcomes
  BY <1>8 DEF Fields
<1>10. \A c \in Call \ DOMAIN m : e[c] = "none"
  BY <1>1, <1>2, <1>4, TurnTypes DEF TurnInv, JobsSound
<1>11. Valid(d)
  BY <1>4, <1>8, <1>9, NoOutcomesType, ValidDocument DEF Fields
<1>12. PICK m3 : m3 = m \o NotExecuted(Later(i))
  OBVIOUS
<1>13. m3 \in Seq(Answer) /\ Len(m3) = Calls /\ DOMAIN m3 = Call /\ Extends(m, m3) /\ MessagesSound(m3, e)
  <2>1. i = Len(m)
    BY <1>4
  <2> QED  BY ONLY <1>4, <1>10, <1>12, <2>1, RestNotExecuted
<1>14. /\ effect' = effect
       /\ Saves(d) \/ SaveFails(d) \/ (live' = d /\ saved' = d /\ NotShown)
       /\ \/ pc' = "next" /\ Saves(d) /\ messages' = m /\ index' = index + 1
          \/ pc' = "end" /\ messages' = m3 /\ index' = index
  BY <1>2, <1>a, <1>3, <1>5, <1>7, <1>12 DEF FinishOne, ToolFinished
<1>15. /\ MessagesSound(m, effect) /\ Extends(messages, m) /\ Extends(m, messages') /\ MessagesSound(messages', effect)
       /\ \A c \in Call \ DOMAIN m : effect[c] = "none"
       /\ live.completed = NoOutcomes
  BY <1>1, <1>2, <1>4, <1>10, <1>13, <1>14, ExtendsSelf
<1>16. /\ DocsSound' /\ Ahead(saved, saved') /\ live' = d /\ live' \in Document /\ saved' \in Document
       /\ faults' \in 0..MaxFaults
  <2>1. PICK m2 : m2 = messages'
    OBVIOUS
  <2>2. Extends(m, m2) /\ MessagesSound(m2, effect) /\ messages' = m2
    BY <1>15, <2>1
  <2>3. m \in Seq(Answer)
    BY <1>4
  <2> QED  BY <1>9, <1>11, <1>14, <1>15, <2>2, <2>3, QuietCheckpoint
<1>17. TypeOK'
  <2>1. index' \in 1..(Calls + 1) /\ pc' \in Place /\ messages' \in Seq(Answer)
    BY <1>1, <1>4, <1>13, <1>14, TurnTypes DEF Place
  <2> QED  BY <1>16, <2>1 DEF FinishOne, work, TurnInv, TypeOK
<1>18. PlaceSound'
  <2>1. CASE pc' = "next" /\ Saves(d) /\ messages' = m /\ index' = index + 1
    <3>1. /\ live'.called /\ live'.active /\ live'.answers = messages' /\ Idle(live') /\ saved' = live'
          /\ live'.completed = NoOutcomes /\ live'.waiting = l.waiting
      BY <1>8, <1>16, <2>1 DEF Saves, Fields, Idle
    <3>2. Len(messages') = index' - 1 /\ DOMAIN messages' = DOMAIN messages \cup {index}
      BY <1>1, <1>2, <1>4, <2>1, TurnTypes
    <3>3. live'.waiting \subseteq DOMAIN messages'
      BY <1>1, <1>2, <3>1, <3>2
    <3> QED  BY <2>1, <3>1, <3>2, <3>3 DEF PlaceSound, One, Wave
  <2>2. CASE pc' = "end" /\ messages' = m3
    BY <1>1, <1>2, <1>8, <1>13, <1>16, <2>2, TurnTypes DEF FinishOne, PlaceSound, One, Wave, Fields
  <2> QED  BY <1>14, <2>1, <2>2
<1>19. JobsSound'
  <2>1. DOMAIN messages \cup {index} \subseteq DOMAIN messages'
    BY <1>2, <1>4, <1>15 DEF Extends
  <2>2. /\ pc = "result" /\ pc' \in {"next", "end"} /\ UNCHANGED <<mode, wave, job, outcomes, effect>>
        /\ wave = {index}
    BY <1>1, <1>14 DEF FinishOne, work
  <2>3. DOMAIN messages' \subseteq Call
    BY <1>4, <1>13, <1>14, <1>16, <1>2, <1>1, TurnTypes
  <2> QED  BY <2>1, <2>2, <2>3, TurnTypes DEF TurnInv, JobsSound
<1>20. AllAnswered'
  BY <1>14 DEF AllAnswered
<1> QED  BY <1>14, <1>16, <1>17, <1>18, <1>19, <1>20 DEF TurnInv, DocsSound

\* The calls of a wave are successive.
LEMMA WaveIsInterval ==
    ASSUME mode \in [Call -> Mode], NEW i \in Call
    PROVE  \E last \in i..Calls : WaveAt(i) = i..last
<1>1. Calls \in Nat /\ MaxParallel \in Nat \ {0} /\ Call = 1..Calls /\ i \in Nat
  BY CallsAssumption DEF Call
<1>2. CASE mode[i] = "serial"
  <2>1. WaveAt(i) = i..i /\ i \in i..Calls
    BY <1>1, <1>2 DEF WaveAt
  <2> QED  BY <2>1
<1>3. CASE mode[i] # "serial"
  <2>1. WaveAt(i) = {c \in Call : c >= i /\ c < i + MaxParallel /\ \A d \in i..c : mode[d] = mode[i]}
    BY <1>3 DEF WaveAt
  <2>2. i \in WaveAt(i)
    BY <2>1, <1>1
  <2>3. ASSUME NEW c \in WaveAt(i), NEW d \in i..c PROVE d \in WaveAt(i)
    BY <2>1, <2>3, <1>1
  <2> DEFINE Out == {c \in i..Calls : c \notin WaveAt(i)}
  <2>4. CASE Out = {}
    <3>1. WaveAt(i) = i..Calls /\ Calls \in i..Calls
      BY <1>1, <2>1, <2>4
    <3> QED  BY <3>1
  <2>5. CASE Out # {}
    <3>1. Out \subseteq Nat
      BY <1>1
    <3>2. PICK b \in Out : \A c \in Out : ~(<<c, b>> \in OpToRel(<, Nat))
      BY <2>5, <3>1, NatLessThanWellFounded, WFMin
    <3>3. b \in i..Calls /\ b # i /\ b - 1 \in i..Calls /\ b \notin WaveAt(i)
      <4>1. b \in i..Calls /\ b \notin WaveAt(i)
        BY <3>2
      <4>2. b # i
        BY <2>2, <4>1
      <4> QED  BY <1>1, <4>1, <4>2
    <3>4. ASSUME NEW c \in i..(b - 1) PROVE c \in WaveAt(i)
      <4> SUFFICES ASSUME c \notin WaveAt(i) PROVE FALSE
        OBVIOUS
      <4>1. c \in Out
        BY <1>1, <3>3
      <4>2. <<c, b>> \in OpToRel(<, Nat)
        BY <1>1, <3>3 DEF OpToRel
      <4> QED  BY ONLY <3>2, <4>1, <4>2
    <3>5. ASSUME NEW c \in WaveAt(i) PROVE c \in i..(b - 1)
      <4>1. c \in i..Calls
        BY <1>1, <2>1
      <4>2. ~(b \in i..c)
        BY <2>3, <3>3
      <4> QED  BY <1>1, <3>3, <4>1, <4>2
    <3>6. WaveAt(i) = i..(b - 1)
      BY <3>4, <3>5
    <3> QED  BY <3>3, <3>6
  <2> QED  BY <2>4, <2>5
<1> QED  BY <1>2, <1>3

\* A wave of calls is noted and started.
LEMMA StartWaveStep ==
    ASSUME TurnInv, StartWave
    PROVE  TurnInv' /\ Ahead(saved, saved')
<1>1. /\ pc = "next" /\ index \in Call /\ live.called /\ live.active /\ Idle(live) /\ live.answers = messages
      /\ live.completed = NoOutcomes /\ live.waiting \subseteq DOMAIN messages /\ Len(messages) = index - 1
      /\ index \notin DOMAIN messages
  BY TurnTypes DEF StartWave, TurnInv, PlaceSound
<1>2. PICK l \in Document, m \in Seq(Answer), e \in Effect, w \in SUBSET Call, last \in index..Calls :
         l = live /\ m = messages /\ e = effect /\ w = WaveAt(index) /\ w = index..last
  <2>1. \E last \in index..Calls : WaveAt(index) = index..last
    BY <1>1, TurnTypes, WaveIsInterval
  <2>2. PICK last \in index..Calls : WaveAt(index) = index..last
    BY <2>1
  <2>3. index..last \in SUBSET Call
    BY <1>1, <2>2, TurnTypes
  <2> QED  BY <2>2, <2>3, TurnTypes
<1>3. PICK b \in SUBSET Call : b = IF Declared THEN w ELSE {}
  OBVIOUS
<1>4. PICK s : s = Synced
  OBVIOUS
<1>5. Fields(s, TRUE, m, TRUE, NoCall, {}, {}, NoOutcomes, l.waiting)
  <2>1. Fields(Synced, TRUE, messages, live.active, live.tool, live.reads, live.batch, live.completed, live.waiting)
    BY <1>1, JustSynced
  <2>2. l.active = TRUE
    BY <1>1, <1>2 DEF Document
  <2> QED  BY <1>1, <1>2, <1>4, <2>1, <2>2 DEF Idle
<1>6. PICK d : d = IF Declared THEN ToolBatch(s, w) ELSE ReadBatch(s, w)
  OBVIOUS
<1>7. Fields(d, TRUE, m, TRUE, NoCall, w, b, NoOutcomes, l.waiting)
  <2>0. s \in Document /\ w \in SUBSET Call
    BY <1>5 DEF Fields
  <2>1. CASE Declared
    <3>1. Fields([s EXCEPT !.batch = w, !.reads = w, !.completed = NoOutcomes],
                 s.called, s.answers, s.active, s.tool, w, w, NoOutcomes, s.waiting)
      BY ONLY <2>0, BatchFields
    <3>2. d = [s EXCEPT !.batch = w, !.reads = w, !.completed = NoOutcomes]
      BY <1>6, <2>1, Zenon DEF ToolBatch
    <3>3. b = w
      BY <1>3, <2>1
    <3> QED  BY <3>1, <3>2, <3>3, <1>5 DEF Fields
  <2>2. CASE ~Declared
    <3>1. Fields([s EXCEPT !.reads = w],
                 s.called, s.answers, s.active, s.tool, w, s.batch, s.completed, s.waiting)
      BY ONLY <2>0, ReadsFields
    <3>2. d = [s EXCEPT !.reads = w]
      BY <1>6, <2>2, Zenon DEF ReadBatch
    <3>3. b = {}
      BY <1>3, <2>2
    <3> QED  BY <3>1, <3>2, <3>3, <1>5 DEF Fields
  <2> QED  BY <2>1, <2>2
<1>8. d \in Document /\ MessagesSound(m, e) /\ d.called /\ d.answers = m /\ d.completed = NoOutcomes
  BY <1>2, <1>7 DEF Fields, TurnInv
<1>9. \A c \in Call \ DOMAIN m : e[c] = "none"
  BY <1>1, <1>2, NotStarted
<1>10. Valid(d)
  <2>1. w \subseteq Call \ DOMAIN m /\ d.active /\ d.batch \in {{}, d.reads} /\ d.tool = NoCall /\ d.reads = w
    BY <1>1, <1>2, <1>3, <1>7, TurnTypes DEF Fields
  <2>2. \A c \in Call : d.completed[c] = "none"
    BY <1>8, NoOutcomesType
  <2> QED  BY <1>8, <2>1, <2>2, ValidDocument
<1>11. /\ effect' = effect /\ messages' = m /\ wave' = w
       /\ Saves(d) \/ SaveFails(d) \/ (live' = d /\ saved' = d /\ NotShown)
       /\ \/ pc' = "prepare" /\ Saves(d)
          \/ pc' = "abort"
  BY <1>2, <1>4, <1>6 DEF StartWave
<1>12. /\ MessagesSound(m, effect) /\ Extends(messages, m) /\ Extends(m, m)
       /\ \A c \in Call \ DOMAIN m : effect[c] = "none"
       /\ live.completed = NoOutcomes
  BY <1>1, <1>2, <1>8, <1>9, ExtendsSelf
<1>13. /\ DocsSound' /\ Ahead(saved, saved') /\ live' = d /\ live' \in Document /\ saved' \in Document
       /\ faults' \in 0..MaxFaults
  BY <1>8, <1>10, <1>11, <1>12, QuietCheckpoint
<1>14. TypeOK'
  <2>1. failing' \in BOOLEAN /\ cancelled' \in BOOLEAN /\ wave' \subseteq Call /\ pc' \in Place
    BY <1>11, TurnTypes DEF StartWave, Place
  <2> QED  BY <1>13, <2>1 DEF StartWave, TurnInv, TypeOK
<1>15. PlaceSound'
  <2>1. /\ live'.called /\ live'.active /\ live'.answers = messages' /\ live'.completed = NoOutcomes
        /\ live'.waiting = live.waiting /\ live'.tool = NoCall /\ live'.reads = wave'
        /\ live'.batch = IF Declared THEN wave' ELSE {}
    BY <1>2, <1>3, <1>7, <1>11, <1>13 DEF Fields
  <2>2. pc' # "abort" => saved' = live'
    BY <1>11, <1>13 DEF Saves
  <2>3. Declared' = Declared /\ index' = index /\ messages' = messages /\ index <= Calls
    BY <1>1, TurnTypes DEF StartWave, Declared
  <2>4. \E z \in index'..Calls : wave' = index'..z
    BY <1>2, <1>11, <2>3
  <2>5. pc' \in {"prepare", "abort"}
    BY <1>11
  <2> QED  BY <1>1, <2>1, <2>2, <2>3, <2>4, <2>5 DEF PlaceSound, One, Wave
<1>16. JobsSound'
  <2>1. pc' \in {"prepare", "abort"} /\ UNCHANGED <<mode, job, outcomes, effect, messages>>
    BY <1>11 DEF StartWave
  <2> QED  BY <1>1, <2>1, TurnTypes DEF TurnInv, JobsSound
<1>17. AllAnswered'
  BY <1>11 DEF AllAnswered
<1> QED  BY <1>8, <1>11, <1>13, <1>14, <1>15, <1>16, <1>17 DEF TurnInv, DocsSound

\* The turn fails.
LEMMA AbortStep ==
    ASSUME TurnInv, Abort
    PROVE  TurnInv' /\ Ahead(saved, saved')
<1>1. /\ pc = "abort" /\ index \in Call /\ live.called /\ live.active /\ live.answers = messages
      /\ live.completed = NoOutcomes /\ Len(messages) = index - 1 /\ live.tool = NoCall
  BY TurnTypes DEF Abort, TurnInv, PlaceSound, Wave
<1>2. PICK l \in Document, m0 \in Seq(Answer), e \in Effect, n \in Int :
         l = live /\ m0 = messages /\ e = effect /\ n = index - 1
  BY TurnTypes
<1>3. PICK m : m = m0 \o NotExecuted(Later(n))
  OBVIOUS
<1>4. MessagesSound(m0, e) /\ n = Len(m0) /\ \A c \in Call \ DOMAIN m0 : e[c] = "none"
  BY <1>1, <1>2, NotStarted DEF TurnInv
<1>5. m \in Seq(Answer) /\ Len(m) = Calls /\ DOMAIN m = Call /\ Extends(m0, m) /\ MessagesSound(m, e)
  BY ONLY <1>3, <1>4, m0 \in Seq(Answer), RestNotExecuted
<1>6. messages' = m /\ pc' = "end" /\ UNCHANGED <<mode, index, wave, job, outcomes, failing, decision, cancelled, effect, crashes>>
  BY <1>2, <1>3 DEF Abort, work
<1>7. PICK s : s = [Synced EXCEPT !.answers = m]
  OBVIOUS
<1>8. Fields(s, TRUE, m, TRUE, NoCall, l.reads, l.batch, NoOutcomes, l.waiting)
  <2>1. Fields([Synced EXCEPT !.answers = m], TRUE, m, live.active, live.tool, live.reads, live.batch,
               live.completed, live.waiting)
    BY <1>1, <1>5, SyncedFields
  <2>2. l.active = TRUE
    BY <1>1, <1>2 DEF Document
  <2> QED  BY <1>1, <1>2, <1>7, <2>1, <2>2
<1>9. PICK d : d = [s EXCEPT !.batch = {}, !.reads = {}, !.completed = NoOutcomes]
  OBVIOUS
<1>10. Fields(d, TRUE, m, TRUE, NoCall, {}, {}, NoOutcomes, l.waiting)
  <2>1. s \in Document /\ {} \in SUBSET Call
    BY <1>8 DEF Fields
  <2>2. Fields([s EXCEPT !.batch = {}, !.reads = {}, !.completed = NoOutcomes],
               s.called, s.answers, s.active, s.tool, {}, {}, NoOutcomes, s.waiting)
    BY ONLY <2>1, BatchFields
  <2> QED  BY <1>8, <1>9, <2>2 DEF Fields
<1>11. d \in Document /\ d.called /\ d.answers = m /\ d.completed = NoOutcomes
  BY <1>10 DEF Fields
<1>12. Valid(d)
  BY <1>5, <1>10, <1>11, NoOutcomesType, ValidDocument DEF Fields
<1>13. /\ MessagesSound(m, effect) /\ Extends(messages, m) /\ Extends(m, m) /\ messages' = m /\ effect' = effect
       /\ \A c \in Call \ DOMAIN m : effect[c] = "none"
       /\ live.completed = NoOutcomes
  BY <1>1, <1>2, <1>5, <1>6, ExtendsSelf
<1>14. /\ DocsSound' /\ Ahead(saved, saved') /\ live' \in Document /\ saved' \in Document
       /\ faults' \in 0..MaxFaults /\ live'.completed = NoOutcomes
  <2>1. CASE Declared
    <3>1. Saves(d) \/ SaveFails(d)
      <4>1. ToolBatchFinished([Synced EXCEPT !.answers = messages']) = d
        BY <1>6, <1>7, <1>9 DEF ToolBatchFinished
      <4> QED  BY <2>1, <4>1 DEF Abort
    <3>2. m \in Seq(Answer)
      BY <1>5
    <3>3. /\ DocsSound' /\ Ahead(saved, saved') /\ live' = d /\ live' \in Document /\ saved' \in Document
          /\ faults' \in 0..MaxFaults
      BY <1>11, <1>12, <1>13, <3>1, <3>2, QuietCheckpoint
    <3> QED  BY <1>11, <3>3
  <2>2. CASE ~Declared
    <3>1. UNCHANGED <<live, saved, faults, effect>>
      BY <2>2 DEF Abort, docs
    <3>2. DocsSound' /\ Ahead(saved, saved')
      <4>1. MessagesSound(m, effect) /\ Extends(messages, m) /\ messages' = m /\ UNCHANGED <<live, saved, effect>>
        BY <1>13, <3>1
      <4> QED  BY <4>1, OnlyMessages
    <3> QED  BY <1>1, <3>1, <3>2, TurnTypes
  <2> QED  BY <2>1, <2>2
<1>17. TypeOK'
  BY <1>5, <1>6, <1>14 DEF TurnInv, TypeOK, Place
<1>18. PlaceSound'
  BY <1>5, <1>6, <1>14 DEF PlaceSound, One, Wave
<1>19. JobsSound'
  <2>1. DOMAIN messages' = Call
    BY <1>5, <1>6
  <2> QED  BY <1>1, <1>6, <2>1, TurnTypes DEF TurnInv, JobsSound
<1>20. AllAnswered'
  BY <1>6 DEF AllAnswered
<1> QED  BY <1>13, <1>14, <1>17, <1>18, <1>19, <1>20 DEF TurnInv, DocsSound

\* The turn ends.
LEMMA EndTurnStep ==
    ASSUME TurnInv, EndTurn
    PROVE  TurnInv' /\ Ahead(saved, saved')
<1>1. pc = "end" /\ Len(messages) = Calls /\ live.completed = NoOutcomes /\ DOMAIN messages = Call
  BY TurnTypes DEF EndTurn, TurnInv, PlaceSound
<1>2. PICK l \in Document, m \in Seq(Answer), e \in Effect : l = live /\ m = messages /\ e = effect
  BY TurnTypes
<1>3. PICK s : s = Synced
  OBVIOUS
<1>4. Fields(s, TRUE, m, l.active, l.tool, l.reads, l.batch, NoOutcomes, l.waiting)
  <2>1. Fields(Synced, TRUE, messages, live.active, live.tool, live.reads, live.batch, live.completed, live.waiting)
    BY <1>1, JustSynced
  <2> QED  BY <1>1, <1>2, <1>3, <2>1
<1>5. PICK d : d = Ready(s)
  OBVIOUS
<1>6. Fields(d, TRUE, m, FALSE, NoCall, {}, {}, NoOutcomes, l.waiting)
  <2>1. s \in Document
    BY <1>4 DEF Fields
  <2>2. Fields(Ready(s), s.called, s.answers, FALSE, NoCall, {}, {}, NoOutcomes, s.waiting)
    BY ONLY <2>1, ReadyFields
  <2> QED  BY <1>4, <1>5, <2>2 DEF Fields
<1>7. d \in Document /\ MessagesSound(m, e) /\ d.called /\ d.answers = m /\ d.completed = NoOutcomes
  BY <1>2, <1>6 DEF Fields, TurnInv
<1>8. Valid(d)
  BY <1>1, <1>2, <1>6, <1>7, NoOutcomesType, ValidDocument DEF Fields
<1>9. effect' = effect /\ messages' = m /\ pc' = "ended" /\ (Saves(d) \/ SaveFails(d))
  BY <1>2, <1>3, <1>5 DEF EndTurn
<1>10. /\ MessagesSound(m, effect) /\ Extends(messages, m) /\ Extends(m, m)
       /\ \A c \in Call \ DOMAIN m : effect[c] = "none"
  BY <1>1, <1>2, <1>7, ExtendsSelf
<1>11. /\ DocsSound' /\ Ahead(saved, saved') /\ live' = d /\ live' \in Document /\ saved' \in Document
       /\ faults' \in 0..MaxFaults
  BY <1>1, <1>7, <1>8, <1>9, <1>10, QuietCheckpoint
<1>12. TypeOK'
  BY <1>9, <1>11 DEF EndTurn, work, TurnInv, TypeOK, Place
<1>13. PlaceSound'
  BY <1>7, <1>9, <1>11 DEF PlaceSound, One, Wave
<1>14. JobsSound'
  BY <1>1, <1>9, TurnTypes DEF EndTurn, work, TurnInv, JobsSound
<1>15. AllAnswered'
  <2>1. Outstanding(d) = {}
    BY <1>1, <1>2, <1>7, ExtendsSelf, AnsweredInOrderFacts
  <2>2. ~d.active
    BY <1>6 DEF Fields
  <2> QED  BY <1>7, <1>9, <1>11, <2>1, <2>2 DEF AllAnswered
<1> QED  BY <1>7, <1>9, <1>11, <1>12, <1>13, <1>14, <1>15 DEF TurnInv, DocsSound

\* The session is saved as it is.
LEMMA AutosaveStep ==
    ASSUME TurnInv, Autosave
    PROVE  TurnInv' /\ Ahead(saved, saved')
<1>1. saved' = live /\ UNCHANGED <<mode, pc, index, messages, wave, job, outcomes, failing, decision, cancelled, live, effect, faults, crashes>>
      /\ pc # "down"
  BY DEF Autosave, work, world
<1>2. Ahead(saved, saved') /\ DocsSound'
  BY <1>1, AheadSelf DEF TurnInv, DocsSound
<1>3. TypeOK'
  BY <1>1, TurnTypes DEF TurnInv, TypeOK
<1>4. PlaceSound'
  BY <1>1 DEF TurnInv, PlaceSound, One, Wave, Declared
<1>5. JobsSound'
  BY <1>1 DEF TurnInv, JobsSound, Declared, ResultOf
<1>6. AllAnswered'
  BY <1>1 DEF TurnInv, AllAnswered, Outstanding, Answered
<1> QED  BY <1>2, <1>3, <1>4, <1>5, <1>6 DEF TurnInv, DocsSound

-----------------------------------------------------------------------------
(* Waves of calls.                                                         *)

\* A function on 1..n is a sequence of length n.
LEMMA SequenceOf ==
    ASSUME NEW S, NEW n \in Nat, NEW g \in [1..n -> S]
    PROVE  g \in Seq(S) /\ Len(g) = n
OBVIOUS

\* t are the results of the n + 1st call to the z-th, with the outcomes f.
Continue(m, e, n, z, f, t) ==
    /\ m \in Seq(Answer) /\ MessagesSound(m, e) /\ n = Len(m) /\ z \in n..Calls
    /\ f \in [Call -> Outcome] /\ \A c \in (n + 1)..z : Honest(f[c], e[c])
    /\ t \in Seq(Answer) /\ Len(t) = z - n
    /\ \A k \in 1..(z - n) : t[k].call = n + k /\ t[k].outcome = f[n + k]

\* m2 are the results m, and those of the next calls.
Continued(m, e, n, z, f, m2) ==
    /\ m2 \in Seq(Answer) /\ Len(m2) = z /\ DOMAIN m2 = 1..z
    /\ Extends(m, m2) /\ MessagesSound(m2, e)
    /\ \A c \in (n + 1)..z : m2[c].outcome = f[c]

\* The results of the next calls leave results in order and honest.
LEMMA NextResults ==
    ASSUME NEW m, NEW e, NEW n, NEW z, NEW f, NEW t, Continue(m, e, n, z, f, t)
    PROVE  Continued(m, e, n, z, f, m \o t)
<1>a. PICK m2 : m2 = m \o t
  OBVIOUS
<1>0. /\ m \in Seq(Answer) /\ MessagesSound(m, e) /\ n = Len(m) /\ z \in n..Calls
      /\ f \in [Call -> Outcome] /\ \A c \in (n + 1)..z : Honest(f[c], e[c])
      /\ t \in Seq(Answer) /\ Len(t) = z - n
      /\ \A k \in 1..(z - n) : t[k].call = n + k /\ t[k].outcome = f[n + k]
  BY DEF Continue
<1>1. n \in 0..Calls /\ DOMAIN m = 1..n
  BY <1>0, InOrderFacts
<1>2. Calls \in Nat /\ n \in Nat /\ z \in n..Calls /\ z - n \in Nat /\ Call = 1..Calls
  BY <1>0, <1>1, CallsAssumption DEF Call
<1>c. m2 \in Seq(Answer) /\ Len(m2) = n + (z - n)
  BY ONLY <1>0, <1>a, ConcatProperties
<1>7. m2 \in Seq(Answer) /\ Len(m2) = z /\ DOMAIN m2 = 1..z
  <2>1. n + (z - n) = z
    BY <1>2
  <2> QED  BY <1>c, <2>1
<1>8. \A i \in 1..n : m2[i] = m[i]
  BY <1>a, <1>0, <1>1, <1>2
<1>9. ASSUME NEW i \in (n + 1)..z PROVE m2[i].call = i /\ m2[i].outcome = f[i]
  <2>1. i - n \in 1..(z - n) /\ m2[i] = t[i - n] /\ n + (i - n) = i
    BY <1>a, <1>0, <1>1, <1>2
  <2>2. t[i - n].call = i /\ t[i - n].outcome = f[i]
    BY <1>0, <2>1
  <2> QED  BY <2>1, <2>2
<1>10. ASSUME NEW i \in DOMAIN m2 PROVE m2[i].call = i /\ Honest(m2[i].outcome, e[i])
  <2>1. CASE i \in 1..n
    BY <1>0, <1>1, <1>8, <2>1 DEF MessagesSound
  <2>2. CASE i \in (n + 1)..z
    BY <1>0, <1>1, <1>9, <2>2
  <2> QED  BY <2>1, <2>2, <1>2, <1>7
<1>11. Extends(m, m2)
  BY <1>1, <1>2, <1>7, <1>8 DEF Extends
<1>12. MessagesSound(m2, e)
  BY <1>10 DEF MessagesSound
<1>13. Continued(m, e, n, z, f, m2)
  BY <1>7, <1>9, <1>11, <1>12 DEF Continued
<1> QED  BY <1>a, <1>13

\* What recovery says of calls without a result is true, and told nowhere else.
LEMMA RecoveredHonest ==
    ASSUME NEW d \in Document, NEW m, NEW e, DocSound(d, m, e), NEW c \in Call, c \notin DOMAIN d.answers
    PROVE  /\ RecoveredOutcome(d, c) \in Outcome /\ Honest(RecoveredOutcome(d, c), e[c])
           /\ d.completed[c] # "none" => RecoveredOutcome(d, c) = d.completed[c]
<1>1. Told(d, c) = d.completed[c] /\ d.completed[c] \in Outcome \cup {"none"}
  BY DEF Told, Document
<1>2. CASE d.completed[c] # "none"
  BY <1>1, <1>2 DEF RecoveredOutcome, DocSound
<1>3. CASE d.completed[c] = "none" /\ Covers(d, c)
  <2>1. RecoveredOutcome(d, c) = "unknown"
    BY <1>3 DEF RecoveredOutcome, Covers
  <2> QED  BY <1>3, <2>1, OutcomeFacts DEF Honest, Untouched
<1>4. CASE d.completed[c] = "none" /\ ~Covers(d, c)
  <2>1. RecoveredOutcome(d, c) = "not_executed"
    BY <1>4 DEF RecoveredOutcome, Covers
  <2>2. e[c] = "none"
    BY <1>1, <1>4 DEF DocSound
  <2> QED  BY <1>4, <2>1, <2>2, OutcomeFacts DEF Honest, Untouched
<1> QED  BY <1>2, <1>3, <1>4

\* What recovery writes is sound, and takes back nothing that was told.
LEMMA RecoveredSound ==
    ASSUME NEW s \in Document, NEW m0 \in Seq(Answer), NEW e, MessagesSound(m0, e), DocSound(s, m0, e),
           NEW r, r = Recovered(s)
    PROVE  /\ r \in Document /\ Valid(r) /\ MessagesSound(r.answers, e) /\ DocSound(r, r.answers, e) /\ Ahead(s, r)
           /\ r.completed = NoOutcomes /\ ~r.active /\ Outstanding(r) = {}
<1>1. /\ s.answers \in Seq(Answer) /\ s.active \in BOOLEAN /\ s.called \in BOOLEAN
      /\ s.completed \in [Call -> Outcome \cup {"none"}]
  BY DEF Document
<1>2. MessagesSound(s.answers, e) /\ Extends(s.answers, m0)
  BY DEF DocSound, MessagesSound, Extends
<1>3. PICK n \in 0..Calls : n = Len(s.answers) /\ DOMAIN s.answers = 1..n
  BY <1>1, <1>2, InOrderFacts
<1>4. Outstanding(s) = IF s.called THEN Call \ DOMAIN s.answers ELSE {}
  BY <1>2, AnsweredInOrderFacts
<1>5. Calls \in Nat /\ n \in Nat /\ Call = 1..Calls
  BY CallsAssumption DEF Call
<1>6. CASE ~s.active
  <2>1. r = s /\ Outstanding(s) = {} /\ s.batch = {}
    BY <1>6 DEF Recovered, DocSound, Valid
  <2>2. \A c \in Call : s.completed[c] = "none"
    BY <2>1 DEF DocSound, Valid
  <2>3. s.completed = NoOutcomes
    BY <1>1, <2>2 DEF NoOutcomes
  <2>4. DocSound(s, s.answers, e) /\ Valid(s)
    BY DEF DocSound
  <2> QED  BY <1>2, <1>6, <2>1, <2>3, <2>4, AheadSelf
<1>7. CASE s.active
  <2>1. PICK z \in n..Calls : z = IF s.called THEN Calls ELSE n
    BY <1>5
  <2>2. Outstanding(s) = (n + 1)..z
    <3>1. CASE s.called
      <4>1. z = Calls /\ Outstanding(s) = (1..Calls) \ (1..n)
        BY <1>3, <1>4, <1>5, <2>1, <3>1
      <4> QED  BY <1>5, <4>1
    <3>2. CASE ~s.called
      <4>1. z = n /\ Outstanding(s) = {}
        BY <1>4, <2>1, <3>2
      <4> QED  BY <1>5, <4>1
    <3> QED  BY <3>1, <3>2
  <2>3. PICK f : f = [c \in Call |-> IF c \in DOMAIN s.answers THEN "unknown" ELSE RecoveredOutcome(s, c)]
    OBVIOUS
  <2>4. f \in [Call -> Outcome]
    BY <2>3, RecoveredHonest, OutcomeFacts
  <2>5. \A c \in (n + 1)..z : f[c] = RecoveredOutcome(s, c) /\ Honest(f[c], e[c]) /\ c \in Call \ DOMAIN s.answers
    BY <1>3, <1>5, <2>3, RecoveredHonest
  <2>6. InOrder((n + 1)..z) = [k \in 1..(z - n) |-> n + k]
    <3>1. InOrder((n + 1)..z) = [k \in 1..(z - (n + 1) + 1) |-> (n + 1) + k - 1]
      <4>1. n + 1 \in Nat /\ z \in Nat /\ n + 1 <= z + 1
        BY <1>5
      <4> QED  BY ONLY <4>1, OrderOfInterval
    <3>2. z - (n + 1) + 1 = z - n /\ \A k \in 1..(z - n) : (n + 1) + k - 1 = n + k
      BY <1>5
    <3> QED  BY <3>1, <3>2
  <2>7. PICK t : t = [k \in 1..(z - n) |-> [call |-> n + k, outcome |-> f[n + k]]]
    OBVIOUS
  <2>8. \A k \in 1..(z - n) : f[n + k] = RecoveredOutcome(s, n + k)
    BY <1>5, <2>5
  <2>9. t = [k \in 1..(z - n) |-> [call |-> n + k, outcome |-> RecoveredOutcome(s, n + k)]]
    BY <2>7, <2>8
  <2>a. t \in Seq(Answer) /\ Len(t) = z - n /\ \A k \in 1..(z - n) : t[k].call = n + k /\ t[k].outcome = f[n + k]
    <3>1. PICK y \in Nat : y = z - n
      BY <1>5
    <3>2. \A k \in 1..y : n + k \in Call
      BY <1>5, <3>1
    <3>3. \A k \in 1..y : [call |-> n + k, outcome |-> f[n + k]] \in Answer
      BY <2>4, <3>2 DEF Answer
    <3>4. t = [k \in 1..y |-> [call |-> n + k, outcome |-> f[n + k]]]
      BY <2>7, <3>1
    <3>5. t \in Seq(Answer) /\ Len(t) = y
      <4>1. t \in [1..y -> Answer]
        BY <3>3, <3>4
      <4> QED  BY ONLY <4>1, y \in Nat, SequenceOf
    <3>6. \A k \in 1..y : t[k].call = n + k /\ t[k].outcome = f[n + k]
      BY <3>4
    <3> QED  BY <3>1, <3>5, <3>6
  <2>10. PICK u : u = [s EXCEPT !.answers = s.answers \o t]
    OBVIOUS
  <2>11. r = Ready(u)
    BY <1>7, <2>2, <2>6, <2>9, <2>10 DEF Recovered, AnswersOf
  <2>12. PICK m : m = s.answers \o t
    OBVIOUS
  <2>13. PICK a : a = s.answers
    OBVIOUS
  <2>14. /\ m \in Seq(Answer) /\ Len(m) = z /\ DOMAIN m = 1..z
         /\ Extends(a, m) /\ MessagesSound(m, e) /\ \A c \in (n + 1)..z : m[c].outcome = f[c]
    <3>1. Continue(a, e, n, z, f, t)
      BY <1>1, <1>2, <1>3, <2>4, <2>5, <2>a, <2>13 DEF Continue
    <3>2. m = a \o t
      BY <2>12, <2>13
    <3>3. Continued(a, e, n, z, f, a \o t)
      BY ONLY <3>1, NextResults
    <3>4. Continued(a, e, n, z, f, m)
      BY ONLY <3>2, <3>3
    <3> QED  BY <3>4 DEF Continued
  <2>15. Fields(u, s.called, m, s.active, s.tool, s.reads, s.batch, s.completed, s.waiting)
    <3>1. m \in Seq(Answer)
      BY <2>14
    <3>2. Fields([s EXCEPT !.answers = m],
                 s.called, m, s.active, s.tool, s.reads, s.batch, s.completed, s.waiting)
      BY ONLY <3>1, s \in Document, AnswersFields
    <3> QED  BY <2>10, <2>12, <3>2
  <2>16. Fields(r, s.called, m, FALSE, NoCall, {}, {}, NoOutcomes, s.waiting)
    <3>1. u \in Document
      BY <2>15 DEF Fields
    <3>2. Fields(Ready(u), u.called, u.answers, FALSE, NoCall, {}, {}, NoOutcomes, u.waiting)
      BY ONLY <3>1, ReadyFields
    <3> QED  BY <2>11, <2>15, <3>2 DEF Fields
  <2>17. /\ r \in Document /\ r.answers = m /\ r.completed = NoOutcomes /\ ~r.active /\ r.called = s.called
    BY <2>16 DEF Fields
  <2>18. Outstanding(r) = {}
    BY <1>5, <2>1, <2>14, <2>17, ExtendsSelf, AnsweredInOrderFacts
  <2>19. Valid(r)
    <3>1. r.tool = NoCall /\ r.reads = {} /\ r.batch = {} /\ r.completed = NoOutcomes
      BY <2>16 DEF Fields
    <3>2. \A c \in Call : r.completed[c] = "none"
      BY <3>1 DEF NoOutcomes
    <3> QED  BY <2>18, <3>1, <3>2 DEF Valid
  <2>20. Ahead(s, r)
    <3> SUFFICES ASSUME NEW c \in Call, Told(s, c) # "none" PROVE Told(r, c) = Told(s, c)
      BY DEF Ahead
    <3>1. CASE c \in DOMAIN s.answers
      BY <3>1, <2>13, <2>14, <2>17 DEF Extends, Told
    <3>2. CASE c \notin DOMAIN s.answers
      <4>1. s.completed[c] # "none" /\ Told(s, c) = s.completed[c]
        BY <3>2 DEF Told
      <4>2. c \in Outstanding(s)
        BY <4>1 DEF DocSound, Valid
      <4>3. c \in (n + 1)..z /\ f[c] = s.completed[c]
        BY <1>3, <2>2, <2>5, <2>13, <3>2, <4>1, <4>2, RecoveredHonest
      <4>4. m[c].outcome = f[c] /\ c \in DOMAIN m
        BY <1>5, <2>14, <4>3
      <4> QED  BY <2>17, <4>1, <4>3, <4>4 DEF Told
    <3> QED  BY <3>1, <3>2
  <2>21. DocSound(r, m, e)
    <3>1. ~r.called => r.answers = <<>>
      <4> SUFFICES ASSUME ~r.called PROVE r.answers = <<>>
        OBVIOUS
      <4>1. s.answers = <<>>
        BY <2>17 DEF DocSound
      <4>2. z = 0
        BY <1>3, <2>1, <2>17, <4>1
      <4> QED  BY <2>14, <2>17, <4>2
    <3>2. ASSUME NEW c \in Call, Told(r, c) # "none" PROVE Honest(Told(r, c), e[c])
      <4>1. c \in DOMAIN m
        BY <2>17, <3>2 DEF Told, NoOutcomes
      <4> QED  BY <2>14, <2>17, <4>1 DEF Told, MessagesSound
    <3>3. ASSUME NEW c \in Call, e[c] # "none" PROVE r.called /\ Told(r, c) # "none"
      <4>1. s.called
        BY <3>3 DEF DocSound
      <4>2. c \in DOMAIN m
        BY <1>5, <2>1, <2>14, <4>1
      <4>3. m[c].outcome \in Outcome
        BY <2>14, <4>2, InOrderFacts
      <4> QED  BY <2>17, <4>1, <4>2, <4>3, OutcomeFacts DEF Told
    <3> QED  BY <2>17, <2>19, <3>1, <3>2, <3>3 DEF DocSound
  <2> QED  BY <2>14, <2>17, <2>18, <2>20, <2>21, <2>19
<1> QED  BY <1>1, <1>6, <1>7

\* The saved session is opened again.
LEMMA ReopenStep ==
    ASSUME TurnInv, Reopen
    PROVE  TurnInv' /\ Ahead(saved, saved')
<1>1. PICK s \in Document, m0 \in Seq(Answer), e \in Effect : s = saved /\ m0 = messages /\ e = effect
  BY TurnTypes
<1>2. PICK r : r = Recovered(s)
  OBVIOUS
<1>3. MessagesSound(m0, e) /\ DocSound(s, m0, e)
  BY <1>1, <1>2 DEF TurnInv
<1>4. /\ r \in Document /\ MessagesSound(r.answers, e) /\ DocSound(r, r.answers, e) /\ Ahead(s, r)
      /\ r.completed = NoOutcomes /\ ~r.active /\ Outstanding(r) = {}
  BY ONLY <1>1, <1>2, <1>3, s \in Document, m0 \in Seq(Answer), RecoveredSound
<1>5. /\ pc = "down" /\ pc' = "ended" /\ live' = r /\ saved' = r /\ messages' = r.answers
      /\ UNCHANGED <<mode, index, wave, job, outcomes, failing, decision, cancelled, effect, faults, crashes>>
  BY <1>1, <1>2 DEF Reopen, work, world
<1>6. DocsSound' /\ Ahead(saved, saved')
  BY <1>1, <1>4, <1>5, AheadSelf DEF DocsSound
<1>7. TypeOK'
  <2>1. r.answers \in Seq(Answer)
    BY <1>4 DEF Document
  <2> QED  BY <1>4, <1>5, <2>1 DEF TurnInv, TypeOK, Place
<1>8. PlaceSound'
  BY <1>4, <1>5 DEF PlaceSound, One, Wave
<1>9. JobsSound'
  BY <1>5, TurnTypes DEF TurnInv, JobsSound
<1>10. AllAnswered'
  BY <1>4, <1>5 DEF AllAnswered
<1> QED  BY <1>4, <1>5, <1>6, <1>7, <1>8, <1>9, <1>10 DEF TurnInv, DocsSound

\* What holds while a wave works.
LEMMA Working ==
    ASSUME TurnInv, pc = "working"
    PROVE  /\ index \in Call /\ live.called /\ live.active /\ live.answers = messages /\ saved = live
           /\ Len(messages) = index - 1 /\ live.tool = NoCall /\ live.reads = wave
           /\ live.batch = (IF Declared THEN wave ELSE {}) /\ live.waiting \subseteq DOMAIN messages
           /\ \E last \in index..Calls : wave = index..last
           /\ \A c \in wave : c \in Call \ DOMAIN messages
           /\ \A c \in Call \ DOMAIN messages : c \notin wave => effect[c] = "none"
           /\ \A c \in Call : live.completed[c] # "none" => Declared /\ c \in wave /\ live.completed[c] = outcomes[c]
           /\ \A c \in wave : job[c] \in {"done", "panicked"} =>
                 ResultOf(c) \in Outcome /\ Honest(ResultOf(c), effect[c])
<1>1. /\ index <= Calls /\ live.called /\ live.active /\ live.answers = messages /\ saved = live
      /\ Len(messages) = index - 1 /\ live.tool = NoCall /\ live.reads = wave
      /\ live.batch = (IF Declared THEN wave ELSE {}) /\ live.waiting \subseteq DOMAIN messages
      /\ \E last \in index..Calls : wave = index..last
  BY DEF TurnInv, PlaceSound, Wave
<1>2. index \in Call /\ \A c \in wave : c \in Call \ DOMAIN messages
  BY <1>1, TurnTypes
<1>3. \A c \in Call \ DOMAIN messages : c \notin wave => effect[c] = "none"
  BY TurnTypes DEF TurnInv, JobsSound
<1>4. ASSUME NEW c \in Call, live.completed[c] # "none"
      PROVE  Declared /\ c \in wave /\ live.completed[c] = outcomes[c]
  <2>1. c \in live.batch
    BY <1>4 DEF TurnInv, DocSound, Valid
  <2>2. c \in wave /\ Declared
    BY <1>1, <2>1
  <2> QED  BY <1>4, <2>2 DEF TurnInv, JobsSound
<1>5. ASSUME NEW c \in wave, job[c] \in {"done", "panicked"}
      PROVE  ResultOf(c) \in Outcome /\ Honest(ResultOf(c), effect[c])
  BY <1>2, <1>5, OutcomeFacts DEF TurnInv, JobsSound, ResultOf, Honest, Untouched
<1> QED  BY <1>1, <1>2, <1>3, <1>4, <1>5

\* The outcome of a job is received.
LEMMA ReceiveStep ==
    ASSUME TurnInv, NEW c \in Call, Receive(c)
    PROVE  TurnInv' /\ Ahead(saved, saved')
<1>1. /\ pc = "working" /\ Declared /\ c \in wave /\ job[c] \in {"done", "panicked"} /\ outcomes[c] = "none"
      /\ UNCHANGED <<mode, pc, index, messages, wave, job, decision, effect, crashes>>
  BY DEF Receive
<1>2. /\ index \in Call /\ live.called /\ live.active /\ live.answers = messages /\ saved = live
      /\ Len(messages) = index - 1 /\ live.tool = NoCall /\ live.reads = wave
      /\ live.batch = wave /\ live.waiting \subseteq DOMAIN messages
      /\ \E last \in index..Calls : wave = index..last
      /\ \A b \in wave : b \in Call \ DOMAIN messages
      /\ \A b \in Call \ DOMAIN messages : b \notin wave => effect[b] = "none"
      /\ \A b \in Call : live.completed[b] # "none" => Declared /\ b \in wave /\ live.completed[b] = outcomes[b]
      /\ ResultOf(c) \in Outcome /\ Honest(ResultOf(c), effect[c])
  BY <1>1, Working
<1>3. PICK l \in Document, m \in Seq(Answer), e \in Effect, o \in Outcome, os \in [Call -> Outcome \cup {"none"}],
           w \in SUBSET Call :
         l = live /\ m = messages /\ e = effect /\ o = ResultOf(c) /\ os = outcomes /\ w = wave
  BY <1>2, TurnTypes
<1>4. PICK os2 : os2 = [os EXCEPT ![c] = o]
  OBVIOUS
<1>5. outcomes' = os2 /\ os2 \in [Call -> Outcome \cup {"none"}] /\ os2[c] = o /\ \A b \in Call \ {c} : os2[b] = os[b]
  BY <1>3, <1>4 DEF Receive
<1>6. PICK s : s = Synced
  OBVIOUS
<1>7. Fields(s, TRUE, m, TRUE, NoCall, w, w, l.completed, l.waiting)
  <2>1. Fields(Synced, TRUE, messages, live.active, live.tool, live.reads, live.batch, live.completed, live.waiting)
    BY <1>1, JustSynced
  <2>2. l.active = TRUE
    BY <1>2, <1>3 DEF Document
  <2> QED  BY <1>2, <1>3, <1>6, <2>1, <2>2
<1>8. PICK cm : cm = [l.completed EXCEPT ![c] = o]
  OBVIOUS
<1>9. cm[c] = o /\ \A b \in Call \ {c} : cm[b] = l.completed[b]
  BY <1>8 DEF Document
<1>10. PICK d : d = ToolBatchResult(s, c, o)
  OBVIOUS
<1>11. Fields(d, TRUE, m, TRUE, NoCall, w, w, cm, l.waiting)
  <2>1. s \in Document
    BY <1>7 DEF Fields
  <2>2. Fields(ToolBatchResult(s, c, o), s.called, s.answers, s.active, s.tool, s.reads, s.batch,
               [s.completed EXCEPT ![c] = o], s.waiting)
    BY ONLY <2>1, c \in Call, o \in Outcome, ResultFields
  <2> QED  BY <1>7, <1>8, <1>10, <2>2 DEF Fields
<1>12. d \in Document /\ MessagesSound(m, e) /\ d.called /\ d.answers = m /\ d.completed = cm /\ DocSound(l, m, e)
  BY <1>3, <1>11 DEF Fields, TurnInv
<1>13. l.completed[c] = "none"
  <2>1. l.completed[c] # "none" => l.completed[c] = os[c]
    BY <1>2, <1>3
  <2> QED  BY <1>1, <1>3, <2>1
<1>14. Valid(d)
  <2>1. \A b \in Call : d.completed[b] # "none" => b \in w
    BY <1>1, <1>2, <1>3, <1>9, <1>12
  <2>2. d.active /\ d.tool = NoCall /\ d.reads = w /\ d.batch = w
    BY <1>11 DEF Fields
  <2>3. w \subseteq Call \ DOMAIN m
    BY <1>2, <1>3
  <2> QED  BY <1>12, <2>1, <2>2, <2>3, ValidDocument
<1>15. DocSound(d, m, e)
  <2>1. ASSUME NEW b \in Call \ DOMAIN m, d.completed[b] # "none" PROVE Honest(d.completed[b], e[b])
    <3>1. CASE b = c
      BY <1>2, <1>3, <1>9, <1>12, <3>1
    <3>2. CASE b # c
      <4>1. Told(l, b) = d.completed[b]
        BY <1>2, <1>3, <1>9, <1>12, <3>2 DEF Told
      <4> QED  BY <1>12, <2>1, <4>1 DEF DocSound
    <3> QED  BY <3>1, <3>2
  <2>2. ASSUME NEW b \in Call \ DOMAIN m, e[b] # "none" PROVE d.completed[b] # "none" \/ Covers(d, b)
    <3>1. b \in w
      BY <1>2, <1>3, <2>2
    <3>2. b \notin d.waiting /\ d.reads = w
      BY <1>2, <1>3, <1>11 DEF Fields
    <3> QED  BY <3>1, <3>2 DEF Covers
  <2> QED  BY <1>12, <1>14, <2>1, <2>2, SyncedSound
<1>16. Ahead(l, d)
  <2>1. \A b \in Call \ DOMAIN m : l.completed[b] # "none" => d.completed[b] = l.completed[b]
    BY <1>9, <1>12, <1>13
  <2>2. l.answers = m
    BY <1>2, <1>3
  <2>3. Extends(m, m)
    BY ExtendsSelf
  <2> QED  BY <1>12, <2>1, <2>2, <2>3, SyncedAhead
<1>17. /\ MessagesSound(m, effect) /\ Extends(messages, m) /\ Extends(m, m) /\ DocSound(d, m, effect) /\ Ahead(live, d)
       /\ messages' = m /\ effect' = effect
  BY <1>1, <1>3, <1>12, <1>15, <1>16, ExtendsSelf
<1>18. \/ Saves(d) \/ (live' = d /\ saved' = d /\ NotShown)
       \/ UNCHANGED <<live, saved>> /\ faults' \in 0..MaxFaults
  BY <1>3, <1>6, <1>10, TurnTypes DEF Receive, docs, Fault
<1>19. /\ DocsSound' /\ Ahead(saved, saved') /\ live' \in {live, d} /\ live' \in Document /\ saved' = live'
       /\ faults' \in 0..MaxFaults
  <2>1. CASE Saves(d) \/ (live' = d /\ saved' = d /\ NotShown)
    <3>1. /\ DocsSound' /\ Ahead(saved, saved') /\ live' = d /\ live' \in Document /\ saved' \in Document
          /\ faults' \in 0..MaxFaults
      BY <1>12, <1>17, <2>1, Checkpointed
    <3> QED  BY <2>1, <3>1 DEF Saves
  <2>2. CASE UNCHANGED <<live, saved>> /\ faults' \in 0..MaxFaults
    <3>1. UNCHANGED <<messages, live, saved, effect>>
      BY <1>1, <2>2
    <3> QED  BY <1>2, <2>2, <3>1, DocsStay, TurnTypes
  <2> QED  BY <1>18, <2>1, <2>2
<1>20. TypeOK'
  <2>1. failing' \in BOOLEAN /\ cancelled' \in BOOLEAN
    BY TurnTypes DEF Receive
  <2> QED  BY <1>1, <1>5, <1>19, <2>1 DEF TurnInv, TypeOK
<1>21. PlaceSound'
  <2>1. /\ live'.called /\ live'.active /\ live'.answers = messages /\ live'.tool = NoCall /\ live'.reads = wave
        /\ live'.batch = wave /\ live'.waiting \subseteq DOMAIN messages
    BY <1>2, <1>3, <1>11, <1>19 DEF Fields
  <2>2. Declared'
    BY <1>1 DEF Declared
  <2> QED  BY <1>1, <1>2, <1>19, <2>1, <2>2, TurnTypes DEF PlaceSound, One, Wave
<1>22. JobsSound'
  <2>1. ASSUME NEW b \in wave, outcomes'[b] # "none"
        PROVE  job[b] \in {"done", "panicked"} /\ outcomes'[b] = ResultOf(b)
    BY <1>1, <1>2, <1>3, <1>5, <2>1 DEF TurnInv, JobsSound
  <2>2. ASSUME NEW b \in wave, live'.completed[b] # "none" PROVE outcomes'[b] = live'.completed[b]
    <3>1. CASE b = c
      BY <1>3, <1>5, <1>9, <1>11, <1>13, <1>19, <2>2, <3>1 DEF Fields
    <3>2. CASE b # c
      BY <1>2, <1>3, <1>5, <1>9, <1>11, <1>19, <2>2, <3>2 DEF Fields
    <3> QED  BY <3>1, <3>2
  <2>3. Declared' /\ \A b \in Call : ResultOf(b)' = ResultOf(b)
    BY <1>1 DEF Declared, ResultOf
  <2>4. \A b \in wave : job[b] # "none"
    BY <1>1 DEF TurnInv, JobsSound
  <2>5. \A b \in Call : b \notin DOMAIN messages /\ b \notin wave => outcomes'[b] = "none" /\ job[b] = "none"
    BY <1>1, <1>3, <1>5 DEF TurnInv, JobsSound
  <2> QED  BY <1>1, <1>2, <2>1, <2>2, <2>3, <2>4, <2>5 DEF TurnInv, JobsSound
<1>23. AllAnswered'
  BY <1>1 DEF AllAnswered
<1> QED  BY <1>17, <1>19, <1>20, <1>21, <1>22, <1>23 DEF TurnInv, DocsSound

\* Every call of a wave has ended: its results, and the document of its end.
LEMMA JoinStep ==
    ASSUME TurnInv, Join
    PROVE  TurnInv' /\ Ahead(saved, saved')
<1>1. pc = "working" /\ Collected = wave /\ UNCHANGED <<mode, wave, job, outcomes, failing, decision, cancelled, effect, crashes>>
  BY DEF Join, work
<1>2. /\ index \in Call /\ live.called /\ live.active /\ live.answers = messages /\ saved = live
      /\ Len(messages) = index - 1 /\ live.tool = NoCall /\ live.reads = wave
      /\ live.batch = (IF Declared THEN wave ELSE {}) /\ live.waiting \subseteq DOMAIN messages
      /\ \A c \in wave : c \in Call \ DOMAIN messages
      /\ \A c \in Call \ DOMAIN messages : c \notin wave => effect[c] = "none"
      /\ \A c \in Call : live.completed[c] # "none" => Declared /\ c \in wave /\ live.completed[c] = outcomes[c]
  BY <1>1, Working
<1>3. PICK z \in index..Calls : wave = index..z
  BY <1>1, Working
<1>4. PICK l \in Document, m0 \in Seq(Answer), e \in Effect, i \in Call, n \in 0..Calls :
         l = live /\ m0 = messages /\ e = effect /\ i = index /\ n = Len(messages)
  BY <1>2, TurnTypes
<1>5. Calls \in Nat /\ Call = 1..Calls /\ i = n + 1 /\ n \in Nat /\ z \in n..Calls /\ i \in Nat /\ z \in Nat
      /\ wave = (n + 1)..z /\ DOMAIN m0 = 1..n
  BY <1>2, <1>3, <1>4, TurnTypes
<1>6. ASSUME NEW c \in wave
      PROVE  (IF Declared THEN outcomes[c] ELSE ResultOf(c)) \in Outcome
             /\ Honest(IF Declared THEN outcomes[c] ELSE ResultOf(c), effect[c])
  <2>1. CASE Declared
    <3>1. outcomes[c] # "none"
      BY <1>1, <2>1 DEF Collected
    <3>2. job[c] \in {"done", "panicked"} /\ outcomes[c] = ResultOf(c)
      BY <1>1, <2>1, <3>1 DEF TurnInv, JobsSound
    <3> QED  BY <1>1, <2>1, <3>2, Working
  <2>2. CASE ~Declared
    <3>1. job[c] \in {"done", "panicked"}
      BY <1>1, <2>2 DEF Collected
    <3> QED  BY <1>1, <2>2, <3>1, Working
  <2> QED  BY <2>1, <2>2
<1>7. PICK f : f = [c \in Call |-> IF c \in wave THEN IF Declared THEN outcomes[c] ELSE ResultOf(c) ELSE "unknown"]
  OBVIOUS
<1>8. f \in [Call -> Outcome]
  BY <1>6, <1>7, OutcomeFacts
<1>9. \A c \in (n + 1)..z : /\ f[c] = IF Declared THEN outcomes[c] ELSE ResultOf(c)
                            /\ Honest(f[c], e[c])
  BY <1>2, <1>4, <1>5, <1>6, <1>7
<1>10. PICK y \in Nat : y = z - n
  BY <1>5
<1>11. InOrder(wave) = [k \in 1..y |-> n + k] /\ Cardinality(wave) = y
  <2>1. InOrder((n + 1)..z) = [k \in 1..(z - (n + 1) + 1) |-> (n + 1) + k - 1] /\ Cardinality((n + 1)..z) = z - (n + 1) + 1
    <3>1. n + 1 \in Nat /\ z \in Nat /\ n + 1 <= z + 1
      BY <1>5
    <3> QED  BY ONLY <3>1, OrderOfInterval
  <2>2. z - (n + 1) + 1 = y /\ \A k \in 1..y : (n + 1) + k - 1 = n + k
    BY <1>5, <1>10
  <2> QED  BY <1>5, <2>1, <2>2
<1>12. PICK t : t = [k \in 1..y |-> [call |-> n + k, outcome |-> f[n + k]]]
  OBVIOUS
<1>13. \A k \in 1..y : n + k \in Call /\ n + k \in (n + 1)..z
  BY <1>5, <1>10
<1>14. t \in Seq(Answer) /\ Len(t) = y /\ \A k \in 1..y : t[k].call = n + k /\ t[k].outcome = f[n + k]
  <2>1. \A k \in 1..y : [call |-> n + k, outcome |-> f[n + k]] \in Answer
    BY <1>8, <1>13 DEF Answer
  <2>2. t \in [1..y -> Answer]
    BY <1>12, <2>1
  <2>3. t \in Seq(Answer) /\ Len(t) = y
    BY ONLY <2>2, y \in Nat, SequenceOf
  <2>4. \A k \in 1..y : t[k].call = n + k /\ t[k].outcome = f[n + k]
    BY <1>12
  <2> QED  BY <2>3, <2>4
<1>15. PICK m : m = m0 \o t
  OBVIOUS
<1>16. /\ m \in Seq(Answer) /\ Len(m) = z /\ DOMAIN m = 1..z
       /\ Extends(m0, m) /\ MessagesSound(m, e) /\ \A c \in (n + 1)..z : m[c].outcome = f[c]
  <2>1. MessagesSound(m0, e) /\ n = Len(m0)
    BY <1>4 DEF TurnInv
  <2>2. Continue(m0, e, n, z, f, t)
    BY <1>5, <1>8, <1>9, <1>10, <1>14, <2>1 DEF Continue
  <2>3. Continued(m0, e, n, z, f, m0 \o t)
    BY ONLY <2>2, NextResults
  <2>4. Continued(m0, e, n, z, f, m)
    BY <1>15, <2>3
  <2> QED  BY <2>4 DEF Continued
<1>17. PICK last : last = index + Cardinality(wave) - 1
  OBVIOUS
<1>18. last = z
  <2>1. last = (n + 1) + y - 1
    BY <1>4, <1>5, <1>11, <1>17
  <2> QED  BY <1>5, <1>10, <2>1
<1>19. \A c \in Call \ DOMAIN m : e[c] = "none"
  BY <1>2, <1>4, <1>5, <1>16
<1>20. PICK m3 : m3 = m \o NotExecuted(Later(last))
  OBVIOUS
<1>21. m3 \in Seq(Answer) /\ Len(m3) = Calls /\ DOMAIN m3 = Call /\ Extends(m, m3) /\ MessagesSound(m3, e)
  <2>1. last = Len(m) /\ m \in Seq(Answer) /\ MessagesSound(m, e)
    BY <1>16, <1>18
  <2> QED  BY ONLY <1>19, <1>20, <2>1, RestNotExecuted
<1>22. PICK s : s = [Synced EXCEPT !.answers = m]
  OBVIOUS
<1>23. Fields(s, TRUE, m, TRUE, NoCall, l.reads, l.batch, l.completed, l.waiting)
  <2>1. Fields([Synced EXCEPT !.answers = m], TRUE, m, live.active, live.tool, live.reads, live.batch,
               live.completed, live.waiting)
    BY <1>1, <1>16, SyncedFields
  <2>2. l.active = TRUE
    BY <1>2, <1>4 DEF Document
  <2> QED  BY <1>2, <1>4, <1>22, <2>1, <2>2
<1>24. PICK d : d = IF Declared THEN ToolBatchFinished(s) ELSE ReadBatchFinished(s)
  OBVIOUS
<1>25. Fields(d, TRUE, m, TRUE, NoCall, {}, {}, NoOutcomes, l.waiting)
  <2>0. s \in Document /\ {} \in SUBSET Call
    BY <1>23 DEF Fields
  <2>1. CASE Declared
    <3>1. Fields([s EXCEPT !.batch = {}, !.reads = {}, !.completed = NoOutcomes],
                 s.called, s.answers, s.active, s.tool, {}, {}, NoOutcomes, s.waiting)
      BY ONLY <2>0, BatchFields
    <3>2. d = [s EXCEPT !.batch = {}, !.reads = {}, !.completed = NoOutcomes]
      BY <1>24, <2>1, Zenon DEF ToolBatchFinished
    <3> QED  BY <1>23, <3>1, <3>2 DEF Fields
  <2>2. CASE ~Declared
    <3>1. Fields([s EXCEPT !.reads = {}],
                 s.called, s.answers, s.active, s.tool, {}, s.batch, s.completed, s.waiting)
      BY ONLY <2>0, ReadsFields
    <3>2. d = [s EXCEPT !.reads = {}]
      BY <1>24, <2>2, Zenon DEF ReadBatchFinished
    <3>3. l.batch = {} /\ l.completed = NoOutcomes
      <4>1. \A c \in Call : l.completed[c] = "none"
        BY <1>2, <1>4, <2>2
      <4> QED  BY <1>2, <1>4, <2>2, <4>1 DEF Document, NoOutcomes
    <3> QED  BY <1>23, <3>1, <3>2, <3>3 DEF Fields
  <2> QED  BY <2>1, <2>2
<1>26. d \in Document /\ d.called /\ d.answers = m /\ d.completed = NoOutcomes
  BY <1>25 DEF Fields
<1>27. Valid(d)
  BY <1>16, <1>25, <1>26, NoOutcomesType, ValidDocument DEF Fields
<1>28. DocSound(d, m, e)
  BY <1>16, <1>19, <1>26, <1>27, NoOutcomesType, SyncedSound
<1>29. Ahead(l, d)
  <2>1. \A c \in Call : l.completed[c] # "none" => c \in DOMAIN m /\ m[c].outcome = l.completed[c]
    <3> SUFFICES ASSUME NEW c \in Call, l.completed[c] # "none" PROVE c \in DOMAIN m /\ m[c].outcome = l.completed[c]
      OBVIOUS
    <3>1. Declared /\ c \in wave /\ l.completed[c] = outcomes[c]
      BY <1>2, <1>4
    <3> QED  BY <1>5, <1>9, <1>16, <3>1
  <2>2. DocSound(l, m0, e) /\ Extends(m0, m) /\ d \in Document /\ d.answers = m
    BY <1>4, <1>16, <1>26 DEF TurnInv
  <2>3. /\ \A c \in Call \ DOMAIN m : l.completed[c] # "none" => d.completed[c] = l.completed[c]
        /\ \A c \in (Call \cap DOMAIN m) \ DOMAIN l.answers : l.completed[c] # "none" => m[c].outcome = l.completed[c]
    BY <2>1
  <2> QED  BY <2>2, <2>3, SyncedAhead
<1>30. /\ effect' = effect
       /\ Saves(d) \/ SaveFails(d) \/ (live' = d /\ saved' = d /\ NotShown)
       /\ \/ messages' = m3 /\ pc' = "end" /\ index' = index
          \/ Saves(d) /\ messages' = m /\ index' = last + 1 /\ pc' = "next"
  <2>1. messages \o AnswersOf(wave, LAMBDA c : IF Declared THEN outcomes[c] ELSE ResultOf(c)) = m
    <3>1. \A k \in 1..y : f[n + k] = IF Declared THEN outcomes[n + k] ELSE ResultOf(n + k)
      BY <1>9, <1>13
    <3>2. t = [k \in 1..y |-> [call |-> n + k, outcome |-> IF Declared THEN outcomes[n + k] ELSE ResultOf(n + k)]]
      BY <1>12, <3>1
    <3> QED  BY <1>4, <1>11, <1>15, <3>2 DEF AnswersOf
  <2> QED  BY <2>1, <1>1, <1>17, <1>20, <1>22, <1>24 DEF Join
<1>31. /\ MessagesSound(messages', effect) /\ Extends(messages, messages') /\ Extends(m, messages')
       /\ DocSound(d, m, effect) /\ Ahead(live, d) /\ messages' \in Seq(Answer)
  BY <1>4, <1>16, <1>21, <1>28, <1>29, <1>30, ExtendsSelf DEF Extends
<1>32. /\ DocsSound' /\ Ahead(saved, saved') /\ live' = d /\ live' \in Document /\ saved' \in Document
       /\ faults' \in 0..MaxFaults
  <2>1. PICK m2 : m2 = messages'
    OBVIOUS
  <2>2. Extends(messages, m2) /\ Extends(m, m2) /\ MessagesSound(m2, effect) /\ messages' = m2
    BY <1>31, <2>1
  <2> QED  BY <1>26, <1>30, <1>31, <2>2, Checkpointed
<1>33. TypeOK'
  <2>1. index' \in 1..(Calls + 1) /\ pc' \in Place
    BY <1>5, <1>18, <1>30, TurnTypes DEF Place
  <2> QED  BY <1>1, <1>31, <1>32, <2>1 DEF TurnInv, TypeOK
<1>34. PlaceSound'
  <2>1. live'.completed = NoOutcomes
    BY <1>26, <1>32
  <2>2. CASE messages' = m3 /\ pc' = "end"
    BY <1>21, <2>1, <2>2 DEF PlaceSound, One, Wave
  <2>3. CASE Saves(d) /\ messages' = m /\ index' = last + 1 /\ pc' = "next"
    <3>1. /\ live'.called /\ live'.active /\ live'.answers = messages' /\ Idle(live') /\ saved' = live'
          /\ live'.waiting = l.waiting
      BY <1>25, <1>32, <2>3 DEF Saves, Fields, Idle
    <3>2. Len(messages') = index' - 1 /\ DOMAIN m0 \subseteq DOMAIN messages'
      BY <1>5, <1>16, <1>18, <2>3 DEF Extends
    <3>3. live'.waiting \subseteq DOMAIN messages'
      BY <1>2, <1>4, <3>1, <3>2
    <3> QED  BY <2>1, <2>3, <3>1, <3>2, <3>3 DEF PlaceSound, One, Wave
  <2> QED  BY <1>30, <2>2, <2>3
<1>35. JobsSound'
  <2>1. DOMAIN messages \cup wave \subseteq DOMAIN messages'
    BY <1>4, <1>5, <1>16, <1>21, <1>30
  <2>2. pc' \in {"next", "end"} /\ UNCHANGED <<mode, wave, job, outcomes, effect>>
    BY <1>1, <1>30
  <2>3. \A c \in wave : job[c] \notin {"ready", "running"}
    <3> SUFFICES ASSUME NEW c \in wave PROVE job[c] \notin {"ready", "running"}
      OBVIOUS
    <3>1. CASE Declared
      BY <1>1, <3>1 DEF Collected, TurnInv, JobsSound
    <3>2. CASE ~Declared
      BY <1>1, <3>2 DEF Collected
    <3> QED  BY <3>1, <3>2
  <2> QED  BY <1>1, <2>1, <2>2, <2>3, TurnTypes DEF TurnInv, JobsSound
<1>36. AllAnswered'
  BY <1>30 DEF AllAnswered
<1> QED  BY <1>30, <1>31, <1>32, <1>33, <1>34, <1>35, <1>36 DEF TurnInv, DocsSound

-----------------------------------------------------------------------------
(* The invariant, and what follows from it.                                *)

\* The invariant holds at first.
LEMMA InitInv == ASSUME Init PROVE TurnInv
<1>1. PICK d : d = [called |-> FALSE, answers |-> <<>>, active |-> TRUE, tool |-> NoCall, reads |-> {}, batch |-> {},
                    completed |-> NoOutcomes, waiting |-> {}]
  OBVIOUS
<1>2. Fields(d, FALSE, <<>>, TRUE, NoCall, {}, {}, NoOutcomes, {})
  <2>1. <<>> \in Seq(Answer) /\ {} \in SUBSET Call /\ NoCall \in Call \cup {NoCall} /\ FALSE \in BOOLEAN /\ TRUE \in BOOLEAN
    OBVIOUS
  <2> QED  BY <1>1, <2>1, NoOutcomesType DEF Fields, Document
<1>3. /\ live = d /\ saved = d /\ pc = "begin" /\ index = 1 /\ wave = {} /\ messages = <<>>
      /\ \A c \in Call : job[c] = "none" /\ outcomes[c] = "none" /\ effect[c] = "none"
  BY <1>1, NoOutcomesType DEF Init
<1>4. /\ d \in Document /\ ~d.called /\ d.answers = <<>> /\ d.active /\ d.tool = NoCall /\ d.reads = {} /\ d.batch = {}
      /\ d.completed = NoOutcomes /\ d.waiting = {}
  BY <1>2 DEF Fields
<1>5. Outstanding(d) = {}
  BY <1>4 DEF Outstanding
<1>6. Valid(d)
  BY <1>4, <1>5, NoOutcomesType DEF Valid
<1>7. \A c \in Call : Told(d, c) = "none"
  BY <1>4, NoOutcomesType DEF Told
<1>8. DocSound(d, messages, effect)
  BY <1>3, <1>4, <1>6, <1>7 DEF DocSound
<1>9. TypeOK
  <2>1. failing \in BOOLEAN /\ cancelled \in BOOLEAN
    BY DEF Init
  <2>2. job \in [Call -> {"none", "ready", "running", "done", "panicked"}] /\ effect \in [Call -> {"none", "running", "done"}]
        /\ outcomes \in [Call -> Outcome \cup {"none"}]
    BY NoOutcomesType DEF Init
  <2>3. index \in 1..(Calls + 1) /\ faults \in 0..MaxFaults /\ crashes \in 0..MaxCrashes
    BY CallsAssumption, BoundsAssumption DEF Init
  <2>4. messages \in Seq(Answer) /\ wave \subseteq Call /\ pc \in Place /\ decision \in {"none", "allow", "deny"}
        /\ mode \in [Call -> Mode]
    BY <1>3 DEF Init, Place
  <2> QED  BY <1>3, <1>4, <2>1, <2>2, <2>3, <2>4 DEF TypeOK
<1>10. MessagesSound(messages, effect)
  BY <1>3 DEF MessagesSound
<1>11. PlaceSound
  BY <1>3, <1>4 DEF PlaceSound, One, Wave, Idle
<1>12. JobsSound
  BY <1>3 DEF JobsSound
<1>13. AllAnswered
  BY <1>3 DEF AllAnswered
<1> QED  BY <1>3, <1>8, <1>9, <1>10, <1>11, <1>12, <1>13, AheadSelf DEF TurnInv

\* The invariant holds when nothing changes.
LEMMA StutterStep ==
    ASSUME TurnInv, UNCHANGED vars
    PROVE  TurnInv'
<1>1. UNCHANGED <<mode, pc, index, wave, messages, job, outcomes, failing, decision, cancelled, live, saved,
                  effect, faults, crashes>>
  BY DEF vars
<1>2. DocsSound'
  BY <1>1, DocsStay
<1>3. TypeOK'
  BY <1>1 DEF TurnInv, TypeOK
<1>4. PlaceSound'
  BY <1>1 DEF TurnInv, PlaceSound, One, Wave, Declared
<1>5. JobsSound'
  BY <1>1 DEF TurnInv, JobsSound, Declared, ResultOf
<1>6. AllAnswered'
  BY <1>1 DEF TurnInv, AllAnswered, Outstanding, Answered
<1> QED  BY <1>2, <1>3, <1>4, <1>5, <1>6 DEF TurnInv, DocsSound

\* Every step but the beginning and the end of a call tells at most more.
LEMMA TellingStep ==
    ASSUME TurnInv, Next, ~(\E c \in Call : Begin(c) \/ End(c))
    PROVE  TurnInv' /\ Ahead(saved, saved') /\ effect' = effect
<1>1. CASE Completion
  BY <1>1, CompletionStep DEF Completion
<1>2. CASE NoMoreCalls
  BY <1>2, NoMoreCallsStep DEF NoMoreCalls, world
<1>3. CASE CancelledBetween
  BY <1>3, CancelledBetweenStep DEF CancelledBetween, world
<1>4. CASE StartOne
  BY <1>4, StartOneStep DEF StartOne
<1>5. CASE Permitted
  BY <1>5, PermittedStep DEF Permitted, world
<1>6. CASE Refused
  BY <1>6, RefusedStep DEF Refused, world
<1>7. CASE Asks
  BY <1>7, AsksStep DEF Asks
<1>8. CASE Allowed
  BY <1>8, AllowedStep DEF Allowed, world
<1>9. CASE Denied
  BY <1>9, DeniedStep DEF Denied, world
<1>10. CASE Unasked
  BY <1>10, UnaskedStep DEF Unasked
<1>11. CASE NotNoted
  BY <1>11, NotNotedStep DEF NotNoted
<1>12. CASE RunOne
  BY <1>12, RunOneStep DEF RunOne, world
<1>13. CASE FinishOne
  BY <1>13, FinishOneStep DEF FinishOne
<1>14. CASE StartWave
  BY <1>14, StartWaveStep DEF StartWave
<1>15. CASE Spawn
  BY <1>15, SpawnStep DEF Spawn, world
<1>16. CASE CannotPrepare
  BY <1>16, CannotPrepareStep DEF CannotPrepare
<1>17. CASE Abort
  BY <1>17, AbortStep DEF Abort
<1>18. CASE \E c \in Call : Receive(c)
  BY <1>18, ReceiveStep DEF Receive
<1>19. CASE Join
  BY <1>19, JoinStep DEF Join
<1>20. CASE EndTurn
  BY <1>20, EndTurnStep DEF EndTurn
<1>21. CASE Decide
  BY <1>21, DecideStep DEF Decide
<1>22. CASE Cancel
  BY <1>22, CancelStep DEF Cancel, world
<1>23. CASE Autosave
  BY <1>23, AutosaveStep DEF Autosave, world
<1>24. CASE Crash
  BY <1>24, CrashStep DEF Crash
<1>25. CASE Reopen
  BY <1>25, ReopenStep DEF Reopen, world
<1> QED  BY <1>1, <1>2, <1>3, <1>4, <1>5, <1>6, <1>7, <1>8, <1>9, <1>10, <1>11, <1>12, <1>13, <1>14, <1>15,
            <1>16, <1>17, <1>18, <1>19, <1>20, <1>21, <1>22, <1>23, <1>24, <1>25 DEF Next, Worker

\* Every step keeps the invariant.
LEMMA NextInv == ASSUME TurnInv, [Next]_vars PROVE TurnInv'
<1>1. CASE \E c \in Call : Begin(c) \/ End(c)
  BY <1>1, BeginStep, EndStep
<1>2. CASE Next /\ ~(\E c \in Call : Begin(c) \/ End(c))
  BY <1>2, TellingStep
<1>3. CASE UNCHANGED vars
  BY <1>3, StutterStep
<1> QED  BY <1>1, <1>2, <1>3

\* In every reachable state, results are in order and honest, documents are sound,
\* and the pending fields are those of the place where the worker is.
THEOREM TurnInvariant == Spec => []TurnInv
<1>1. Init => TurnInv
  BY InitInv
<1>2. TurnInv /\ [Next]_vars => TurnInv'
  BY NextInv
<1> QED  BY <1>1, <1>2, PTL DEF Spec

\* execution.rs and recover: the results of a turn follow the order of its calls,
\* each call once, and a turn that is over leaves no call without a result.
THEOREM ResultsAreInOrder == Spec => []AnsweredInOrder
<1>1. TurnInv => AnsweredInOrder
  BY DEF TurnInv, MessagesSound, AnsweredInOrder, InSourceOrder
<1> QED  BY <1>1, TurnInvariant, PTL

\* validate_from: no checkpoint of a turn is refused by its own validation.
THEOREM CheckpointsAreValid == Spec => []AlwaysValid
<1>1. TurnInv => AlwaysValid
  BY DEF TurnInv, DocSound, AlwaysValid
<1> QED  BY <1>1, TurnInvariant, PTL

-----------------------------------------------------------------------------
(* What the saved session tells. *)

\* What a saved session tells of a call.
LEMMA ToldOfSaved == TurnInv => \A c \in Call : ToldOf(c) = Told(saved, c)
<1> SUFFICES ASSUME TurnInv, NEW c \in Call PROVE ToldOf(c) = Told(saved, c)
  OBVIOUS
<1>1. PICK s \in Document, m \in Seq(Answer), e \in Effect : s = saved /\ m = messages /\ e = effect
  BY TurnTypes
<1>2. MessagesSound(m, e) /\ Extends(s.answers, m)
  BY <1>1 DEF TurnInv, DocSound, Extends
<1>3. Answered(saved) = DOMAIN saved.answers
  BY <1>1, <1>2, AnsweredInOrderFacts
<1>4. \A i \in DOMAIN saved.answers : saved.answers[i].call = i
  BY <1>1, <1>2 DEF Extends, MessagesSound
<1>5. CASE c \in DOMAIN saved.answers
  <2>1. PICK i : i = CHOOSE j \in DOMAIN saved.answers : saved.answers[j].call = c
    OBVIOUS
  <2>2. i \in DOMAIN saved.answers /\ saved.answers[i].call = c
    BY <1>4, <1>5, <2>1, Zenon
  <2>3. i = c
    BY <1>4, <2>2
  <2>4. ToldOf(c) = saved.answers[i].outcome
    BY <1>3, <1>5, <2>1, Zenon DEF ToldOf
  <2> QED  BY <1>5, <2>3, <2>4 DEF Told
<1>6. CASE c \notin DOMAIN saved.answers
  BY <1>3, <1>6 DEF ToldOf, Told
<1> QED  BY <1>5, <1>6

\* The first state is one of the ledger.
LEMMA LedgerInit == ASSUME Init PROVE Ledger!Init
<1>1. TurnInv
  BY InitInv
<1>2. saved.answers = <<>> /\ saved.completed = NoOutcomes /\ effect = [c \in Call |-> "none"]
  <2>1. PICK d : d = [called |-> FALSE, answers |-> <<>>, active |-> TRUE, tool |-> NoCall, reads |-> {}, batch |-> {},
                      completed |-> NoOutcomes, waiting |-> {}]
    OBVIOUS
  <2>2. d.answers = <<>> /\ d.completed = NoOutcomes
    BY <2>1
  <2>3. saved = d /\ effect = [c \in Call |-> "none"]
    BY <2>1 DEF Init
  <2> QED  BY <2>2, <2>3
<1>3. \A c \in Call : ToldOf(c) = "none"
  BY <1>1, <1>2, ToldOfSaved, NoOutcomesType DEF Told
<1> QED  BY <1>2, <1>3 DEF Ledger!Init

\* What the saved document tells is as CallLedger has it.
ToldSound ==
    /\ \A c \in Call : ToldOf(c) = Told(saved, c) /\ ToldOf(c) \in Outcome \cup {"none"}
    /\ \A c \in Call : ToldOf(c) # "none" => Honest(ToldOf(c), effect[c])

\* What the saved session tells is an outcome, and honest.
LEMMA ToldIsSound == TurnInv => ToldSound
<1> SUFFICES ASSUME TurnInv PROVE ToldSound
  OBVIOUS
<1>1. \A c \in Call : ToldOf(c) = Told(saved, c)
  BY ToldOfSaved
<1>2. \A c \in Call : Told(saved, c) \in Outcome \cup {"none"}
  BY TurnTypes, ToldType
<1> QED  BY <1>1, <1>2 DEF ToldSound, TurnInv, DocSound

\* Every step is a step of the ledger, or none.
LEMMA LedgerNext == ASSUME TurnInv, [Next]_vars PROVE [Ledger!Next]_(Ledger!vars)
<1>1. TurnInv'
  BY NextInv
<1>2. ToldSound
  BY ToldIsSound
<1>3. ToldSound'
  <2>1. TurnInv' => ToldSound'
    BY ToldIsSound, PTL
  <2> QED  BY <1>1, <2>1
<1> DEFINE t == [c \in Call |-> ToldOf(c)]
<1>4. ASSUME saved' = saved PROVE t' = t
  <2>1. \A c \in Call : ToldOf(c)' = ToldOf(c)
    BY <1>2, <1>3, <1>4 DEF ToldSound
  <2> QED  BY <2>1
<1>5. CASE \E c \in Call : Begin(c)
  <2>1. PICK c \in Call : Begin(c)
    BY <1>5
  <2>2. saved' = saved /\ Told(saved, c) = "none" /\ effect[c] = "none" /\ effect' = [effect EXCEPT ![c] = "running"]
    BY <2>1, BeginStep DEF Begin
  <2>3. ToldOf(c) = "none" /\ t[c] = ToldOf(c) /\ t' = t
    BY <1>2, <1>4, <2>2 DEF ToldSound
  <2>4. effect[c] = "none" /\ t[c] \notin Untouched /\ effect' = [effect EXCEPT ![c] = "running"] /\ t' = t
    BY <2>2, <2>3 DEF Untouched
  <2>5. Ledger!Start(c)
    BY <2>4 DEF Ledger!Start
  <2> QED  BY <2>5 DEF Ledger!Next
<1>6. CASE \E c \in Call : End(c)
  <2>1. PICK c \in Call : End(c)
    BY <1>6
  <2>2. saved' = saved /\ effect[c] = "running" /\ effect' \in {effect, [effect EXCEPT ![c] = "done"]}
    BY <2>1, EndStep
  <2>3. t' = t
    BY <1>4, <2>2
  <2>4. CASE effect' = effect
    BY <2>3, <2>4 DEF Ledger!vars
  <2>5. CASE effect' = [effect EXCEPT ![c] = "done"]
    <3>1. Ledger!End(c)
      BY <2>2, <2>3, <2>5 DEF Ledger!End
    <3> QED  BY <3>1 DEF Ledger!Next
  <2> QED  BY <2>2, <2>4, <2>5
<1>7. CASE Next /\ ~(\E c \in Call : Begin(c) \/ End(c))
  <2>1. Ahead(saved, saved') /\ effect' = effect
    BY <1>7, TellingStep
  <2>2. \A c \in Call : t[c] = ToldOf(c) /\ t'[c] = ToldOf(c)'
    OBVIOUS
  <2>3. ASSUME NEW c \in Call PROVE t'[c] = t[c] \/ (t[c] = "none" /\ Ledger!True(c, t'[c]))
    <3>1. CASE ToldOf(c) # "none"
      BY <1>2, <1>3, <2>1, <2>2, <3>1 DEF ToldSound, Ahead
    <3>2. CASE ToldOf(c) = "none" /\ ToldOf(c)' # "none"
      <4>1. ToldOf(c)' \in Outcome /\ Honest(ToldOf(c)', effect[c])
        BY <1>3, <2>1, <3>2 DEF ToldSound
      <4>2. Ledger!True(c, ToldOf(c)')
        BY <4>1, OutcomeFacts DEF Ledger!True, Honest, Untouched
      <4> QED  BY <2>2, <3>2, <4>2
    <3>3. CASE ToldOf(c) = "none" /\ ToldOf(c)' = "none"
      BY <2>2, <3>3
    <3> QED  BY <3>1, <3>2, <3>3
  <2>4. t' \in [Call -> {"none", "done", "unknown"} \cup Untouched]
    <3>1. \A c \in Call : ToldOf(c)' \in {"none", "done", "unknown"} \cup Untouched
      BY <1>3, OutcomeFacts DEF ToldSound, Untouched
    <3> QED  BY <3>1
  <2>5. Ledger!Tell
    BY <2>1, <2>3, <2>4 DEF Ledger!Tell
  <2> QED  BY <2>5 DEF Ledger!Next
<1>8. CASE UNCHANGED vars
  <2>1. saved' = saved /\ effect' = effect
    BY <1>8 DEF vars
  <2> QED  BY <1>4, <2>1 DEF Ledger!vars
<1> QED  BY <1>5, <1>6, <1>7, <1>8

\* A saved session tells of its calls what CallLedger promises: an outcome is
\* told once, and never of a call that then runs.
THEOREM OutcomesAreHonest == Spec => HonestOutcomes
<1>1. Init => Ledger!Init
  BY LedgerInit
<1>2. TurnInv /\ [Next]_vars => [Ledger!Next]_(Ledger!vars)
  BY LedgerNext
<1> QED  BY <1>1, <1>2, TurnInvariant, PTL DEF Spec, HonestOutcomes, Ledger!Spec

\* A session that a save has written can always be opened again: what recovery
\* makes of the saved document, wherever the program stopped, is valid, has a
\* result for each of its calls, and takes back nothing that was told.
SavedReopens ==
    LET r == Recovered(saved)
    IN  Valid(saved) /\ Valid(r) /\ ~r.active /\ Outstanding(r) = {} /\ Ahead(saved, r)

\* Reopen is never refused: what a save writes before any crash, recovery can read.
THEOREM SessionsReopen == Spec => []SavedReopens
<1>1. TurnInv => SavedReopens
  <2> SUFFICES ASSUME TurnInv PROVE SavedReopens
    OBVIOUS
  <2>1. PICK s \in Document, m0 \in Seq(Answer), e \in Effect : s = saved /\ m0 = messages /\ e = effect
    BY TurnTypes
  <2>2. PICK r : r = Recovered(s)
    OBVIOUS
  <2>3. MessagesSound(m0, e) /\ DocSound(s, m0, e)
    BY <2>1 DEF TurnInv
  <2>4. Valid(r) /\ ~r.active /\ Outstanding(r) = {} /\ Ahead(s, r)
    BY ONLY <2>2, <2>3, s \in Document, m0 \in Seq(Answer), RecoveredSound
  <2> QED  BY <2>1, <2>2, <2>3, <2>4 DEF SavedReopens, DocSound
<1> QED  BY <1>1, TurnInvariant, PTL
=============================================================================
