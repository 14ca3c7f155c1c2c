---------------------------- MODULE ProcessRegistry ----------------------------
(***************************************************************************)
(* The command processes of one conversation: src/tools/processes.rs and   *)
(* src/tools/processes/{entry,lifecycle,observer}.rs.                      *)
(*                                                                         *)
(* Four kinds of threads share a Scope:                                    *)
(*   - tool calls (Call) launch processes, wait for them and report them;  *)
(*   - one monitor per process records its outcome;                        *)
(*   - interfaces (Reader) list completions from their own cursors, stop   *)
(*     processes and move waits into the background;                       *)
(*   - the agent marks the completions it delivered as reported.           *)
(* One action is one critical section.  The Scope's list lock is taken     *)
(* before an Entry's state lock; it is modelled where it matters: a reader *)
(* scans the list entry by entry while it holds it.  Every other holder    *)
(* of the list lock finishes in the step that takes it.                    *)
(*                                                                         *)
(* Left out: output bytes and cursors, terminals, and what a status says.  *)
(* A read of a saved stream either succeeds or fails.  Condition-variable  *)
(* wakeups are left out because every wait polls its conditions each 20 ms.*)
(***************************************************************************)
EXTENDS Naturals, FiniteSets

CONSTANTS
    Process,      \* the processes this conversation may launch
    NoProcess,    \* what an idle call refers to
    Call,         \* slots for concurrent tool calls
    Reader,       \* interfaces with a completion cursor of their own
    Retained,     \* RETAINED_FINISHED, 32 in the code
    MaxReleases   \* bound on the releases of one process

ASSUME ProcessAssumption == IsFiniteSet(Process) /\ NoProcess \notin Process
ASSUME CallAssumption == IsFiniteSet(Call)
ASSUME RetainedAssumption == Retained \in Nat \ {0}
ASSUME MaxReleasesAssumption == MaxReleases \in Nat

VARIABLES
    scope,      \* "open", then "closing" inside stop_all, then "closed"
    entries,    \* the processes in the scope's list
    launches,   \* how many were pushed; state[p].born orders the list
    sequence,   \* the scope's counter of numbered completions
    state,      \* Entry.state of each process (and its place in the list)
    stop,       \* the processes whose stop was requested
    call,       \* what each tool call is doing
    cursor,     \* the last number each reader has read
    scan,       \* a reader's scan of the list, during which it holds the lock
    shown       \* the completions each reader has been given

vars == <<scope, entries, launches, sequence, state, stop, call, cursor, scan, shown>>

\* outcome stands for outcome.is_some(); sequence 0 stands for None.
State == [born : Nat, outcome : BOOLEAN, waiters : Nat, released : Nat,
          returned : BOOLEAN, sequence : Nat, reported : BOOLEAN]

\* An entry as adopt_control registers it, and what stands for one that is not.
Registered(n, waiting) ==
    [born |-> n, outcome |-> FALSE, waiters |-> waiting, released |-> 0,
     returned |-> FALSE, sequence |-> 0, reported |-> FALSE]
NewState == Registered(0, 0)

\* What a call does with its process.  A foreground launch owns its command; a
\* launch with wait_ms, a poll, and stop and input once they have acted, wait.
Launch == {"foreground", "wait"}
Polling == {"wait", "stop", "input"}

\* Where a call stands.  In Holding it is counted in the process's waiters.
Holding == {"waiting", "cancelled", "stopping", "ended", "report"}
Place == Holding \cup {"idle", "found", "ready", "owed"}

CallState == [at : Place, action : Launch \cup Polling \cup {"none"},
              process : Process \cup {NoProcess}, generation : Nat, cancel : BOOLEAN]

Calling(at, action, p) ==
    [at |-> at, action |-> action, process |-> p, generation |-> 0, cancel |-> FALSE]
IdleCall == Calling("idle", "none", NoProcess)

Scan == [on : BOOLEAN, left : SUBSET Process, found : SUBSET Process]
NoScan == [on |-> FALSE, left |-> {}, found |-> {}]

TypeOK ==
    /\ scope \in {"open", "closing", "closed"}
    /\ entries \subseteq Process
    /\ launches \in Nat
    /\ sequence \in Nat
    /\ state \in [Process -> State]
    /\ stop \subseteq Process
    /\ call \in [Call -> CallState]
    /\ cursor \in [Reader -> Nat]
    /\ scan \in [Reader -> Scan]
    /\ shown \in [Reader -> SUBSET Process]

Init ==
    /\ scope = "open"
    /\ entries = {}
    /\ launches = 0
    /\ sequence = 0
    /\ state = [p \in Process |-> NewState]
    /\ stop = {}
    /\ call = [c \in Call |-> IdleCall]
    /\ cursor = [r \in Reader |-> 0]
    /\ scan = [r \in Reader |-> NoScan]
    /\ shown = [r \in Reader |-> {}]

-----------------------------------------------------------------------------
Launched(p) == state[p].born > 0
Ended(p) == state[p].outcome
Numbered(p) == state[p].sequence > 0
Holders(p) == {c \in Call : call[c].at \in Holding /\ call[c].process = p}
Owing(p) == {c \in Call : call[c].at = "owed" /\ call[c].process = p}

\* Definitions named Name_Fault are faults that the properties must notice; no
\* action uses them.

\* The list lock is free for a step of another thread.
ListFree == \A r \in Reader : ~scan[r].on

\* Entry::forgettable: the model has seen the ending and nobody waits.
Forgettable_Unseen(p) == Ended(p) /\ state[p].waiters = 0
Forgettable(p) == Ended(p) /\ state[p].reported /\ state[p].waiters = 0

\* Scope::adopt drops the oldest forgettable entries beyond Retained - 1.
Excess ==
    LET finished == Cardinality({p \in entries : Forgettable(p)})
    IN  IF finished > Retained - 1 THEN finished - (Retained - 1) ELSE 0

Forgotten ==
    {p \in entries : /\ Forgettable(p)
                     /\ Cardinality({q \in entries : Forgettable(q) /\ state[q].born < state[p].born})
                            < Excess}

\* A terminal transition that no waiting call will report.
Unannounced_IgnoresWaiters(s) == s.outcome /\ ~s.reported /\ s.sequence = 0
Unannounced_NumbersAgain(s) == s.outcome /\ s.waiters = 0 /\ ~s.reported
Unannounced(s) == s.outcome /\ s.waiters = 0 /\ ~s.reported /\ s.sequence = 0

Transition_WithoutListLock(p, s) ==
    IF Unannounced(s)
    THEN /\ sequence' = sequence + 1
         /\ state' = [state EXCEPT ![p] = [s EXCEPT !.sequence = sequence + 1]]
    ELSE /\ state' = [state EXCEPT ![p] = s]
         /\ UNCHANGED sequence

\* Entry::transition: p's state becomes s, numbered if nobody else reports it.
Transition(p, s) ==
    /\ ListFree
    /\ IF Unannounced(s)
       THEN /\ sequence' = sequence + 1
            /\ state' = [state EXCEPT ![p] = [s EXCEPT !.sequence = sequence + 1]]
       ELSE /\ state' = [state EXCEPT ![p] = s]
            /\ UNCHANGED sequence

-----------------------------------------------------------------------------
(* Tool calls. *)

\* Registry::adopt_control: the entry is registered with its launching call
\* already counted, at release generation 0, before the call waits.
Adopt(c, p, action) ==
    /\ scope = "open" /\ ListFree
    /\ call[c].at = "idle"
    /\ ~Launched(p)
    /\ entries' = (entries \ Forgotten) \cup {p}
    /\ launches' = launches + 1
    /\ state' = [state EXCEPT ![p] = Registered(launches + 1, 1)]
    /\ call' = [call EXCEPT ![c] = Calling("waiting", action, p)]
    /\ UNCHANGED <<scope, sequence, stop, cursor, scan, shown>>

\* Registry::execute finds the entry under the list lock and lets the lock go:
\* the entry may be forgotten before the call uses it.
Find(c, p, action) ==
    /\ scope = "open" /\ ListFree
    /\ call[c].at = "idle"
    /\ p \in entries
    /\ call' = [call EXCEPT ![c] =
                   Calling(IF action = "wait" THEN "ready" ELSE "found", action, p)]
    /\ UNCHANGED <<scope, entries, launches, sequence, state, stop, cursor, scan, shown>>

\* action stop: Entry::request_stop leaves a process that already ended alone.
CallStop(c) ==
    LET p == call[c].process IN
    /\ call[c].at = "found" /\ call[c].action = "stop"
    /\ stop' = IF Ended(p) THEN stop ELSE stop \cup {p}
    /\ call' = [call EXCEPT ![c] = Calling("ready", "wait", p)]
    /\ UNCHANGED <<scope, entries, launches, sequence, state, cursor, scan, shown>>

\* write, resize and interrupt are refused once the process ended or is
\* stopping; otherwise the terminal takes them, or fails.
CallInput(c) ==
    LET p == call[c].process IN
    /\ call[c].at = "found" /\ call[c].action = "input"
    /\ \/ /\ ~Ended(p) /\ p \notin stop
          /\ call' = [call EXCEPT ![c] = Calling("ready", "wait", p)]
       \/ call' = [call EXCEPT ![c] = IdleCall]
    /\ UNCHANGED <<scope, entries, launches, sequence, state, stop, cursor, scan, shown>>

\* Entry::begin_wait: the waiter and its release generation are one change.
BeginWait(c) ==
    LET p == call[c].process IN
    /\ call[c].at = "ready"
    /\ state' = [state EXCEPT ![p].waiters = @ + 1]
    /\ call' = [call EXCEPT ![c] = [Calling("waiting", call[c].action, p)
                                    EXCEPT !.generation = state[p].released]]
    /\ UNCHANGED <<scope, entries, launches, sequence, stop, cursor, scan, shown>>

\* The turn's cancellation reaches a call.  Only a wait looks at it.
Cancel(c) ==
    /\ call[c].at = "waiting" /\ ~call[c].cancel
    /\ call' = [call EXCEPT ![c].cancel = TRUE]
    /\ UNCHANGED <<scope, entries, launches, sequence, state, stop, cursor, scan, shown>>

\* The call goes on from its wait, which is all that used the generation.
Leave(c, place) ==
    call' = [call EXCEPT ![c] = Calling(place, call[c].action, call[c].process)]

\* Entry::wait_held checks a final outcome first, then cancellation, then a
\* release, then the deadline.
Returns_MissesOutcome(c) ==
    ~call[c].cancel /\ state[call[c].process].released # call[c].generation
Returns(c) ==
    \/ Ended(call[c].process)
    \/ ~call[c].cancel /\ state[call[c].process].released # call[c].generation

WaitOver(c) ==
    /\ call[c].at = "waiting"
    /\ \/ Returns(c) /\ Leave(c, "ended")
       \/ /\ ~Ended(call[c].process) /\ call[c].cancel
          /\ Leave(c, IF call[c].action = "foreground" THEN "cancelled" ELSE "ended")
    /\ UNCHANGED <<scope, entries, launches, sequence, state, stop, cursor, scan, shown>>

WaitElapsed(c) ==
    LET p == call[c].process IN
    /\ call[c].at = "waiting"
    /\ ~Ended(p) /\ ~call[c].cancel /\ state[p].released = call[c].generation
    /\ Leave(c, "ended")
    /\ UNCHANGED <<scope, entries, launches, sequence, state, stop, cursor, scan, shown>>

\* Interrupting a foreground wait stops its command, without asking again
\* whether the command ended by itself in the meantime.
StopForeground(c) ==
    /\ call[c].at = "cancelled"
    /\ stop' = stop \cup {call[c].process}
    /\ call' = [call EXCEPT ![c].at = "stopping"]
    /\ UNCHANGED <<scope, entries, launches, sequence, state, cursor, scan, shown>>

\* The second wait ends with the process or after STOP_WAIT.
StopWaitOver(c) ==
    /\ call[c].at = "stopping"
    /\ call' = [call EXCEPT ![c].at = "ended"]
    /\ UNCHANGED <<scope, entries, launches, sequence, state, stop, cursor, scan, shown>>

\* Entry::final_outcome: a foreground call returns a final outcome itself.
AfterFinal_KeepsWaiting(s) == [s EXCEPT !.reported = TRUE]
AfterFinal(s) == [s EXCEPT !.waiters = @ - 1, !.reported = TRUE]

FinalOutcome(c) ==
    LET p == call[c].process IN
    /\ call[c].at = "ended" /\ call[c].action = "foreground"
    /\ IF Ended(p)
       THEN /\ state' = [state EXCEPT ![p] = AfterFinal(state[p])]
            /\ call' = [call EXCEPT ![c] = IdleCall]
       ELSE /\ call' = [call EXCEPT ![c].at = "report"]
            /\ UNCHANGED state
    /\ UNCHANGED <<scope, entries, launches, sequence, stop, cursor, scan, shown>>

Reports(c) ==
    \/ call[c].at = "report"
    \/ call[c].at = "ended" /\ call[c].action # "foreground"

\* Entry::report, one critical section while both streams can be read.
AfterReport_CountsTwice(s) == [s EXCEPT !.waiters = @ - 2, !.returned = TRUE,
                                        !.reported = @ \/ s.outcome]
AfterReport(s) == [s EXCEPT !.waiters = @ - 1, !.returned = TRUE,
                            !.reported = @ \/ s.outcome]

Report(c) ==
    LET p == call[c].process IN
    /\ Reports(c)
    /\ state' = [state EXCEPT ![p] = AfterReport(state[p])]
    /\ call' = [call EXCEPT ![c] = IdleCall]
    /\ UNCHANGED <<scope, entries, launches, sequence, stop, cursor, scan, shown>>

\* A stream that cannot be read: the call has stopped waiting but carries no
\* outcome.  The state lock is dropped before the entry is looked at again.
AfterFailure(s) == [s EXCEPT !.waiters = @ - 1, !.returned = TRUE]

ReportFails(c) ==
    LET p == call[c].process IN
    /\ Reports(c)
    /\ state' = [state EXCEPT ![p] = AfterFailure(state[p])]
    /\ Leave(c, "owed")
    /\ UNCHANGED <<scope, entries, launches, sequence, stop, cursor, scan, shown>>

\* The failed report's transition(|_| {}).
Owe_Forgets(c) ==
    /\ call[c].at = "owed"
    /\ call' = [call EXCEPT ![c] = IdleCall]
    /\ UNCHANGED <<scope, entries, launches, sequence, state, stop, cursor, scan, shown>>

Owe(c) ==
    /\ call[c].at = "owed"
    /\ Transition(call[c].process, state[call[c].process])
    /\ call' = [call EXCEPT ![c] = IdleCall]
    /\ UNCHANGED <<scope, entries, launches, stop, cursor, scan, shown>>

\* action list reports every final status it shows.  It holds the list lock
\* throughout, so no outcome changes under it.
List(c) ==
    /\ scope = "open" /\ ListFree
    /\ call[c].at = "idle"
    /\ state' = [p \in Process |->
                    IF p \in entries THEN [state[p] EXCEPT !.reported = @ \/ state[p].outcome]
                                     ELSE state[p]]
    /\ UNCHANGED <<scope, entries, launches, sequence, stop, call, cursor, scan, shown>>

-----------------------------------------------------------------------------
(* Monitors, interfaces, and the conversation's end. *)

\* The monitor thread of p: supervision returned, by itself, at the execution
\* timeout, or because of a stop.
End(p) ==
    /\ Launched(p) /\ ~Ended(p)
    /\ Transition(p, [state[p] EXCEPT !.outcome = TRUE])
    /\ UNCHANGED <<scope, entries, launches, stop, call, cursor, scan, shown>>

\* Observer::request_stop.
RequestStop_AlsoEnded(p) ==
    /\ ListFree /\ p \in entries
    /\ stop' = stop \cup {p}
    /\ UNCHANGED <<scope, entries, launches, sequence, state, call, cursor, scan, shown>>

RequestStop(p) ==
    /\ ListFree /\ p \in entries /\ ~Ended(p)
    /\ stop' = stop \cup {p}
    /\ UNCHANGED <<scope, entries, launches, sequence, state, call, cursor, scan, shown>>

\* Observer::move_to_background.
MoveToBackground(p) ==
    /\ ListFree /\ p \in entries
    /\ ~Ended(p) /\ state[p].waiters > 0
    /\ state[p].released < MaxReleases
    /\ state' = [state EXCEPT ![p].released = @ + 1]
    /\ UNCHANGED <<scope, entries, launches, sequence, stop, call, cursor, scan, shown>>

\* Scope::completions_after for a reader: take the list lock, look at each
\* entry under its own lock, then sort, move the cursor and let the list go.
ScanBegin(r) ==
    /\ ListFree
    /\ scan' = [scan EXCEPT ![r] = [on |-> TRUE, left |-> entries, found |-> {}]]
    /\ UNCHANGED <<scope, entries, launches, sequence, state, stop, call, cursor, shown>>

ScanEntry(r, p) ==
    /\ scan[r].on /\ p \in scan[r].left
    /\ scan' = [scan EXCEPT ![r] =
           [on    |-> TRUE,
            left  |-> scan[r].left \ {p},
            found |-> IF state[p].sequence > cursor[r] THEN scan[r].found \cup {p}
                                                       ELSE scan[r].found]]
    /\ UNCHANGED <<scope, entries, launches, sequence, state, stop, call, cursor, shown>>

Latest(found, from) ==
    IF found = {} THEN from
    ELSE CHOOSE n \in {state[p].sequence : p \in found} :
             \A p \in found : state[p].sequence <= n

ScanEnd(r) ==
    /\ scan[r].on /\ scan[r].left = {}
    /\ cursor' = [cursor EXCEPT ![r] = Latest(scan[r].found, cursor[r])]
    /\ shown' = [shown EXCEPT ![r] = @ \cup scan[r].found]
    /\ scan' = [scan EXCEPT ![r] = NoScan]
    /\ UNCHANGED <<scope, entries, launches, sequence, state, stop, call>>

\* Registry::completions: what the next request tells the model.
Completions_AlsoReported == {p \in entries : Numbered(p)}
Completions == {p \in entries : Numbered(p) /\ ~state[p].reported}

\* Registry::completion_waiting: something worth a turn of its own.
CompletionWaiting_AlsoStopped == \E p \in entries : Numbered(p) /\ ~state[p].reported
CompletionWaiting == \E p \in entries : Numbered(p) /\ ~state[p].reported /\ p \notin stop

\* Registry::mark_reported.
MarkReported(ids) ==
    /\ ListFree
    /\ state' = [p \in Process |-> IF p \in ids \cap entries
                                   THEN [state[p] EXCEPT !.reported = TRUE] ELSE state[p]]
    /\ UNCHANGED <<scope, entries, launches, sequence, stop, call, cursor, scan, shown>>

StopAll_OnlyForgets ==
    /\ scope = "open" /\ ListFree
    /\ \A c \in Call : call[c].at = "idle"
    /\ scope' = "closing"
    /\ entries' = {}
    /\ UNCHANGED <<launches, sequence, state, stop, call, cursor, scan, shown>>

\* Registry::stop_all, which its owner calls when no tool call is running: the
\* list is taken, every entry is asked to stop, then every monitor is joined.
StopAll ==
    /\ scope = "open" /\ ListFree
    /\ \A c \in Call : call[c].at = "idle"
    /\ scope' = "closing"
    /\ stop' = stop \cup entries
    /\ entries' = {}
    /\ UNCHANGED <<launches, sequence, state, call, cursor, scan, shown>>

MonitorsJoined ==
    /\ scope = "closing"
    /\ \A p \in Process : Launched(p) => Ended(p)
    /\ scope' = "closed"
    /\ UNCHANGED <<entries, launches, sequence, state, stop, call, cursor, scan, shown>>

-----------------------------------------------------------------------------
CallStep(c) ==
    \/ CallStop(c) \/ CallInput(c) \/ BeginWait(c) \/ WaitOver(c)
    \/ StopForeground(c) \/ StopWaitOver(c) \/ FinalOutcome(c)
    \/ Report(c) \/ ReportFails(c) \/ Owe(c)

CallBegins(c) ==
    \/ \E p \in Process, action \in Launch : Adopt(c, p, action)
    \/ \E p \in Process, action \in Polling : Find(c, p, action)
    \/ List(c)

ReaderStep(r) ==
    \/ ScanBegin(r)
    \/ \E p \in Process : ScanEntry(r, p)
    \/ ScanEnd(r)

InterfaceStep(p) == RequestStop(p) \/ MoveToBackground(p)

\* The agent marks completions it was given.
AgentStep == \E ids \in SUBSET {p \in Process : Numbered(p)} : MarkReported(ids)

Next ==
    \/ \E c \in Call : CallBegins(c) \/ CallStep(c) \/ Cancel(c) \/ WaitElapsed(c)
    \/ \E p \in Process : End(p) \/ InterfaceStep(p)
    \/ \E r \in Reader : ReaderStep(r)
    \/ AgentStep
    \/ StopAll \/ MonitorsJoined

Spec == Init /\ [][Next]_vars

\* Waits poll every 20 ms, a reader that holds the list finishes its scan, a
\* stop makes supervision kill and return, and a thread that wants the list
\* lock gets it although readers come and go.  A deadline is not assumed: the
\* model may wait as long as it likes.
Fairness ==
    /\ \A c \in Call : WF_vars(CallStep(c)) /\ SF_vars(Owe(c))
    /\ \A p \in Process : SF_vars(p \in stop /\ End(p))
    /\ \A r \in Reader : WF_vars(ScanEnd(r) \/ \E p \in Process : ScanEntry(r, p))
    /\ WF_vars(MonitorsJoined)

FairSpec == Spec /\ Fairness

-----------------------------------------------------------------------------
(* Properties. *)

\* A process's waiter count is exactly the calls that will still report it:
\* begin_wait, final_outcome and report never lose or double a waiter, whatever
\* the order in which overlapping calls start, fail and return.
WaitersCounted == \A p \in Process : state[p].waiters = Cardinality(Holders(p))

\* No ending is dropped: once a process has ended, the model has seen it, or it
\* is numbered for delivery, or a call that will report it or hand it back is
\* still on its way.  Monitors, failing reports and other waiters race here.
NoEndingLost ==
    \A p \in Process :
        Ended(p) => state[p].reported \/ Numbered(p) \/ Holders(p) # {} \/ Owing(p) # {}

\* Scope::adopt forgets only what the model has seen: a running process, or one
\* whose ending is still owed, stays in the list until the conversation ends.
OwedStaysListed ==
    \A p \in Process :
        scope = "open" /\ Launched(p) /\ ~(Ended(p) /\ state[p].reported) => p \in entries

\* Numbers are given to ended processes only, without gaps or duplicates, so
\* they order the completions as they happened.
NumbersAreDense ==
    /\ \A p, q \in Process : Numbered(p) /\ state[p].sequence = state[q].sequence => p = q
    /\ \A p \in Process : Numbered(p) => Ended(p) /\ state[p].sequence <= sequence
    /\ \A n \in 1..sequence : \E p \in Process : state[p].sequence = n

\* The cursor of an interface separates what it has been given from what it has
\* not, for every listed process: none is passed over and none is shown twice.
\* The list lock held for a whole scan is what makes this true.
CursorSeparates ==
    \A r \in Reader : \A p \in entries :
        p \in shown[r] <=> Numbered(p) /\ state[p].sequence <= cursor[r]

\* A number is given to an ending only when no waiting call will report it and
\* none has: a waiting call's final receipt and an announcement never both
\* describe one ending (lifecycle.rs, module comment).
AnnouncedAlone ==
    [][\A p \in Process :
          ~Numbered(p) /\ Numbered(p)' =>
              Ended(p)' /\ ~state[p].reported /\ Holders(p)' = {}]_vars

\* What a numbered completion says is final: its number, and whether the stop
\* was requested, which decides whether it may start a turn, read the same at
\* every later scan and delivery, also when a stop races the ending.
CompletionIsStable ==
    [][\A p \in Process :
          Numbered(p) /\ p \in entries /\ scope' = "open" =>
              /\ state'[p].sequence = state[p].sequence
              /\ state[p].reported => state'[p].reported
              /\ p \in stop' <=> p \in stop]_vars

\* A successful release ends the wait of every call it found waiting.
ReleasedCallReturns ==
    \A c \in Call :
        (/\ call[c].at = "waiting"
         /\ state[call[c].process].released # call[c].generation) ~> call[c].at # "waiting"

\* Ending the conversation stops every process it still runs, and finishes.
StopAllReturns == scope = "closing" ~> scope = "closed"

\* A call that waits for a process that has ended returns.
EndedWaitReturns ==
    \A c \in Call :
        (call[c].at \in Holding /\ Ended(call[c].process)) ~> call[c].at = "idle"

\* Whoever waits is answered: a released wait ends although the process runs on,
\* an ended one returns, and a conversation that ends stops what it runs.
WaitsReturn == ReleasedCallReturns /\ EndedWaitReturns /\ StopAllReturns

\* What an interface or a call was told of an ending stays so, and is told alone.
EndingsStay == AnnouncedAlone /\ CompletionIsStable
=============================================================================
