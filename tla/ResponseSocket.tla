---------------------------- MODULE ResponseSocket ----------------------------
(***************************************************************************)
(* Model requests over OpenAI's Responses WebSocket, with HTTP as fallback *)
(* (src/backend/openai/socket.rs), and their retries                       *)
(* (src/agent/recovery.rs).  One conversation has one channel; its samples *)
(* are its turn's requests and maintenance that overlaps them.             *)
(*                                                                         *)
(* The provider answers a message with text, one terminal event and        *)
(* perhaps a timing event that trails it; it may close the connection or   *)
(* refuse its age at any moment.  HTTP (HttpPool) is one step here.        *)
(* Left out: what events contain, tokens, charges, and how long waits are. *)
(***************************************************************************)
EXTENDS Naturals, Sequences, FiniteSets

CONSTANTS
    Sample, NoSample,
    NoWire,
    MaxUnread,  \* bound on the frames that wait to be read when text comes
    EmptyLimit  \* empty answers that end a request: three

ASSUME SocketAssumption ==
    /\ NoSample \notin Sample
    /\ MaxUnread \in Nat
    /\ EmptyLimit \in Nat \ {0}

VARIABLES
    holder,  \* who holds the channel's lock
    wire,    \* Channel.connection, with what the provider does on it
    paused,  \* Channel.paused_until lies ahead
    sample   \* the thread of each sample

socketVars == <<holder, wire, paused, sample>>

\* One message sent: the sample, and how many its attempt had sent by then.
Sending == [of : Sample, number : 1..3]
NoSending == [of |-> NoSample, number |-> 0]

Wire == [frames : Seq([kind : {"text", "terminal", "timing", "expired", "end"},
                       of : Sending \cup {NoSending}]),
         serving : Sending \cup {NoSending}, \* the message being answered
         trailing : Sending \cup {NoSending}] \* whose timing event is yet to come

SocketTypeOK ==
    /\ holder \in Sample \cup {NoSample}
    /\ wire \in Wire \cup {NoWire}
    /\ paused \in BOOLEAN
    /\ sample \in [Sample ->
         [at : {"new", "ready", "round", "http", "backoff", "complete", "failed"},
          tries : 0..2, sent : 0..3, empty : 0..(EmptyLimit - 1),
          answering : BOOLEAN, shown : SUBSET Sending, expired : BOOLEAN]]

NewSample == [at |-> "new", tries |-> 0, sent |-> 0, empty |-> 0,
              answering |-> FALSE, shown |-> {}, expired |-> FALSE]

SocketInit ==
    /\ holder = NoSample /\ wire = NoWire /\ paused = FALSE
    /\ sample = [s \in Sample |-> NewSample]

\* The message s is waiting for an answer to.
Current(s) == [of |-> s, number |-> sample[s].sent]

-----------------------------------------------------------------------------
(* exchange. *)

\* The lock is tried, never waited for; a pause leaves the request for HTTP.
BeginExchange(s) ==
    /\ sample[s].at = "new"
    /\ IF holder = NoSample /\ ~paused
       THEN holder' = s /\ sample' = [sample EXCEPT ![s].at = "ready"]
       ELSE holder' = holder /\ sample' = [sample EXCEPT ![s].at = "http"]
    /\ UNCHANGED <<wire, paused>>

\* What the provider may do with a message it received.
Deliver(s, connection) ==
    /\ wire' = [connection EXCEPT !.serving = [of |-> s, number |-> sample[s].sent + 1]]
    /\ sample' = [sample EXCEPT ![s] = [@ EXCEPT !.at = "round", !.sent = sample[s].sent + 1,
                                                 !.tries = sample[s].tries + 1, !.answering = FALSE]]

\* usable drains what arrived while the connection was idle.
Drained == [wire EXCEPT !.frames = <<>>]
Ended == \E i \in DOMAIN wire.frames : wire.frames[i].kind = "end"

\* ready: the connection is used again while it has not ended.
ReadyReuses(s) ==
    /\ sample[s].at = "ready" /\ sample[s].tries < 2
    /\ wire # NoWire /\ ~Ended
    /\ Deliver(s, Drained)
    /\ UNCHANGED <<holder, paused>>

\* It is replaced when it ended, came of age or has an old access token.
ReadyOpens(s) ==
    /\ sample[s].at = "ready" /\ sample[s].tries < 2
    /\ Deliver(s, [frames |-> <<>>, serving |-> NoSending, trailing |-> NoSending])
    /\ UNCHANGED <<holder, paused>>

ToHttp(s) ==
    /\ wire' = NoWire /\ paused' = TRUE /\ holder' = NoSample
    /\ sample' = [sample EXCEPT ![s].at = "http"]

OpenFails(s) ==
    /\ sample[s].at = "ready" /\ sample[s].tries < 2
    /\ ToHttp(s)

\* Two connections ended before answering.
GivesWay(s) ==
    /\ sample[s].at = "ready" /\ sample[s].tries = 2
    /\ ToHttp(s)

\* A pause ends after five minutes.
PauseEnds ==
    /\ paused /\ paused' = FALSE
    /\ UNCHANGED <<holder, wire, sample>>

-----------------------------------------------------------------------------
(* round. *)

InRound(s) == holder = s /\ sample[s].at = "round"
Next1(s) == InRound(s) /\ wire.frames # <<>>
Rest == [wire EXCEPT !.frames = Tail(@)]
Show(s) ==
    [sample EXCEPT ![s] = [@ EXCEPT !.answering = TRUE,
                                    !.shown = sample[s].shown \cup {Head(wire.frames).of}]]

\* What becomes of an attempt.  A temporary failure is retried, as often as it
\* takes; the request's last empty answer ends it, as does any other failure.
\* The count of empty answers goes with the request.
Ending == {"complete", "temporary", "empty", "other"}
Retried(s, ending) ==
    ending = "temporary" \/ (ending = "empty" /\ sample[s].empty + 1 < EmptyLimit)
After(s, ending) ==
    IF Retried(s, ending) THEN "backoff" ELSE IF ending = "complete" THEN "complete" ELSE "failed"
Empties(s, ending) ==
    IF ~Retried(s, ending) THEN 0 ELSE sample[s].empty + IF ending = "empty" THEN 1 ELSE 0
Leave(s, ending, shown) ==
    [sample EXCEPT ![s] = [@ EXCEPT !.at = After(s, ending), !.empty = Empties(s, ending),
                                    !.shown = shown, !.tries = 0, !.sent = 0,
                                    !.answering = FALSE]]

ReadTiming(s) ==
    /\ Next1(s) /\ Head(wire.frames).kind = "timing"
    /\ wire' = Rest
    /\ UNCHANGED <<holder, paused, sample>>

ReadText(s) ==
    /\ Next1(s) /\ Head(wire.frames).kind = "text"
    /\ wire' = Rest /\ sample' = Show(s)
    /\ UNCHANGED <<holder, paused>>

\* Round::Ended: the connection stays; the event may be a refusal or be empty.
ReadTerminal(s) ==
    /\ Next1(s) /\ Head(wire.frames).kind = "terminal"
    /\ wire' = Rest /\ holder' = NoSample
    /\ \E ending \in Ending :
          sample' = Leave(s, ending, sample[s].shown \cup {Head(wire.frames).of})
    /\ UNCHANGED <<paused>>

\* Round::Stale: the request goes out on a new connection, then by HTTP.
Stale(s, expired) ==
    /\ wire' = NoWire
    /\ sample' = [sample EXCEPT ![s] = [@ EXCEPT !.at = "ready", !.answering = FALSE,
                      !.expired = sample[s].expired \/ (expired /\ sample[s].answering)]]
    /\ UNCHANGED <<holder, paused>>

ReadExpired(s) ==
    /\ Next1(s) /\ Head(wire.frames).kind = "expired"
    /\ Stale(s, TRUE)

\* Round::Failed: the connection is given up with the request.
FailRound(s, ending) ==
    /\ wire' = NoWire /\ holder' = NoSample
    /\ sample' = Leave(s, ending, sample[s].shown)
    /\ UNCHANGED <<paused>>

AfterEnd_Resends(s) == Stale(s, FALSE)
AfterEnd(s) == IF sample[s].answering THEN FailRound(s, "temporary") ELSE Stale(s, FALSE)

ReadEnd(s) ==
    /\ Next1(s) /\ Head(wire.frames).kind = "end"
    /\ AfterEnd(s)

\* Cancelled, or text that does not parse, or a display that failed.
RoundFails(s) ==
    /\ InRound(s)
    /\ FailRound(s, "other")

\* SILENCE_LIMIT: the answer does not go on, and the connection with it.
Silence_WhenAnswering(s) ==
    /\ InRound(s) /\ wire.frames = <<>> /\ sample[s].answering
    /\ FailRound(s, "temporary")
Silence(s) ==
    /\ InRound(s) /\ wire.frames = <<>>
    /\ FailRound(s, "temporary")

-----------------------------------------------------------------------------
(* HTTP, and complete's retries. *)

Http(s) ==
    /\ sample[s].at = "http"
    /\ \E ending \in Ending :
          sample' = Leave(s, ending,
                          sample[s].shown \cup {[of |-> s, number |-> sample[s].sent + 1]})
    /\ UNCHANGED <<holder, wire, paused>>

\* The wait is over: the partial text was recorded, and the next attempt starts anew.
Retry_Forgets(s) ==
    /\ sample[s].at = "backoff"
    /\ sample' = [sample EXCEPT ![s] = NewSample]
    /\ UNCHANGED <<holder, wire, paused>>
Retry(s) ==
    /\ sample[s].at = "backoff"
    /\ sample' = [sample EXCEPT ![s] = [NewSample EXCEPT !.empty = sample[s].empty]]
    /\ UNCHANGED <<holder, wire, paused>>

\* Cancelled, or the failure can be neither recorded nor shown.
CancelWait(s) ==
    /\ sample[s].at = "backoff"
    /\ sample' = [sample EXCEPT ![s] = [@ EXCEPT !.at = "failed", !.empty = 0]]
    /\ UNCHANGED <<holder, wire, paused>>

-----------------------------------------------------------------------------
(* The provider. *)

Sends(kind, sending, connection) ==
    wire' = [connection EXCEPT !.frames = Append(@, [kind |-> kind, of |-> sending])]

Open == wire # NoWire /\ ~Ended
Serving == Open /\ wire.serving # NoSending

ProviderText ==
    /\ Serving /\ Len(wire.frames) < MaxUnread
    /\ Sends("text", wire.serving, wire)
    /\ UNCHANGED <<holder, paused, sample>>

ProviderAnswers ==
    /\ Serving
    /\ Sends("terminal", wire.serving, [wire EXCEPT !.serving = NoSending, !.trailing = wire.serving])
    /\ UNCHANGED <<holder, paused, sample>>

ProviderTiming ==
    /\ Open /\ wire.trailing # NoSending
    /\ Sends("timing", wire.trailing, [wire EXCEPT !.trailing = NoSending])
    /\ UNCHANGED <<holder, paused, sample>>

ProviderExpires ==
    /\ Serving
    /\ Sends("expired", wire.serving, [wire EXCEPT !.serving = NoSending])
    /\ UNCHANGED <<holder, paused, sample>>

ProviderCloses ==
    /\ Open
    /\ Sends("end", NoSending, [wire EXCEPT !.serving = NoSending, !.trailing = NoSending])
    /\ UNCHANGED <<holder, paused, sample>>

-----------------------------------------------------------------------------
SampleStep(s) ==
    \/ BeginExchange(s) \/ ReadyReuses(s) \/ ReadyOpens(s) \/ GivesWay(s)
    \/ ReadTiming(s) \/ ReadText(s) \/ ReadTerminal(s) \/ ReadExpired(s) \/ ReadEnd(s)
    \/ Silence(s) \/ Http(s) \/ Retry(s)

SocketNext ==
    \/ \E s \in Sample : SampleStep(s)
    \/ \E s \in Sample : OpenFails(s) \/ RoundFails(s) \/ CancelWait(s)
    \/ ProviderText \/ ProviderAnswers \/ ProviderTiming \/ ProviderExpires \/ ProviderCloses
    \/ PauseEnds

\* A sample's thread runs on: it polls every 10 ms, and a silent provider makes it
\* fail after SILENCE_LIMIT.
SocketFairness == \A s \in Sample : WF_socketVars(SampleStep(s))

SocketSpec == SocketInit /\ [][SocketNext]_socketVars /\ SocketFairness

-----------------------------------------------------------------------------
(* Properties. *)

\* What one attempt of a sample shows answers this sample, and one of its
\* messages only: no event of an earlier request is left on the connection, and
\* a request whose answer had begun is not sent again behind the reader's back.
\* The exception is a refusal of the connection's age in the middle of an answer.
OneAnswer ==
    \A s \in Sample :
       /\ \A sending \in sample[s].shown : sending.of = s
       /\ sample[s].expired \/ Cardinality(sample[s].shown) <= 1

\* An attempt of s fails for a reason that may pass: one that is not the backend's
\* empty answer, which the agent counts.
TemporaryFails(s) ==
    /\ sample[s].at # "backoff" /\ sample'[s].at = "backoff"
    /\ sample'[s].empty = sample[s].empty

\* Every sample completes or fails, whatever the provider and the other samples
\* do, unless it meets temporary failures for ever, which are retried without a
\* limit, or its answers' text never ends, as only silence is timed.  So no
\* resending, fallback or empty answer keeps it from its end, and each attempt
\* whose answer does end is over.
SampleEnds ==
    \A s \in Sample :
       \/ <>(sample[s].at \in {"complete", "failed"})
       \/ []<><<TemporaryFails(s)>>_socketVars
       \/ []<><<ReadText(s)>>_socketVars
=============================================================================
