------------------------------ MODULE WorkerEvents ------------------------------
(***************************************************************************)
(* The event channel between a turn's worker thread and the interface loop *)
(* (src/tui/worker.rs), with the loop that reads it (App::poll and launch  *)
(* in src/tui).                                                            *)
(*                                                                         *)
(* The worker sends events into a bounded queue; response previews are     *)
(* snapshots, so only the latest one waits, behind the queue.  The loop    *)
(* polls, drains its other input, and sleeps until input, a wake or its    *)
(* timer.  One action is one critical section of the channel's lock.       *)
(*                                                                         *)
(* Left out: what events say, drawing, and other inputs.                   *)
(***************************************************************************)
EXTENDS Naturals, Sequences

CONSTANTS
    Capacity,   \* EVENT_CAPACITY, 16 in the code
    PollLimit,  \* events taken by one poll, 32 in the code
    MaxEvents   \* bound on the events one turn sends

ASSUME CapacityAssumption == Capacity \in Nat \ {0}
ASSUME PollLimitAssumption == PollLimit \in Nat /\ PollLimit > Capacity
ASSUME MaxEventsAssumption == MaxEvents \in Nat

\* preview: Streaming.  hint: Reasoning, Working.  settle: Message, Preparing,
\* Waiting, RequestDiscarded, Recovering.  fact: every other event.
Kind == {"preview", "hint", "settle", "fact"}
Event == [kind : Kind, n : Nat]
NoEvent == [kind |-> "hint", n |-> 0]

VARIABLES
    events,     \* EventQueue.events
    streaming,  \* EventQueue.streaming; NoEvent for None
    waker,      \* EventQueue.waker is set
    sender,     \* where the worker thread stands
    pending,    \* the event of its current send
    preview,    \* the preview that send took out of the queue
    wakes,      \* its send found the queue empty, and will wake the loop
    cancelled,  \* the turn's Cancellation was requested
    loop,       \* where the interface loop stands
    polled,     \* events taken by the current poll
    woken,      \* an Input::Wake is in the input channel
    sent,       \* every event whose send has begun, in order
    refused,    \* those whose send failed
    shown       \* the events the interface was given, in order

eventVars == <<events, streaming, waker, sender, pending, preview, wakes, cancelled,
          loop, polled, woken, sent, refused, shown>>

\* A send waits for space for the preview it flushes, then for its own event.
\* The sender's drop clears sender_alive, and only then wakes the loop.
Sending == {"flush", "push", "wake"}
Sender == Sending \cup {"idle", "dropped", "finished"}
Loop == {"starting", "poll", "inputs", "asleep", "quitting", "done"}

EventTypeOK ==
    /\ events \in Seq(Event) /\ Len(events) <= Capacity
    /\ streaming \in Event /\ pending \in Event /\ preview \in Event
    /\ {waker, wakes, cancelled, woken} \subseteq BOOLEAN
    /\ sender \in Sender
    /\ loop \in Loop
    /\ polled \in 0..PollLimit
    /\ sent \in Seq(Event)
    /\ refused \subseteq Nat
    /\ shown \in Seq(Event)

Empty == events = <<>> /\ streaming = NoEvent
Full == Len(events) = Capacity
SenderAlive == sender \notin {"dropped", "finished"}

\* Worker::start spawns the thread before run_worker installs the waker.
EventInit ==
    /\ events = <<>> /\ streaming = NoEvent /\ waker = FALSE
    /\ sender = "idle" /\ pending = NoEvent /\ preview = NoEvent /\ wakes = FALSE
    /\ cancelled = FALSE
    /\ loop = "starting" /\ polled = 0 /\ woken = FALSE
    /\ sent = <<>> /\ refused = {} /\ shown = <<>>

-----------------------------------------------------------------------------
(* The worker: EventSender. *)

\* After the queue was changed: the lock goes, then the loop is woken if this
\* send found the queue empty.
AfterSend(wake) == IF wake THEN "wake" ELSE "idle"

\* Activity is dropped when it would wait.
Dropped_AlsoSettling(e) == e.kind \in {"hint", "settle"} /\ (streaming # NoEvent \/ Full)
Dropped(e) == e.kind = "hint" /\ (streaming # NoEvent \/ Full)

\* A completed or abandoned response makes its waiting preview stale; anything
\* else that is queued comes after it.
Stale_KeepsPreview(e) == {}
Stale(e) == IF e.kind = "settle" THEN {streaming} ELSE {}

Flushed_Never(e) == FALSE
Flushed(e) == e.kind = "fact" /\ streaming # NoEvent

\* EventSender::send, up to its first wait or its end.
Send(kind) ==
    LET e == [kind |-> kind, n |-> Len(sent) + 1]
        wake == Empty /\ waker
    IN
    /\ sender = "idle" /\ Len(sent) < MaxEvents
    /\ sent' = Append(sent, e)
    /\ CASE kind = "preview" ->
              /\ streaming' = e
              /\ sender' = AfterSend(wake)
              /\ UNCHANGED <<pending, preview, wakes>>
         [] Dropped(e) ->
              /\ sender' = AfterSend(wake)
              /\ UNCHANGED <<streaming, pending, preview, wakes>>
         [] OTHER ->
              /\ pending' = e /\ wakes' = wake
              /\ IF Flushed(e)
                 THEN /\ sender' = "flush"
                      /\ preview' = streaming /\ streaming' = NoEvent
                 ELSE /\ sender' = "push"
                      /\ streaming' = IF streaming \in Stale(e) THEN NoEvent ELSE streaming
                      /\ UNCHANGED preview
    /\ UNCHANGED <<events, waker, cancelled, loop, polled, woken, refused, shown>>

\* The flushed preview goes behind the queue once there is space.
Flush ==
    /\ sender = "flush" /\ ~Full
    /\ events' = Append(events, preview)
    /\ preview' = NoEvent /\ sender' = "push"
    /\ UNCHANGED <<streaming, waker, pending, wakes, cancelled, loop, polled, woken, sent,
                   refused, shown>>

Push ==
    /\ sender = "push" /\ ~Full
    /\ events' = Append(events, pending)
    /\ pending' = NoEvent /\ sender' = AfterSend(wakes) /\ wakes' = FALSE
    /\ UNCHANGED <<streaming, waker, preview, cancelled, loop, polled, woken, sent, refused, shown>>

\* wait_for_space looks at the cancellation each 5 ms, only while it is full.
GivesUp == sender \in {"flush", "push"} /\ Full /\ cancelled

SendFails ==
    /\ GivesUp
    /\ refused' = refused \cup {pending.n}
    /\ pending' = NoEvent /\ preview' = NoEvent
    /\ sender' = AfterSend(wakes) /\ wakes' = FALSE
    /\ UNCHANGED <<events, streaming, waker, cancelled, loop, polled, woken, sent, shown>>

Wake ==
    /\ sender = "wake"
    /\ woken' = TRUE /\ sender' = "idle"
    /\ UNCHANGED <<events, streaming, waker, pending, preview, wakes, cancelled, loop, polled,
                   sent, refused, shown>>

\* The turn is over and its sender is dropped ...
Drop ==
    /\ sender = "idle"
    /\ sender' = "dropped"
    /\ UNCHANGED <<events, streaming, waker, pending, preview, wakes, cancelled, loop, polled,
                   woken, sent, refused, shown>>

\* ... which wakes the loop, and the thread ends.
Finish ==
    /\ sender = "dropped"
    /\ sender' = "finished"
    /\ woken' = (woken \/ waker)
    /\ UNCHANGED <<events, streaming, waker, pending, preview, wakes, cancelled, loop, polled,
                   sent, refused, shown>>

-----------------------------------------------------------------------------
(* The interface loop: EventReceiver. *)

\* run_worker installs the waker.  A prompt starts the turn from the loop's
\* input; a queued prompt starts it from poll, before the loop reads its input.
WakeWith ==
    /\ loop = "starting"
    /\ waker' = TRUE
    /\ woken' = (woken \/ ~Empty \/ ~SenderAlive)
    /\ loop' \in {"inputs", "asleep"}
    /\ UNCHANGED <<events, streaming, sender, pending, preview, wakes, cancelled, polled, sent,
                   refused, shown>>

\* EventReceiver::take: the queue first, then the waiting preview.
Take ==
    /\ loop = "poll" /\ polled < PollLimit /\ ~Empty
    /\ polled' = polled + 1
    /\ IF events # <<>>
       THEN /\ shown' = Append(shown, Head(events)) /\ events' = Tail(events)
            /\ UNCHANGED streaming
       ELSE /\ shown' = Append(shown, streaming) /\ streaming' = NoEvent
            /\ UNCHANGED events
    /\ UNCHANGED <<waker, sender, pending, preview, wakes, cancelled, loop, woken, sent, refused>>

\* Everything left when the worker has finished is taken before it is joined.
Remaining_Unread == <<>>
Just(e) == IF e = NoEvent THEN <<>> ELSE <<e>>
Remaining == events \o Just(streaming)

PollEnd ==
    /\ loop = "poll" /\ (Empty \/ polled = PollLimit)
    /\ polled' = 0
    /\ IF sender = "finished"
       THEN /\ shown' = shown \o Remaining
            /\ events' = <<>> /\ streaming' = NoEvent
            /\ loop' = "done"
       ELSE /\ loop' = "inputs"
            /\ UNCHANGED <<events, streaming, shown>>
    /\ UNCHANGED <<waker, sender, pending, preview, wakes, cancelled, woken, sent, refused>>

\* The loop takes the inputs it finds, wakes among them, before it sleeps.
Inputs ==
    /\ loop = "inputs"
    /\ woken' = FALSE /\ loop' = "asleep"
    /\ UNCHANGED <<events, streaming, waker, sender, pending, preview, wakes, cancelled, polled,
                   sent, refused, shown>>

\* Without a timer the loop would rely on its wakes.
Awake_OnlyWoken ==
    /\ loop = "asleep" /\ woken
    /\ loop' = "poll" /\ woken' = FALSE
    /\ UNCHANGED <<events, streaming, waker, sender, pending, preview, wakes, cancelled, polled,
                   sent, refused, shown>>

\* recv_timeout ends with a wake, with other input, or with its timer.
Awake ==
    /\ loop = "asleep"
    /\ loop' = "poll"
    /\ woken' \in {FALSE, woken}
    /\ UNCHANGED <<events, streaming, waker, sender, pending, preview, wakes, cancelled, polled,
                   sent, refused, shown>>

\* The user stops the turn; the loop goes on.
Cancel ==
    /\ loop \in {"inputs", "asleep"} /\ ~cancelled
    /\ cancelled' = TRUE
    /\ UNCHANGED <<events, streaming, waker, sender, pending, preview, wakes, loop, polled, woken,
                   sent, refused, shown>>

\* The interface goes away: Worker::drop cancels the turn and joins the thread
\* without reading another event.
Quit_WithoutCancel ==
    /\ loop \in {"inputs", "asleep"}
    /\ loop' = "quitting"
    /\ UNCHANGED <<events, streaming, waker, sender, pending, preview, wakes, cancelled, polled,
                   woken, sent, refused, shown>>

Quit ==
    /\ loop \in {"inputs", "asleep"}
    /\ loop' = "quitting" /\ cancelled' = TRUE
    /\ UNCHANGED <<events, streaming, waker, sender, pending, preview, wakes, polled, woken, sent,
                   refused, shown>>

WorkerJoined ==
    /\ loop = "quitting" /\ sender = "finished"
    /\ loop' = "done"
    /\ UNCHANGED <<events, streaming, waker, sender, pending, preview, wakes, cancelled, polled,
                   woken, sent, refused, shown>>

-----------------------------------------------------------------------------
SenderStep == Flush \/ Push \/ SendFails \/ Wake \/ Finish
LoopStep == WakeWith \/ Take \/ PollEnd \/ Inputs \/ Awake \/ WorkerJoined

EventNext ==
    \/ \E kind \in Kind : Send(kind)
    \/ SenderStep \/ Drop
    \/ LoopStep \/ Cancel \/ Quit

EventSpec == EventInit /\ [][EventNext]_eventVars

\* Both threads are scheduled, every sleep has a timer of at most 30 ms, and a
\* turn ends.
EventFairness == WF_eventVars(SenderStep) /\ WF_eventVars(LoopStep) /\ WF_eventVars(Drop)
EventFairSpec == EventSpec /\ EventFairness

-----------------------------------------------------------------------------
(* Properties. *)

Numbers(s) == {s[i].n : i \in DOMAIN s}
Reliable(e) == e.kind \in {"settle", "fact"}

\* Events are shown in the order in which they were sent: a preview that waits
\* behind the queue never overtakes, and is never overtaken by, a later event.
ShownInOrder ==
    LET seen == shown \o Remaining \o Just(preview) \o Just(pending)
    IN  \A i, j \in DOMAIN seen : i < j => seen[i].n < seen[j].n

\* A reliable event that was sent is on its way, shown, or was refused because
\* the turn is being cancelled: a full queue, a flush or the loop's poll limit
\* never drops one.
NoReliableLost ==
    \A i \in DOMAIN sent :
        Reliable(sent[i]) =>
            \/ i \in Numbers(shown) \cup Numbers(events)
            \/ pending.n = i
            \/ i \in refused /\ cancelled

\* What the user reads of a response when a tool call interrupts it is its
\* latest preview, not an earlier one.
LastPreviewShown ==
    \A i \in DOMAIN shown : shown[i].kind = "fact" =>
        \A p \in 1..(shown[i].n - 1) :
            /\ sent[p].kind = "preview"
            /\ \A q \in (p + 1)..(shown[i].n - 1) : sent[q].kind = "hint"
            => p \in Numbers(shown)

\* What is collected is whole: the loop takes all the turn said before it joins
\* the thread, so an uncancelled turn leaves no reliable event and no preview.
CollectedWhole ==
    loop = "done" /\ ~cancelled =>
        /\ Empty
        /\ \A i \in DOMAIN sent : Reliable(sent[i]) => i \in Numbers(shown)

\* What the interface shows of a turn is what the worker sent, in its order and
\* without gaps that matter.
EventsShown == ShownInOrder /\ NoReliableLost /\ LastPreviewShown /\ CollectedWhole

\* An event in the queue is shown, unless the interface goes away.
QueuedIsShown ==
    \A n \in 1..MaxEvents :
        n \in Numbers(events) ~> \/ n \in Numbers(shown)
                                 \/ loop = "quitting"
                                 \/ loop = "done" /\ n \in Numbers(events)

\* A turn is collected: its thread is joined, by the poll or by the shutdown.
TurnCollected == <>(loop = "done")

\* Nothing that was sent waits for ever, and no thread is left behind.
EventsArrive == QueuedIsShown /\ TurnCollected
=============================================================================
