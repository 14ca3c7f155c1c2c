---------------------------- MODULE SessionHandle ----------------------------
(***************************************************************************)
(* A session in memory and who writes it: the user's prompts on their way  *)
(* from the composer, through the inbox, into the conversation             *)
(* (src/inbox.rs, tui/drafts.rs, tui/commands.rs, tui/poll.rs,             *)
(* tui/recovery.rs, agent/input.rs, agent/persistence.rs,                  *)
(* agent/retraction.rs), and the session's Handle, which several threads   *)
(* save through (sessions/handle.rs and handle/).                          *)
(*                                                                         *)
(* The interface, the worker, the autosave thread, the title request and a *)
(* thread with a receipt interleave.  Locks are taken in one order, inbox, *)
(* io, archive, live, and a save holds io between its steps; the others    *)
(* are held within a step, but where InboxLocked and ArchiveLocked say     *)
(* otherwise.  What a save does to the file is SessionJournal.             *)
(*                                                                         *)
(* Left out: pending calls (ToolTurn), partial text, selections and        *)
(* compaction, deletion, edited recalls, local commands in the inbox and   *)
(* collaborators' inboxes, which hold more than one prompt.                *)
(***************************************************************************)
EXTENDS Naturals, SequencesExt

CONSTANTS
    Prompt,      \* what the user may write
    MaxMessages, \* bound on the conversation's length
    MaxFaults    \* bound on failing saves

ASSUME BoundsAssumption == MaxMessages \in Nat /\ MaxFaults \in Nat

\* A message is the prompts it joins; a model's has none.
Message == SUBSET Prompt
NoPrompts == {}

HistoryEvent == [kind : {"start", "receipt", "title", "returned"}, after : 0..MaxMessages]

\* What the interface captures: composer and paused draft, and the queue.
Input == [draft : SUBSET Prompt, queued : SUBSET Prompt]
NoInput == [draft |-> Prompt, queued |-> Prompt]

Document ==
    [messages : Seq(Message), events : Seq(HistoryEvent), input : Input,
     returned : SUBSET (1..MaxMessages)] \* messages that went back to the composer

Writer == {"ui", "worker", "autosave", "namer", "receipt"}
Nobody == "nobody"

VARIABLES
    written,             \* prompts the user has written
    composer, paused,    \* the interface's drafts
    queued, recorded,    \* the inbox's entry, and whether it was captured
    unshown,             \* accepted prompts the interface has not shown
    sending, submission, \* the prompts being sent, and those of the turn
    from,                \* length of the conversation before the turn
    ui, worker, background, namer, receipt, \* where each thread is
    failed,              \* the turn has failed
    messages, events, returned,             \* the conversation's archive
    live, dirty, last,   \* the document, whether it needs a save, last_ui_input
    save,                \* the save that holds io
    result,              \* of the last save of the interface and the worker
    disk,                \* what the journal replays to
    faults,
    crossed              \* a title was saved with a prompt, or its start, not yet accepted

inputs == <<written, composer, paused, queued, recorded, unshown, sending, submission, from>>
threads == <<ui, worker, background, namer, receipt, failed>>
archive == <<messages, events, returned>>
handle == <<live, dirty, last, save, result, disk>>
handleVars == <<inputs, threads, archive, handle, faults, crossed>>

Empty == [messages |-> <<>>, events |-> <<>>,
          input |-> [draft |-> {}, queued |-> {}], returned |-> {}]

\* Revisions are only compared: edited tells of a change since the save began,
\* stale of one since the document was copied.
NoSave == [by |-> Nobody, stage |-> "Preserve", step |-> "copy", copy |-> Empty,
           before |-> Empty, edited |-> FALSE, stale |-> FALSE, displaced |-> 0]

HandleTypeOK ==
    /\ {written, composer, paused, queued, unshown, sending, submission} \subseteq SUBSET Prompt
    /\ from \in 0..MaxMessages
    /\ ui \in {"loop", "capture", "starting", "begin", "beginning", "withdrawing",
               "returned", "returning"}
    /\ worker \in {"idle", "asking", "accepting", "sampling", "answering", "ending", "done"}
    /\ background \in {"idle", "saving"}
    /\ namer \in {"none", "asked", "saving", "done"}
    /\ receipt \in {"none", "saving", "done"}
    /\ {recorded, failed, dirty, crossed} \subseteq BOOLEAN
    /\ messages \in Seq(Message) /\ events \in Seq(HistoryEvent)
    /\ returned \subseteq 1..MaxMessages
    /\ {live, disk} \subseteq Document
    /\ last \in Input \cup {NoInput}
    /\ save.by \in Writer \cup {Nobody} /\ save.step \in {"copy", "write"}
    /\ result \in [{"ui", "worker"} -> {"none", "ok", "error"}]
    /\ faults \in 0..MaxFaults

HandleInit ==
    /\ written = {} /\ composer = {} /\ paused = {}
    /\ queued = {} /\ recorded = FALSE /\ unshown = {}
    /\ sending = {} /\ submission = {} /\ from = 0
    /\ ui = "loop" /\ worker = "idle" /\ background = "idle"
    /\ namer = "none" /\ receipt = "none" /\ failed = FALSE
    /\ messages = <<>> /\ events = <<>> /\ returned = {}
    /\ live = Empty /\ dirty = FALSE /\ last = NoInput
    /\ save = NoSave /\ result = [w \in {"ui", "worker"} |-> "none"]
    /\ disk = Empty
    /\ faults = 0 /\ crossed = FALSE

\* accept holds the inbox through its save, append_event the archive.
InboxLocked == worker = "accepting"
ArchiveLocked == save.by = "receipt"

Prefix(doc) == [doc EXCEPT !.messages = SubSeq(@, 1, Len(save.before.messages)),
                           !.events = SubSeq(@, 1, Len(save.before.events))]

-----------------------------------------------------------------------------
(* Saves. *)

\* The live document has changed under a save that may be on its way.
Changed == [save EXCEPT !.edited = (save # NoSave), !.stale = (save.step = "write")]

SavingWith(by, stage, displaced) ==
    [NoSave EXCEPT !.by = by, !.stage = stage, !.before = live, !.displaced = displaced]

Shrunk == Len(messages) < Len(live.messages) \/ Len(events) < Len(live.events)

\* The document with the archive's tail and the agent's context.
Synced == [live EXCEPT !.messages = @ \o SubSeq(messages, Len(@) + 1, Len(messages)),
                       !.events = @ \o SubSeq(events, Len(@) + 1, Len(events)),
                       !.returned = returned]

\* checkpoint, up to its save.  What it accepts leaves the queue with it.
Checkpoint(by, stage) ==
    /\ save = NoSave /\ result[by] = "none"
    /\ IF Shrunk
       THEN result' = [result EXCEPT ![by] = "error"] /\ UNCHANGED <<live, dirty, last, save>>
       ELSE /\ live' = IF stage = "Accept" THEN [Synced EXCEPT !.input.queued = {}] ELSE Synced
            /\ last' = IF stage = "Accept" THEN NoInput ELSE last
            /\ dirty' = TRUE
            /\ save' = SavingWith(by, stage, 0)
            /\ UNCHANGED result
    /\ UNCHANGED disk

\* validate_from, as far as other threads reach it.
Valid(doc) == \A i \in DOMAIN doc.events : doc.events[i].after <= Len(doc.messages)

\* save_locked_io: the copy, under the live lock.
Copy ==
    /\ save # NoSave /\ save.step = "copy" /\ dirty /\ Valid(live)
    /\ save' = [save EXCEPT !.step = "write", !.copy = live]
    /\ UNCHANGED <<inputs, threads, archive, live, dirty, last, result, disk, faults, crossed>>

\* Where the writer goes on: the interface and the worker when they see the
\* result, the others at once.
Returns(outcome) ==
    /\ result' = IF save.by \in {"ui", "worker"}
                 THEN [result EXCEPT ![save.by] = outcome] ELSE result
    /\ background' = IF save.by = "autosave" THEN "idle" ELSE background
    /\ namer' = IF save.by = "namer" THEN "done" ELSE namer
    /\ receipt' = IF save.by = "receipt" THEN (IF outcome = "ok" THEN "done" ELSE "none") ELSE receipt
    /\ save' = NoSave
    /\ UNCHANGED <<ui, worker, failed>>

\* The journal takes the history it lacks, and the whole state.
Appended(doc) ==
    [doc EXCEPT !.messages = disk.messages \o SubSeq(@, Len(disk.messages) + 1, Len(@)),
                !.events = disk.events \o SubSeq(@, Len(disk.events) + 1, Len(@))]

Fits(doc) == Len(doc.messages) >= Len(disk.messages) /\ Len(doc.events) >= Len(disk.events)

StillDirty_Never == FALSE
StillDirty == save.stale

WriteDocument ==
    /\ save.step = "write" /\ Fits(save.copy)
    /\ disk' = Appended(save.copy)
    /\ dirty' = StillDirty
    /\ Returns("ok")
    /\ UNCHANGED <<inputs, archive, live, last, faults, crossed>>

\* A failed save stays dirty.  What only prepared a turn is withdrawn, with its
\* input unless the interface has captured another one since.
RolledBack ==
    IF save.edited THEN Prefix(live) ELSE [Prefix(live) EXCEPT !.input = save.before.input]

WithoutReceipt ==
    LET at == Len(save.before.events) + 1
        without == RemoveAt(events, at)
    IN  IF save.displaced = 0 THEN without
        ELSE InsertAt(without, save.displaced, events[at])

SaveFails ==
    /\ save # NoSave
    /\ IF \/ save.step = "copy" /\ dirty /\ ~Valid(live)
          \/ save.step = "write" /\ ~Fits(save.copy)
       THEN UNCHANGED faults
       ELSE save.step = "write" /\ faults < MaxFaults /\ faults' = faults + 1
    /\ CASE save.stage \in {"Begin", "Accept"} ->
               /\ live' = RolledBack /\ last' = NoInput /\ UNCHANGED events
         [] save.by = "receipt" ->
               /\ live' = [live EXCEPT !.events = Front(@)]
               /\ events' = WithoutReceipt /\ UNCHANGED last
         [] OTHER -> UNCHANGED <<live, last, events>>
    /\ Returns("error")
    /\ UNCHANGED <<inputs, messages, returned, dirty, disk, crossed>>

-----------------------------------------------------------------------------
(* The interface. *)

\* capture_input: draft and queue at once; what is queued may now be accepted.
CapturedInto(draft, queue) ==
    LET input == [draft |-> draft, queued |-> queue]
    IN  /\ last' = input
        /\ IF last = input \/ live.input = input
           THEN UNCHANGED <<live, dirty, save>>
           ELSE /\ live' = [live EXCEPT !.input = input]
                /\ dirty' = TRUE /\ save' = Changed
        /\ recorded' = TRUE
        /\ UNCHANGED disk
Captures(draft, queue) == CapturedInto(draft, queue) /\ UNCHANGED result

\* Keys, and the capture that follows them.
Type(p) ==
    /\ ui = "loop" /\ p \notin written /\ ~InboxLocked
    /\ written' = written \cup {p} /\ composer' = composer \cup {p}
    /\ Captures(composer' \cup paused, queued)
    /\ UNCHANGED <<paused, queued, unshown, sending, submission, from, threads, archive,
                   faults, crossed>>

CaptureInput ==
    /\ ui = "capture" /\ ~InboxLocked
    /\ Captures(composer \cup paused, queued)
    /\ ui' = "loop"
    /\ UNCHANGED <<written, composer, paused, queued, unshown, sending, submission, from,
                   worker, background, namer, receipt, failed, archive, faults, crossed>>

\* A prompt sent while the agent works waits for it; only one may wait.
Queue ==
    /\ ui = "loop" /\ worker # "idle" /\ ~InboxLocked
    /\ composer # {} /\ queued = {} /\ paused = {}
    /\ queued' = composer /\ recorded' = FALSE /\ composer' = {}
    /\ ui' = "capture"
    /\ UNCHANGED <<written, paused, unshown, sending, submission, from,
                   worker, background, namer, receipt, failed, archive, handle, faults, crossed>>

\* It can be taken back until it is accepted.
TakeBack ==
    /\ ui = "loop" /\ composer = {} /\ ~InboxLocked
    /\ \/ paused # {} /\ composer' = paused /\ paused' = {} /\ UNCHANGED queued
       \/ paused = {} /\ queued # {} /\ composer' = queued /\ queued' = {} /\ UNCHANGED paused
    /\ ui' = "capture"
    /\ UNCHANGED <<written, recorded, unshown, sending, submission, from,
                   worker, background, namer, receipt, failed, archive, handle, faults, crossed>>

Start == [kind |-> "start", after |-> from]

\* dispatch, while idle, of the composer or of the prompt that waited; and
\* prepare_turn, which notes the turn's start, then adds its prompt, each under
\* a lock of its own.
Send ==
    /\ ui = "loop" /\ worker = "idle" /\ ~ArchiveLocked /\ Len(messages) < MaxMessages
    /\ \/ composer # {} /\ sending' = composer /\ composer' = {} /\ UNCHANGED queued
       \/ queued # {} /\ sending' = queued /\ queued' = {} /\ UNCHANGED composer
    /\ Captures(composer' \cup paused, queued')
    /\ from' = Len(messages)
    /\ events' = Append(events, Start')
    /\ ui' = "starting"
    /\ UNCHANGED <<written, paused, unshown, submission, worker, background, namer, receipt,
                   failed, messages, returned, faults, crossed>>

PushPrompt ==
    /\ ui = "starting" /\ ~ArchiveLocked
    /\ messages' = Append(messages, sending)
    /\ ui' = "begin"
    /\ UNCHANGED <<inputs, worker, background, namer, receipt, failed, events, returned,
                   handle, faults, crossed>>

BeginCheckpoint ==
    /\ ui = "begin" /\ Checkpoint("ui", "Begin")
    /\ ui' = "beginning"
    /\ UNCHANGED <<inputs, worker, background, namer, receipt, failed, archive, faults, crossed>>

TakesResult(by, outcome) ==
    result[by] = outcome /\ result' = [result EXCEPT ![by] = "none"]

\* The first prompt also asks for a title.
Begun ==
    /\ ui = "beginning" /\ TakesResult("ui", "ok")
    /\ submission' = sending /\ sending' = {}
    /\ namer' = IF namer = "none" THEN "asked" ELSE namer
    /\ worker' = "asking" /\ failed' = FALSE
    /\ CapturedInto(composer \cup paused, queued)
    /\ ui' = "loop"
    /\ UNCHANGED <<written, composer, paused, queued, unshown, from,
                   background, receipt, archive, faults, crossed>>

WithoutStart ==
    IF \E i \in DOMAIN events : events[i] = Start
    THEN RemoveAt(events, CHOOSE i \in DOMAIN events :
                              events[i] = Start /\ \A j \in DOMAIN events : events[j] = Start => j <= i)
    ELSE events

\* The prompt is withdrawn, and then the turn's start.
NotBegun ==
    /\ ui = "beginning" /\ ~ArchiveLocked /\ TakesResult("ui", "error")
    /\ messages' = SubSeq(messages, 1, from)
    /\ ui' = "withdrawing"
    /\ UNCHANGED <<inputs, worker, background, namer, receipt, failed, events, returned,
                   live, dirty, last, save, disk, faults, crossed>>

\* The prompt goes back to the composer; newer text is paused.
Withdraw ==
    /\ ui = "withdrawing" /\ ~ArchiveLocked
    /\ events' = WithoutStart
    /\ paused' = paused \cup queued \cup composer /\ queued' = {}
    /\ composer' = sending /\ sending' = {}
    /\ Captures(composer' \cup paused', {})
    /\ ui' = "loop"
    /\ UNCHANGED <<written, unshown, submission, from, worker, background, namer, receipt,
                   failed, messages, returned, faults, crossed>>

Show ==
    /\ ui = "loop" /\ unshown # {} /\ ~InboxLocked
    /\ submission' = submission \cup unshown /\ unshown' = {}
    /\ Captures(composer \cup paused, queued)
    /\ UNCHANGED <<written, composer, paused, queued, sending, from, threads, archive,
                   faults, crossed>>

\* No response and no tool: the turn's messages are all the user's.
Unanswered == \A i \in (from + 1)..Len(messages) : messages[i] # NoPrompts

Finished ==
    /\ ui = "loop" /\ worker = "done" /\ ~failed
    /\ worker' = "idle" /\ submission' = {} /\ unshown' = {}
    /\ UNCHANGED <<written, composer, paused, queued, recorded, sending, from,
                   ui, background, namer, receipt, failed, archive, handle, faults, crossed>>

\* After a failure, or a stop, the waiting prompt is paused; an empty composer takes it.
\* Partial text counts as a response, too.
Paused ==
    /\ ui = "loop" /\ worker = "done"
    /\ worker' = "idle" /\ submission' = {} /\ unshown' = {}
    /\ queued' = {}
    /\ IF composer = {} THEN composer' = paused \cup queued /\ paused' = {}
       ELSE paused' = paused \cup queued /\ UNCHANGED composer
    /\ Captures(composer' \cup paused', {})
    /\ UNCHANGED <<written, sending, from, ui, background, namer, receipt, failed,
                   archive, faults, crossed>>

ReturnedPrompts_Shown == submission
ReturnedPrompts == submission \cup unshown

\* return_unanswered: the conversation keeps the messages but marks them, and
\* the composer has their prompts again.
Returned ==
    /\ ui = "loop" /\ worker = "done" /\ Unanswered /\ ~ArchiveLocked
    /\ worker' = "idle" /\ submission' = {} /\ unshown' = {}
    /\ composer' = ReturnedPrompts
    /\ paused' = paused \cup queued \cup composer /\ queued' = {}
    /\ returned' = returned \cup ((from + 1)..Len(messages))
    /\ events' = Append(events, [kind |-> "returned", after |-> Len(messages)])
    /\ Captures(composer' \cup paused', {})
    /\ ui' = "returned"
    /\ UNCHANGED <<written, sending, from, background, namer, receipt, failed, messages,
                   faults, crossed>>

ReturnCheckpoint ==
    /\ ui = "returned" /\ Checkpoint("ui", "Preserve")
    /\ ui' = "returning"
    /\ UNCHANGED <<inputs, worker, background, namer, receipt, failed, archive, faults, crossed>>

ReturnSaved ==
    /\ ui = "returning" /\ \E outcome \in {"ok", "error"} : TakesResult("ui", outcome)
    /\ ui' = "loop"
    /\ UNCHANGED <<inputs, worker, background, namer, receipt, failed, archive,
                   live, dirty, last, save, disk, faults, crossed>>

-----------------------------------------------------------------------------
(* The worker. *)

Deliverable_Unrecorded == queued
Deliverable == IF recorded THEN queued ELSE {}

\* accept_input: a prompt joins the conversation and leaves the queue at once.
Accept ==
    /\ worker = "asking" /\ Deliverable # {} /\ ~ArchiveLocked /\ Len(messages) < MaxMessages
    /\ messages' = Append(messages, Deliverable)
    /\ worker' = "accepting"
    /\ UNCHANGED <<inputs, ui, background, namer, receipt, failed, events, returned,
                   handle, faults, crossed>>

AcceptCheckpoint ==
    /\ worker = "accepting" /\ Checkpoint("worker", "Accept")
    /\ UNCHANGED <<inputs, threads, archive, faults, crossed>>

Accepted ==
    /\ worker = "accepting" /\ TakesResult("worker", "ok")
    /\ queued' = {} /\ unshown' = unshown \cup queued
    /\ worker' = "sampling"
    /\ UNCHANGED <<written, composer, paused, recorded, sending, submission, from,
                   ui, background, namer, receipt, failed, archive,
                   live, dirty, last, save, disk, faults, crossed>>

NotAccepted ==
    /\ worker = "accepting" /\ ~ArchiveLocked /\ TakesResult("worker", "error")
    /\ messages' = SubSeq(messages, 1, Len(messages) - 1)
    /\ worker' = "ending" /\ failed' = TRUE
    /\ UNCHANGED <<inputs, ui, background, namer, receipt, events, returned,
                   live, dirty, last, save, disk, faults, crossed>>

\* Nothing to accept: another request, or, after an answer, the turn's end.
Ask ==
    /\ worker = "asking" /\ Deliverable = {}
    /\ \/ worker' = "sampling"
       \/ Last(messages) = NoPrompts /\ worker' = "ending"
    /\ UNCHANGED <<inputs, ui, background, namer, receipt, failed, archive, handle, faults, crossed>>

\* A cancellation, or any other error.
Stop ==
    /\ worker \in {"asking", "sampling"}
    /\ worker' = "ending" /\ failed' = TRUE
    /\ UNCHANGED <<inputs, ui, background, namer, receipt, archive, handle, faults, crossed>>

Completion ==
    /\ worker = "sampling" /\ ~ArchiveLocked /\ Len(messages) < MaxMessages
    /\ messages' = Append(messages, NoPrompts)
    /\ worker' = "answering"
    /\ UNCHANGED <<inputs, ui, background, namer, receipt, failed, events, returned,
                   handle, faults, crossed>>

\* save_known_completions: the worker also knows that the process has ended.
Receipt(after) == [kind |-> "receipt", after |-> after]
Noted_Saved == {i \in DOMAIN live.events : live.events[i].kind = "receipt"}
Noted == {i \in DOMAIN events : events[i].kind = "receipt"}

KnowsCompletion ==
    /\ worker = "sampling" /\ ~ArchiveLocked /\ Noted = {}
    /\ events' = Append(events, Receipt(Len(messages)))
    /\ UNCHANGED <<inputs, threads, messages, returned, handle, faults, crossed>>

WorkerCheckpoint ==
    /\ worker \in {"answering", "ending"} /\ Checkpoint("worker", "Preserve")
    /\ UNCHANGED <<inputs, threads, archive, faults, crossed>>

Answered ==
    /\ worker = "answering"
    /\ \/ TakesResult("worker", "ok") /\ worker' = "asking" /\ UNCHANGED failed
       \/ TakesResult("worker", "error") /\ worker' = "ending" /\ failed' = TRUE
    /\ UNCHANGED <<inputs, ui, background, namer, receipt, archive,
                   live, dirty, last, save, disk, faults, crossed>>

Ended ==
    /\ worker = "ending"
    /\ \/ TakesResult("worker", "ok") /\ UNCHANGED failed
       \/ TakesResult("worker", "error") /\ failed' = TRUE
    /\ worker' = "done"
    /\ UNCHANGED <<inputs, ui, background, namer, receipt, archive,
                   live, dirty, last, save, disk, faults, crossed>>

-----------------------------------------------------------------------------
(* The other writers. *)

\* The interface asks for it when a change is due; a flush that finds nothing
\* to save does nothing.
Flush ==
    /\ background = "idle" /\ dirty /\ save = NoSave
    /\ save' = SavingWith("autosave", "Preserve", 0)
    /\ background' = "saving"
    /\ UNCHANGED <<inputs, ui, worker, namer, receipt, failed, archive,
                   live, dirty, last, result, disk, faults, crossed>>

\* append_event: after the history that was saved; one the worker has noted
\* but not saved is moved there.
After_Archive == Len(messages)
After == Len(live.messages)
Position_AtEnd == Len(events) + 1
Position == Len(live.events) + 1

AppendReceipt ==
    /\ receipt = "none" /\ save = NoSave /\ ~Shrunk
    /\ LET at == IF Noted = {} THEN 0 ELSE CHOOSE i \in Noted : TRUE
           event == Receipt(After)
       IN  IF at \in 1..Len(live.events)
           THEN receipt' = "done" /\ UNCHANGED <<events, live, dirty, save>>
           ELSE /\ events' = InsertAt(IF at = 0 THEN events ELSE RemoveAt(events, at),
                                      Position, event)
                /\ live' = [live EXCEPT !.events = Append(@, event)]
                /\ dirty' = TRUE
                /\ save' = SavingWith("receipt", "Preserve", at)
                /\ receipt' = "saving"
    /\ UNCHANGED <<inputs, ui, worker, background, namer, failed, messages, returned,
                   last, result, disk, faults, crossed>>

\* A history of which the saved one is a beginning is still this session's.
Linked == IsPrefix(live.messages, messages) /\ IsPrefix(live.events, events)

\* A prompt that may still be withdrawn, and the start of its turn.
Preparing == worker = "accepting" \/ ui \in {"begin", "beginning"}
NewPrompt == Preparing /\ Len(messages) > Len(live.messages)
NewStart ==
    /\ ui \in {"starting", "begin", "beginning", "withdrawing"}
    /\ \E i \in DOMAIN events : i > Len(live.events) /\ events[i] = Start

\* naming_result.
Title ==
    /\ namer = "asked" /\ save = NoSave
    /\ LET doc == IF Linked THEN [Synced EXCEPT !.returned = live.returned] ELSE live
           event == [kind |-> "title", after |-> Len(doc.messages)]
       IN  /\ live' = [doc EXCEPT !.events = Append(@, event)]
           /\ events' = IF Linked THEN Append(events, event) ELSE events
           /\ crossed' = (crossed \/ (Linked /\ (NewPrompt \/ NewStart)))
    /\ dirty' = TRUE
    /\ save' = SavingWith("namer", "Preserve", 0)
    /\ namer' = "saving"
    /\ UNCHANGED <<inputs, ui, worker, background, receipt, failed, messages, returned,
                   last, result, disk, faults>>

-----------------------------------------------------------------------------
Saving == Copy \/ WriteDocument \/ SaveFails

User == (\E p \in Prompt : Type(p)) \/ Queue \/ TakeBack \/ Send

Interface ==
    \/ CaptureInput \/ PushPrompt \/ BeginCheckpoint \/ Begun \/ NotBegun \/ Withdraw
    \/ Show \/ Finished \/ Paused \/ Returned \/ ReturnCheckpoint \/ ReturnSaved

Worker ==
    \/ Accept \/ AcceptCheckpoint \/ Accepted \/ NotAccepted \/ Ask \/ Stop \/ Completion
    \/ KnowsCompletion \/ WorkerCheckpoint \/ Answered \/ Ended

HandleNext == Saving \/ User \/ Interface \/ Worker \/ Flush \/ AppendReceipt \/ Title

HandleSpec == HandleInit /\ [][HandleNext]_handleVars

-----------------------------------------------------------------------------
(* Properties. *)

\* The saved history is a beginning of the conversation's, whatever receipts,
\* titles, failed preparations and saves interleave: otherwise every later
\* checkpoint is refused ("Session history cannot shrink").
Aligned == Linked
AlignedUnlessCrossed == crossed \/ Aligned

\* A document without pending changes is on the disk, byte for byte: no change
\* made during a save is forgotten, and the appended history is the one there.
CleanIsSaved == ~dirty => disk = live

\* What is saved is a beginning of what is shown, and all of it once it is clean.
SavedIsTrue == AlignedUnlessCrossed /\ CleanIsSaved

Conversation(doc, back) == UNION {doc.messages[i] : i \in DOMAIN doc.messages \ back}

\* Neither the saved session nor the live one holds a prompt both as input and
\* as a message, but for what the interface is just taking back.
NeverBoth ==
    crossed \/ \A doc \in {live, disk} :
        Conversation(doc, returned) \cap (doc.input.draft \cup doc.input.queued) = {}

\* What the user wrote is in a draft, in the queue, on its way, or in the
\* conversation: no failure, withdrawal or return drops it.
NothingLost ==
    written \subseteq composer \cup paused \cup queued \cup sending
                      \cup Conversation([messages |-> messages], returned)

\* One event for one process, though two threads note its end.
OneReceipt ==
    \A es \in {events, live.events, disk.events} :
        \A i, j \in DOMAIN es : es[i].kind = "receipt" /\ es[j].kind = "receipt" => i = j

\* No thread adds what validation refuses.
NeverInvalid == Valid(live)

\* What the user wrote is somewhere, in one place, and the session can be saved.
InputIsKept == NeverBoth /\ NothingLost /\ OneReceipt /\ NeverInvalid
=============================================================================
