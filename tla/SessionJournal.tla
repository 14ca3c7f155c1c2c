---------------------------- MODULE SessionJournal ----------------------------
(***************************************************************************)
(* A session's append-only journal (src/sessions/journal.rs), written by   *)
(* the process that holds the session's lease.                             *)
(*                                                                         *)
(* A checkpoint appends one record: the history the journal lacks, and the *)
(* state.  Messages and events are treated alike there and are one history *)
(* here; the state is stored as a difference (JournalState).               *)
(* Lengths in bytes are numbers of whole records, and one torn record.     *)
(*                                                                         *)
(* Left out: links, read-only files, formats, and writers without a lease. *)
(***************************************************************************)
EXTENDS JournalState

CONSTANTS
    Item,          \* messages and events
    State,         \* states of a document: model, input, pending turn ...
    NoDocument, NoPosition, NoRecord,
    MaxHistory,    \* bound on a conversation's length
    MaxRecords     \* bound on the journal's length

ASSUME BoundsAssumption == MaxHistory \in Nat /\ MaxRecords \in Nat

\* The states the program saves.  An object never loses a key without being
\* replaced, which a difference could not say: its type fixes its keys
\* (sessions/document.rs:146), and every backend that counts has an account.
ASSUME StateAssumption ==
    State \subseteq DocumentState /\ \A s, t \in State : KeepsKeys(s, t)

History == UNION {[1..n -> Item] : n \in 0..MaxHistory}
Document == [history : History, state : State]
Change == {StateDelta(s, t) : s \in State \cup {NoState}, t \in State}
Record == [from : 0..MaxHistory, items : History, state : Change]
Position == [sequence : 0..MaxRecords, history : 0..MaxHistory, state : State \cup {NoState}]

\* What stands for no document is told from every document.
ASSUME NoDocumentAssumption == NoDocument \notin Document

VARIABLES
    file,      \* the complete records of the journal
    torn,      \* an incomplete record follows them
    synced,    \* the records that are on the disk for certain
    copied,    \* the last torn record found was copied to a .damaged file
    position,  \* Lease.journal: what this process wrote or read
    live,      \* the document in memory
    keep,      \* length the history returns to when the save fails
    saving,    \* the record being written
    snapshot,  \* the document it completes
    step,      \* where the save, or the process, stands
    acked,     \* the last document whose save succeeded
    unsure     \* a rollback has failed since the session was opened

vars == <<file, torn, synced, copied, position, live, keep, saving, snapshot, step, acked, unsure>>
disk == <<file, torn, synced, copied>>

Step == {"idle", "copied", "write", "sync", "rollback", "down"}

TypeOK ==
    /\ file \in Seq(Record) /\ Len(file) <= MaxRecords
    /\ {torn, copied, unsure} \subseteq BOOLEAN
    /\ synced \in 0..Len(file)
    /\ position \in Position \cup {NoPosition}
    /\ live \in Document \cup {NoDocument}
    /\ keep \in 0..MaxHistory
    /\ saving \in Record \cup {NoRecord}
    /\ snapshot \in Document \cup {NoDocument}
    /\ acked \in Document \cup {NoDocument}
    /\ step \in Step

-----------------------------------------------------------------------------
(* Reading: read. *)

HistoryOf(doc) == IF doc = NoDocument THEN <<>> ELSE doc.history
StateOf(doc) == IF doc = NoDocument THEN NoState ELSE doc.state

\* The documents that records make, each continuing what precedes it.
Documents(records) ==
    LET document[i \in 0..Len(records)] ==
            IF i = 0 THEN NoDocument
            ELSE LET before == document[i - 1]
                 IN  [history |-> HistoryOf(before) \o records[i].items,
                      state |-> StateMerge(StateOf(before), records[i].state)]
    IN  document

Replay(records) == Documents(records)[Len(records)]

\* read refuses a journal whose records do not continue each other.
Continues(records) ==
    \A i \in DOMAIN records : records[i].from = Len(HistoryOf(Documents(records)[i - 1]))

\* The position of a reader at the journal's end.
PositionAt(records) ==
    LET document == Replay(records)
    IN  [sequence |-> Len(records), history |-> Len(HistoryOf(document)),
         state |-> StateOf(document)]

-----------------------------------------------------------------------------
Init ==
    /\ file = <<>> /\ torn = FALSE /\ synced = 0 /\ copied = FALSE
    /\ position = NoPosition
    /\ live \in [history : {<<>>}, state : State] /\ keep = 0
    /\ saving = NoRecord /\ snapshot = NoDocument
    /\ step = "idle" /\ acked = NoDocument /\ unsure = FALSE

(* The conversation: what Handle does to the document around its saves. *)

\* History grows, or the state changes.  A save of a kind that is withdrawn
\* when it fails (Begin, Accept ...) returns the history to what it was.
Edit ==
    /\ step = "idle"
    /\ \E items \in {<<>>} \cup {<<i>> : i \in Item}, state \in State :
          /\ Len(live.history) + Len(items) <= MaxHistory
          /\ live' = [history |-> live.history \o items, state |-> state]
    /\ keep' \in {Len(live.history), Len(live'.history)}
    /\ UNCHANGED <<disk, position, saving, snapshot, step, acked, unsure>>

-----------------------------------------------------------------------------
(* Saving: append. *)

Copy_CutsFirst ==
    /\ step = "idle" /\ position = NoPosition /\ torn
    /\ torn' = FALSE /\ step' = "copied"
    /\ UNCHANGED <<file, synced, copied, position, live, keep, saving, snapshot, acked, unsure>>

\* The first save of a process reads the journal it continues, and copies a
\* torn record aside before it cuts it off.
Copy ==
    /\ step = "idle" /\ position = NoPosition /\ torn
    /\ copied' = TRUE /\ step' = "copied"
    /\ UNCHANGED <<file, torn, synced, position, live, keep, saving, snapshot, acked, unsure>>

Cut ==
    /\ step = "copied" /\ Continues(file)
    /\ torn' = FALSE /\ synced' = Len(file)
    /\ position' = PositionAt(file) /\ step' = "idle"
    /\ UNCHANGED <<file, copied, live, keep, saving, snapshot, acked, unsure>>

\* Either may fail, and the next save starts over.
RepairFails ==
    /\ step = "copied"
    /\ step' = "idle"
    /\ UNCHANGED <<disk, position, live, keep, saving, snapshot, acked, unsure>>

ReadEnd ==
    /\ step = "idle" /\ position = NoPosition /\ ~torn /\ Continues(file)
    /\ position' = PositionAt(file)
    /\ UNCHANGED <<disk, live, keep, saving, snapshot, step, acked, unsure>>

\* History cannot be removed from the journal, and the file is as this
\* process left it.
Refused ==
    \/ Len(live.history) < position.history
    \/ Len(file) # position.sequence \/ torn

\* The save has failed: the error goes up, and Handle withdraws what the save
\* was to prepare.
Failed ==
    /\ live' = [live EXCEPT !.history = SubSeq(@, 1, keep)]
    /\ saving' = NoRecord /\ snapshot' = NoDocument
    /\ step' = "idle"

\* The append is refused before anything is written.
Refuse ==
    /\ step = "idle" /\ position # NoPosition /\ Refused
    /\ Failed
    /\ UNCHANGED <<disk, position, keep, acked, unsure>>

NewRecord ==
    [from |-> position.history,
     items |-> SubSeq(live.history, position.history + 1, Len(live.history)),
     state |-> StateDelta(position.state, live.state)]

BeginAppend ==
    /\ step = "idle" /\ position # NoPosition /\ ~Refused
    /\ Len(file) < MaxRecords
    /\ saving' = NewRecord /\ snapshot' = live
    /\ step' = "write"
    /\ UNCHANGED <<disk, position, live, keep, acked, unsure>>

Write ==
    /\ step = "write"
    /\ file' = Append(file, saving) /\ step' = "sync"
    /\ UNCHANGED <<torn, synced, copied, position, live, keep, saving, snapshot, acked, unsure>>

Advanced_WithoutHistory ==
    [sequence |-> position.sequence + 1, history |-> position.history, state |-> snapshot.state]
Advanced ==
    [sequence |-> position.sequence + 1, history |-> Len(snapshot.history), state |-> snapshot.state]

Sync ==
    /\ step = "sync"
    /\ synced' = Len(file)
    /\ position' = Advanced
    /\ acked' = snapshot
    /\ saving' = NoRecord /\ snapshot' = NoDocument
    /\ keep' = Len(live.history) /\ step' = "idle"
    /\ UNCHANGED <<file, torn, copied, live, unsure>>

\* The disk refuses part of the record, or its sync.
WriteFails ==
    /\ step \in {"write", "sync"}
    /\ torn' \in (IF step = "write" THEN BOOLEAN ELSE {FALSE})
    /\ step' = "rollback"
    /\ UNCHANGED <<file, synced, copied, position, live, keep, saving, snapshot, acked, unsure>>

\* set_len to the acknowledged length, and sync.
Kept_OneLess == SubSeq(file, 1, position.sequence - 1)
Kept == SubSeq(file, 1, position.sequence)

RollBack ==
    /\ step = "rollback"
    /\ file' = Kept /\ torn' = FALSE /\ synced' = Len(file')
    /\ Failed
    /\ UNCHANGED <<copied, position, keep, acked, unsure>>

RollBackFails ==
    /\ step = "rollback"
    /\ position' = NoPosition
    /\ copied' = FALSE
    /\ Failed
    /\ unsure' = TRUE
    /\ UNCHANGED <<file, torn, synced, keep, acked>>

-----------------------------------------------------------------------------
(* Crashes, and the next process. *)

\* Whatever was not synced may be whole, torn or lost.
Crash ==
    /\ step # "down"
    /\ \/ /\ file' = file
          /\ torn' \in CASE step = "write" -> BOOLEAN
                        [] step = "copied" -> {TRUE, FALSE}
                        [] OTHER -> {torn}
       \/ /\ file' = SubSeq(file, 1, synced) /\ synced < Len(file)
          /\ torn' \in BOOLEAN
       \/ /\ step = "rollback" /\ ~torn
          /\ file' = SubSeq(file, 1, position.sequence) /\ torn' = FALSE
    /\ synced' = Len(file')
    /\ copied' = (copied /\ torn')
    /\ position' = NoPosition /\ live' = NoDocument /\ keep' = 0
    /\ saving' = NoRecord /\ snapshot' = NoDocument /\ step' = "down"
    /\ UNCHANGED <<acked, unsure>>

\* Handle::open: the document is what the journal replays to; the torn record
\* stays until the first save.
Open ==
    /\ step = "down" /\ file # <<>> /\ Continues(file)
    /\ live' = Replay(file) /\ keep' = Len(live'.history)
    /\ acked' = Replay(file) /\ unsure' = FALSE
    /\ step' = "idle"
    /\ UNCHANGED <<disk, position, saving, snapshot>>

Next ==
    \/ Edit
    \/ Copy \/ Cut \/ RepairFails \/ ReadEnd
    \/ Refuse \/ BeginAppend \/ Write \/ Sync \/ WriteFails \/ RollBack \/ RollBackFails
    \/ Crash \/ Open

Spec == Init /\ [][Next]_vars

-----------------------------------------------------------------------------
(* Properties. *)

\* An acknowledged save is on the disk: from then on the journal replays to the
\* document that was saved, not to one that mixes in a save that had failed.
SavedIsReplayed == [][step = "sync" /\ step' = "idle" => Replay(file') = snapshot]_vars

\* No save, repair or rollback rewrites or removes a record that was synced,
\* whether this process acknowledged it or found it.
SyncedStay ==
    [][Len(file') >= synced /\ SubSeq(file', 1, synced) = SubSeq(file, 1, synced)]_vars

\* Bytes of an interrupted save are cut off the journal only by the process
\* that failed to write them, or once a copy is safe beside it.
TailPreserved ==
    [][torn /\ ~torn' /\ step # "rollback" /\ step' # "down" => copied]_vars

\* The journal loses nothing: neither records nor the bytes of a torn one.
NothingIsCut == SyncedStay /\ TailPreserved

\* The journal implements the storage of SessionLog: a document being saved
\* is found whole after its save is acknowledged, never after it is refused,
\* and whole or not at all after a crash.
Log == INSTANCE SessionLog WITH
    saved <- IF unsure THEN NoDocument
             ELSE IF step \in {"write", "sync", "rollback"} THEN acked ELSE Replay(file),
    coming <- snapshot,
    open <- step # "down",
    sure <- ~unsure

Stores == Log!Spec
=============================================================================
