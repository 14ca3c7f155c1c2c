------------------------------ MODULE Checkpoints ------------------------------
(***************************************************************************)
(* Leases on paths and the calls that take them (src/checkpoints): file    *)
(* tools, which save a file before they change it, and restores, which     *)
(* save what they are about to overwrite, install a snapshot path by path  *)
(* and report how to undo it.  Threads of several processes work in one    *)
(* workspace, and other programs write in it whenever they like.           *)
(*                                                                         *)
(* Every path has a stripe of its own, and no path lies in another.  Left  *)
(* out: the packs' format and expiry, links, and what selects the paths.   *)
(***************************************************************************)
EXTENDS Naturals, FiniteSets, FiniteSetsExt

CONSTANTS
    Path,             \* numbers: stripes are taken in this order
    File, NoState,    \* what a file may contain
    Process, NoProcess,
    Restorer, Editor, \* threads
    ProcessOf,        \* the process each of them runs in
    Live,             \* what the workspace may look like in the beginning
    Saved,            \* snapshots in the archive; each saved some path
    Foreign,          \* what other programs write
    MaxOutside        \* bound on how often they do

Thread == Restorer \cup Editor
\* A directory is private until its saved mode is set.
Directory == {"private", "open"}
State == File \cup {"absent"} \cup Directory
States == [Path -> State \cup {NoState}]
Nothing == [p \in Path |-> NoState]

ASSUME CheckpointsAssumption ==
    /\ Path \subseteq Nat /\ IsFiniteSet(Path)
    /\ NoState \notin State /\ NoProcess \notin Process
    /\ Restorer \cap Editor = {} /\ ProcessOf \in [Thread -> Process]
    /\ Live \subseteq [Path -> State] /\ Saved \subseteq States \ {Nothing}
    /\ Foreign \subseteq State
    /\ MaxOutside \in Nat

VARIABLES
    file,      \* the workspace
    held,      \* Leases.held, per process
    lock,      \* who holds the lock of each stripe's file
    call,      \* the thread of each call
    outside    \* writes of other programs so far

checkpointVars == <<file, held, lock, call, outside>>

CheckpointTypeOK ==
    /\ file \in [Path -> State]
    /\ held \in [Process -> SUBSET Path]
    /\ lock \in [Path -> Process \cup {NoProcess}]
    /\ call \in [Thread ->
         [at : {"new", "hold", "lock", "look", "capture", "next", "ready", "modes",
                "report", "drop", "dropping", "done"},
          then : {"done", "hold"}, want : SUBSET Path, lease : SUBSET Path, narrow : BOOLEAN,
          saved : States, expected : States, seen : States, undo : States,
          left : SUBSET Path, on : Path \cup {0}, modes : SUBSET Path,
          report : States, changed : SUBSET Path, disturbed : SUBSET Path]]
    /\ outside \in 0..MaxOutside

New == [at |-> "new", then |-> "done", want |-> {}, lease |-> {}, narrow |-> FALSE,
        saved |-> Nothing, expected |-> Nothing, seen |-> Nothing, undo |-> Nothing,
        left |-> {}, on |-> 0, modes |-> {},
        report |-> Nothing,
        changed |-> {},     \* what the call changed
        disturbed |-> {}]   \* what other programs wrote since the call last looked

CheckpointInit ==
    /\ file \in Live
    /\ held = [m \in Process |-> {}]
    /\ lock = [p \in Path |-> NoProcess]
    /\ call = [t \in Thread |-> New]
    /\ outside = 0

Selection(t) == {p \in Path : call[t].saved[p] # NoState}
On(paths, states) == [p \in Path |-> IF p \in paths THEN states[p] ELSE NoState]
IsDirectory(state) == state \in Directory

\* The call looks at these paths.
Looks(c, paths) == [c EXCEPT !.disturbed = @ \ paths]
Looked(t) == call[t].at \in {"capture", "next", "ready", "modes", "report"}

-----------------------------------------------------------------------------
(* Leases: stripes_cancellable, and Lease::drop. *)

NextStripe(t) == Min(call[t].want \ call[t].lease)

Hold(t) ==
    LET m == ProcessOf[t] IN
    /\ call[t].at = "hold" /\ NextStripe(t) \notin held[m]
    /\ held' = [held EXCEPT ![m] = @ \cup {NextStripe(t)}]
    /\ call' = [call EXCEPT ![t].at = "lock"]
    /\ UNCHANGED <<file, lock, outside>>

\* The lock belongs to the file's handle, which a process's threads share: it
\* keeps out other processes only.
Lock(t) ==
    LET lease == call[t].lease \cup {NextStripe(t)} IN
    /\ call[t].at = "lock" /\ lock[NextStripe(t)] \in {NoProcess, ProcessOf[t]}
    /\ lock' = [lock EXCEPT ![NextStripe(t)] = ProcessOf[t]]
    /\ call' = [call EXCEPT ![t] = [@ EXCEPT !.lease = lease,
                                             !.at = IF lease = call[t].want THEN "look" ELSE "hold"]]
    /\ UNCHANGED <<file, held, outside>>

\* The lease, if any, is dropped; then the call returns or takes another one.
Dropping(c, then) ==
    [New EXCEPT !.at = IF c.lease = {} THEN then ELSE "drop", !.then = then,
                !.want = IF then = "done" THEN {} ELSE c.want, !.lease = c.lease,
                !.saved = IF then = "done" THEN Nothing ELSE c.saved,
                !.expected = IF then = "done" THEN Nothing ELSE c.expected]

CancelHold(t) ==
    /\ call[t].at = "hold"
    /\ call' = [call EXCEPT ![t] = Dropping(@, "done")]
    /\ UNCHANGED <<file, held, lock, outside>>

CancelLock(t) ==
    /\ call[t].at = "lock"
    /\ held' = [held EXCEPT ![ProcessOf[t]] = @ \ {NextStripe(t)}]
    /\ call' = [call EXCEPT ![t] = Dropping(@, "done")]
    /\ UNCHANGED <<file, lock, outside>>

\* The file is unlocked before the process's other threads may have the stripe.
DropOrder_HeldFirst == <<"held", "lock">>
DropOrder == <<"lock", "held">>

Gives(t, what, stripe) ==
    IF what = "lock"
    THEN lock' = [lock EXCEPT ![stripe] = NoProcess] /\ held' = held
    ELSE held' = [held EXCEPT ![ProcessOf[t]] = @ \ {stripe}] /\ lock' = lock

Drop(t) ==
    /\ call[t].at = "drop"
    /\ Gives(t, DropOrder[1], Max(call[t].lease))
    /\ call' = [call EXCEPT ![t].at = "dropping"]
    /\ UNCHANGED <<file, outside>>

Dropped(t) ==
    /\ call[t].at = "dropping"
    /\ Gives(t, DropOrder[2], Max(call[t].lease))
    /\ call' = [call EXCEPT ![t] = Dropping([call[t] EXCEPT !.lease = @ \ {Max(@)}], call[t].then)]
    /\ UNCHANGED <<file, outside>>

-----------------------------------------------------------------------------
(* Writing. *)

Outside ==
    /\ outside < MaxOutside /\ outside' = outside + 1
    /\ \E p \in Path, state \in Foreign :
          /\ file[p] # state
          /\ file' = [file EXCEPT ![p] = state]
          /\ call' = [t \in Thread |-> IF Looked(t) THEN [call[t] EXCEPT !.disturbed = @ \cup {p}]
                                      ELSE call[t]]
    /\ UNCHANGED <<held, lock>>

\* The call changes what is at p, and remembers that it did.
Puts(t, p, state, c) ==
    /\ file' = [file EXCEPT ![p] = state]
    /\ call' = [call EXCEPT ![t] =
                  [c EXCEPT !.changed = IF file[p] # state THEN @ \cup {p} ELSE @]]
    /\ UNCHANGED <<held, lock, outside>>

-----------------------------------------------------------------------------
(* restore. *)

\* The snapshot is loaded, and expected is "latest" or what an inspection found
\* earlier.  The lease is narrow when nothing in sight is a directory.
Load(t) ==
    /\ call[t].at = "new"
    /\ \E snapshot \in Saved :
         LET names == {p \in Path : snapshot[p] # NoState}
             narrow == \A p \in names : ~IsDirectory(snapshot[p]) /\ ~IsDirectory(file[p])
         IN  \E expected \in {Nothing, On(names, file)} :
               call' = [call EXCEPT ![t] =
                          [New EXCEPT !.at = "hold", !.saved = snapshot, !.expected = expected,
                                      !.narrow = narrow, !.want = IF narrow THEN names ELSE Path]]
    /\ UNCHANGED <<file, held, lock, outside>>

Seen(t) == On(Selection(t), file)

\* A directory came into sight: all stripes are taken, from the beginning.
Upgrade_Keeping(t) ==
    call' = [call EXCEPT ![t] = [@ EXCEPT !.want = Path, !.narrow = FALSE, !.at = "hold"]]
Upgrade(t) ==
    call' = [call EXCEPT ![t] = Dropping([@ EXCEPT !.want = Path, !.narrow = FALSE], "hold")]

Inspect(t) ==
    LET seen == Seen(t)
        plan == {p \in Selection(t) : call[t].saved[p] # seen[p]}
    IN  /\ call[t].at = "look" /\ t \in Restorer
        /\ IF call[t].narrow /\ \E p \in Selection(t) : IsDirectory(seen[p])
           THEN Upgrade(t)
           ELSE IF call[t].expected \notin {Nothing, seen} \/ plan = {}
           THEN call' = [call EXCEPT ![t] = Dropping(@, "done")]
           ELSE call' = [call EXCEPT ![t] = [@ EXCEPT !.at = "capture", !.seen = seen, !.left = plan,
                                                      !.expected = seen]]
        /\ UNCHANGED <<file, held, lock, outside>>

\* Inspection is cancelled, a payload is damaged or the undo cannot be saved.
FailsEarly(t) ==
    /\ call[t].at \in {"look", "capture"} /\ t \in Restorer
    /\ call' = [call EXCEPT ![t] = Dropping(@, "done")]
    /\ UNCHANGED <<file, held, lock, outside>>

\* capture_exact: the undo is published; it must be what was inspected.
Undo(t) == On(call[t].left, file)

CaptureUndo(t) ==
    /\ call[t].at = "capture" /\ t \in Restorer
    /\ IF \A p \in call[t].left : Undo(t)[p] = call[t].seen[p]
       THEN call' = [call EXCEPT ![t] = Looks([@ EXCEPT !.at = "next", !.undo = Undo(t)], @.left)]
       ELSE call' = [call EXCEPT ![t] = Dropping(@, "done")]
    /\ UNCHANGED <<file, held, lock, outside>>

\* order: removals, new directories, files, and modes of directories that exist.
Rank(t, p) ==
    CASE call[t].saved[p] = "absent" -> 0
      [] IsDirectory(call[t].saved[p]) -> IF IsDirectory(call[t].seen[p]) THEN 3 ELSE 1
      [] OTHER -> 2
IsNext(t, p) ==
    /\ p \in call[t].left
    /\ \A q \in call[t].left \ {p} : Rank(t, p) < Rank(t, q) \/ (Rank(t, p) = Rank(t, q) /\ p < q)

\* What follows when the loop is over: modes are set only if all went well.
LoopOver(c) ==
    IF c.left # {} THEN [c EXCEPT !.at = "next", !.on = 0]
    ELSE [c EXCEPT !.at = "modes", !.on = 0]
Break(c) == [c EXCEPT !.at = "report", !.on = 0]

\* The payload is staged, and the path is compared with the undo for the last time.
Compare_Skipped(t, p) == TRUE
Compare(t, p) == file[p] = call[t].undo[p]

Ready(t) ==
    \E p \in Path :
       /\ call[t].at = "next" /\ t \in Restorer /\ IsNext(t, p)
       /\ call' = [call EXCEPT ![t] = IF Compare(t, p)
                                      THEN Looks([@ EXCEPT !.at = "ready", !.on = p], {p})
                                      ELSE Break(Looks(@, {p}))]
       /\ UNCHANGED <<file, held, lock, outside>>

\* Cancelled, or the payload cannot be staged, or the path cannot be observed.
NotReady(t) ==
    /\ call[t].at = "next" /\ t \in Restorer
    /\ call' = [call EXCEPT ![t] = Break(@)]
    /\ UNCHANGED <<file, held, lock, outside>>

\* mutated and installed: the path is reported with what is there now.
Reports(c, p, state) == [c EXCEPT !.report[p] = state]

\* A new directory waits for its mode; one that exists is not touched yet.  What
\* another program made a directory meanwhile is not replaced.
Installed_Saved(t, p) == call[t].saved[p]
Installed(t, p) == IF IsDirectory(call[t].saved[p]) THEN "private" ELSE call[t].saved[p]

Install(t) ==
    LET p == call[t].on
        rest == [call[t] EXCEPT !.left = @ \ {p}]
        deferred == [rest EXCEPT !.modes = @ \cup {p}]
    IN  /\ call[t].at = "ready" /\ t \in Restorer
        /\ IsDirectory(file[p]) => IsDirectory(call[t].seen[p])
        /\ IF ~IsDirectory(call[t].saved[p])
           THEN Puts(t, p, call[t].saved[p], LoopOver(Reports(rest, p, Installed(t, p))))
           ELSE IF ~IsDirectory(call[t].seen[p])
           THEN Puts(t, p, "private", LoopOver(Reports(deferred, p, Installed(t, p))))
           ELSE /\ call' = [call EXCEPT ![t] = LoopOver(deferred)]
                /\ UNCHANGED <<file, held, lock, outside>>

\* What a failed installation leaves: what was there, or nothing when that had
\* to be removed first, or a directory whose mode could not be set.
Leavings(t) ==
    LET p == call[t].on IN
    {file[p]} \cup (IF IsDirectory(call[t].saved[p]) # IsDirectory(call[t].seen[p]) THEN {"absent"} ELSE {})
              \cup (IF IsDirectory(call[t].saved[p]) /\ ~IsDirectory(call[t].seen[p]) THEN {"open"} ELSE {})

\* It is looked at again: a change is reported.
AfterFailure_Forgets(t, c, p, state) == c
AfterFailure(t, c, p, state) == IF state # c.undo[p] THEN Reports(c, p, state) ELSE c

InstallFails(t) ==
    LET p == call[t].on IN
    /\ call[t].at = "ready" /\ t \in Restorer
    /\ \E state \in Leavings(t) :
          Puts(t, p, state, Break(AfterFailure(t, call[t], p, state)))

\* finalize_directory, if the directory is still one.
SetMode(t) ==
    \E p \in call[t].modes :
       LET c == [call[t] EXCEPT !.modes = @ \ {p}] IN
       /\ call[t].at = "modes"
       /\ IF IsDirectory(file[p])
          THEN Puts(t, p, c.saved[p], Reports(c, p, c.saved[p]))
          ELSE Puts(t, p, file[p], Break(AfterFailure(t, c, p, file[p])))

SetModeFails(t) ==
    \E p \in call[t].modes :
       /\ call[t].at = "modes"
       /\ Puts(t, p, file[p], Break(AfterFailure(t, call[t], p, file[p])))

\* The report is made, with the undo's paths and token, and the lease dropped.
Report(t) ==
    /\ call[t].at = "report" \/ (call[t].at = "modes" /\ call[t].modes = {})
    /\ call' = [call EXCEPT ![t] = Dropping(@, "done")]
    /\ UNCHANGED <<file, held, lock, outside>>

-----------------------------------------------------------------------------
(* The file tools: file_cancellable, capture, replace_protected. *)

BeginEdit(t) ==
    /\ call[t].at = "new" /\ t \in Editor
    /\ \E p \in Path : call' = [call EXCEPT ![t] = [New EXCEPT !.at = "hold", !.want = {p}, !.on = p]]
    /\ UNCHANGED <<file, held, lock, outside>>

\* edit reads the text; write takes whatever is there.
ReadText(t) ==
    LET p == call[t].on IN
    /\ call[t].at = "look" /\ t \in Editor
    /\ \/ /\ file[p] \in File
          /\ call' = [call EXCEPT ![t] = [@ EXCEPT !.at = "capture", !.seen = On({p}, file)]]
       \/ call' = [call EXCEPT ![t].at = "capture"]
       \/ call' = [call EXCEPT ![t] = Dropping(@, "done")]
    /\ UNCHANGED <<file, held, lock, outside>>

\* A capture that fails does not stop the call: its receipt says so.
Capture(t) ==
    LET p == call[t].on IN
    /\ call[t].at = "capture" /\ t \in Editor
    /\ \E undo \in {On({p}, file), Nothing} :
          call' = [call EXCEPT ![t] = Looks([@ EXCEPT !.at = "next", !.undo = undo], {p})]
    /\ UNCHANGED <<file, held, lock, outside>>

\* edit compares the text with what it read, not with what was saved: when another
\* program put the text back in between, the receipt holds what it had put there.
Unchanged_Trusted(t, p) == TRUE
Unchanged(t, p) == call[t].seen[p] \in {NoState, file[p]}

Recheck(t) ==
    LET p == call[t].on IN
    /\ call[t].at = "next" /\ t \in Editor
    /\ call' = [call EXCEPT ![t] = IF ~Unchanged(t, p) THEN Dropping(@, "done")
                                   ELSE Looks([@ EXCEPT !.at = "ready"],
                                              IF @.seen[p] # NoState /\ @.undo[p] \in {NoState, file[p]}
                                              THEN {p} ELSE {})]
    /\ UNCHANGED <<file, held, lock, outside>>

Write(t) ==
    LET p == call[t].on IN
    /\ call[t].at = "ready" /\ t \in Editor /\ ~IsDirectory(file[p])
    /\ \E state \in File \ {file[p]} : file' = [file EXCEPT ![p] = state]
    /\ call' = [call EXCEPT ![t] = Dropping(@, "done")]
    /\ UNCHANGED <<held, lock, outside>>

\* Cancelled, or the file cannot be replaced.
WriteFails(t) ==
    /\ call[t].at \in {"next", "ready"} /\ t \in Editor
    /\ call' = [call EXCEPT ![t] = Dropping(@, "done")]
    /\ UNCHANGED <<file, held, lock, outside>>

-----------------------------------------------------------------------------
LeaseStep(t) == Hold(t) \/ Lock(t) \/ Drop(t) \/ Dropped(t)
RestoreStep(t) ==
    \/ Inspect(t) \/ CaptureUndo(t) \/ Ready(t) \/ Install(t) \/ InstallFails(t) \/ SetMode(t)
    \/ Report(t)
EditStep(t) == ReadText(t) \/ Capture(t) \/ Recheck(t) \/ Write(t) \/ WriteFails(t)

CheckpointNext ==
    \/ Outside
    \/ \E t \in Thread : LeaseStep(t) \/ CancelHold(t) \/ CancelLock(t)
    \/ \E t \in Restorer : Load(t) \/ RestoreStep(t)
    \/ \E t \in Restorer : FailsEarly(t) \/ NotReady(t) \/ SetModeFails(t)
    \/ \E t \in Editor : BeginEdit(t) \/ EditStep(t)

CheckpointSpec == CheckpointInit /\ [][CheckpointNext]_checkpointVars

-----------------------------------------------------------------------------
(* Properties. *)

\* Unless another program wrote after the call's last look, what a restore
\* changes is what its undo holds and what the user agreed to overwrite, and
\* what a file tool changes is what its receipt saved and what it had read:
\* no other call writes in between, in this process or another.
Changes(t, p) == file'[p] # file[p] /\ call'[t] # call[t] /\ outside' = outside
OverwritesSaved ==
    [][\A t \in Thread, p \in Path :
         Changes(t, p) /\ p \notin call[t].disturbed \cup call[t].changed
            => /\ t \in Restorer => call[t].undo[p] = file[p]
               /\ {call[t].undo[p], call[t].seen[p], call[t].expected[p]} \subseteq {file[p], NoState}
      ]_checkpointVars

\* However far a restore came, it reports every path it changed and no other,
\* with the state before in its undo; and the token it reports is that of what
\* is there, so that the undo is accepted, unless somebody wrote since.
UndoFits ==
    \A t \in Restorer :
       call[t].at = "report" \/ (call[t].at = "modes" /\ call[t].modes = {}) =>
          \A p \in Path \ call[t].disturbed :
             /\ p \in call[t].changed <=> call[t].report[p] # NoState
             /\ p \in call[t].changed => /\ call[t].undo[p] # NoState
                                         /\ call[t].report[p] = file[p]

\* The stripes a thread keeps others of its process from, and for whom it waits.
Has(t) == call[t].lease \cup (IF call[t].at = "lock" THEN {NextStripe(t)} ELSE {})
WaitsFor(t, u) ==
    IF ProcessOf[t] = ProcessOf[u] THEN call[t].at = "hold" /\ NextStripe(t) \in Has(u)
    ELSE /\ call[t].at = "lock" /\ lock[NextStripe(t)] = ProcessOf[u]
         /\ NextStripe(t) \in call[u].lease

\* However leases overlap, and also when a restore's lease grows, there is never
\* a circle of threads, of one process or several, that wait for each other's
\* stripes: cancellation is not what keeps calls from waiting for ever.
NobodyWaitsInACircle ==
    \A circle \in (SUBSET Thread) \ {{}} : \E t \in circle : \A u \in circle : ~WaitsFor(t, u)
=============================================================================
