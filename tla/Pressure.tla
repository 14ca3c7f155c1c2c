-------------------------------- MODULE Pressure --------------------------------
(***************************************************************************)
(* The estimate of a volume's free space (src/checkpoints/pressure.rs),    *)
(* which calls in several archives on the volume share: a call claims the  *)
(* bytes it is about to write, and is refused when they do not fit.  An    *)
(* old estimate is refreshed by a thread while claims go on; one that is   *)
(* too low is probed again by the claim that needs more.                   *)
(*                                                                         *)
(* The space itself is external: a probe reads any amount.  The minimum    *)
(* that stays free is 0 here.                                              *)
(***************************************************************************)
EXTENDS Integers

CONSTANTS
    Claimant,     \* threads that claim, again and again
    Archive,      \* paths on the volume
    ArchiveOf,    \* the archive of each of them
    MaxFree       \* bound on what a probe reads, and on what is claimed

ASSUME PressureAssumption ==
    /\ ArchiveOf \in [Claimant -> Archive]
    /\ MaxFree \in Nat \ {0}

VARIABLES
    sample,   \* Pressure.sample
    prober,   \* the thread of the first probe, or of a refresh
    claim     \* the thread of each claim

pressureVars == <<sample, prober, claim>>

\* room is what is left of the amount read when every claim since is deducted.
Sample ==
    [tag : {"pending"}]
      \cup [tag : {"failed"}, path : Archive, old : BOOLEAN]
      \cup [tag : {"ready"}, free : 0..MaxFree, old : BOOLEAN, low_probe : BOOLEAN,
            refreshing : BOOLEAN, spent : 0..MaxFree, room : Int]

PressureTypeOK ==
    /\ sample \in Sample
    /\ prober \in [at : {"none"}] \cup [at : {"first"}] \cup [at : {"probing"}, path : Archive]
                    \cup [at : {"read"}, path : Archive, free : 0..MaxFree, room : Int]
    /\ claim \in [Claimant -> [at : {"idle", "loop", "probing", "low"}, bytes : 0..MaxFree,
                               refreshed : BOOLEAN, prior : 0..MaxFree, room : Int]]

Pending == [tag |-> "pending"]
Failed(path) == [tag |-> "failed", path |-> path, old |-> FALSE]
Estimate(free, room, low) ==
    [tag |-> "ready", free |-> free, old |-> FALSE, low_probe |-> low, refreshing |-> FALSE,
     spent |-> 0, room |-> room]
Idle == [at |-> "idle", bytes |-> 0, refreshed |-> FALSE, prior |-> 0, room |-> 0]
None == [at |-> "none"]

\* start, with the thread of the first probe.
PressureInit ==
    /\ sample = Pending
    /\ prober = [at |-> "first"]
    /\ claim = [c \in Claimant |-> Idle]

\* What set_sample makes of a probe.
Probed(path) == {Estimate(free, free, FALSE) : free \in 0..MaxFree} \cup {Failed(path)}

FirstProbe ==
    /\ prober.at = "first" /\ prober' = None
    /\ sample' \in UNION {Probed(path) : path \in Archive}
    /\ claim' = claim

\* MAX_SAMPLE_AGE passes.
Ages ==
    /\ sample.tag # "pending" /\ ~sample.old
    /\ sample' = [sample EXCEPT !.old = TRUE]
    /\ UNCHANGED <<prober, claim>>

-----------------------------------------------------------------------------
(* claim. *)

Begin(c) ==
    /\ claim[c].at = "idle"
    /\ \E bytes \in 1..MaxFree : claim' = [claim EXCEPT ![c] = [Idle EXCEPT !.at = "loop", !.bytes = bytes]]
    /\ UNCHANGED <<sample, prober>>

Return(c) == claim' = [claim EXCEPT ![c] = Idle]

Cancelled(c) ==
    /\ claim[c].at = "loop"
    /\ Return(c)
    /\ UNCHANGED <<sample, prober>>

\* A recent failure in the same archive is the answer.
StillFailed(c) ==
    /\ claim[c].at = "loop" /\ sample.tag = "failed"
    /\ sample.path = ArchiveOf[c] /\ ~sample.old
    /\ Return(c)
    /\ UNCHANGED <<sample, prober>>

ProbeAgain(c) ==
    /\ claim[c].at = "loop" /\ sample.tag = "failed"
    /\ sample.path # ArchiveOf[c] \/ sample.old
    /\ sample' = Pending
    /\ claim' = [claim EXCEPT ![c].at = "probing"]
    /\ UNCHANGED prober

\* The estimate as the loop finds it: a claim that has just probed marks it.
Found(c) == [sample EXCEPT !.low_probe = @ \/ claim[c].refreshed]
Looping(c) == claim[c].at = "loop" /\ sample.tag = "ready"
IsOld == sample.old /\ ~sample.refreshing

\* refresh_in_background; the thread may not start.
Refresh(c) ==
    /\ Looping(c) /\ IsOld
    /\ \/ /\ sample' = [Found(c) EXCEPT !.refreshing = TRUE, !.spent = 0]
          /\ prober' = [at |-> "probing", path |-> ArchiveOf[c]]
       \/ sample' = Failed(ArchiveOf[c]) /\ prober' = prober
    /\ claim' = claim

\* The claim fits: it counts against the estimate, a refresh that runs and
\* what that has read already.
Spent(estimate, bytes) ==
    [estimate EXCEPT !.free = @ - bytes, !.room = @ - bytes,
                     !.spent = IF estimate.refreshing THEN @ + bytes ELSE @]

Admit(c) ==
    LET bytes == claim[c].bytes IN
    /\ Looping(c) /\ ~IsOld /\ sample.free >= bytes
    /\ sample' = Spent(Found(c), bytes)
    /\ prober' = IF prober.at = "read" THEN [prober EXCEPT !.room = @ - bytes] ELSE prober
    /\ Return(c)

Short(c) == Looping(c) /\ ~IsOld /\ sample.free < claim[c].bytes /\ ~sample.refreshing

Refuse(c) ==
    /\ Short(c) /\ Found(c).low_probe
    /\ sample' = Found(c)
    /\ Return(c)
    /\ UNCHANGED prober

ProbeLow(c) ==
    /\ Short(c) /\ ~Found(c).low_probe
    /\ sample' = Pending
    /\ claim' = [claim EXCEPT ![c].at = "low", ![c].prior = sample.free, ![c].room = sample.room]
    /\ UNCHANGED prober

Retries(c) ==
    claim' = [claim EXCEPT ![c] = [Idle EXCEPT !.at = "loop", !.bytes = claim[c].bytes, !.refreshed = TRUE]]

ProbeDone(c) ==
    /\ claim[c].at \in {"probing", "low"}
    /\ sample' \in Probed(ArchiveOf[c])
    /\ Retries(c)
    /\ UNCHANGED prober

\* A cancelled probe gives back what the estimate was, or leaves a failure.
GivesBack_Nothing(c) == Pending
GivesBack(c) ==
    IF claim[c].at = "low" THEN Estimate(claim[c].prior, claim[c].room, FALSE)
    ELSE Failed(ArchiveOf[c])

ProbeCancelled(c) ==
    /\ claim[c].at \in {"probing", "low"}
    /\ sample' = GivesBack(c)
    /\ Return(c)
    /\ UNCHANGED prober

-----------------------------------------------------------------------------
(* The refreshing thread. *)

ReadSpace ==
    /\ prober.at = "probing"
    /\ \E free \in 0..MaxFree :
          prober' = [at |-> "read", path |-> prober.path, free |-> free, room |-> free]
    /\ UNCHANGED <<sample, claim>>

\* Whatever was claimed since the refresh began is deducted.
AlreadySpent_Never == 0
AlreadySpent == IF sample.tag = "ready" THEN sample.spent ELSE 0

Refreshed ==
    Estimate(IF prober.free >= AlreadySpent THEN prober.free - AlreadySpent ELSE 0,
             prober.room, TRUE)

SetRefreshed ==
    /\ prober.at = "read" /\ prober' = None
    /\ sample' = Refreshed
    /\ claim' = claim

RefreshFails ==
    /\ prober.at = "probing" /\ prober' = None
    /\ sample' = Failed(prober.path)
    /\ claim' = claim

-----------------------------------------------------------------------------
ClaimStep(c) ==
    \/ StillFailed(c) \/ ProbeAgain(c) \/ Refresh(c) \/ Admit(c) \/ Refuse(c) \/ ProbeLow(c)
    \/ ProbeDone(c)

PressureNext ==
    \/ FirstProbe \/ Ages \/ ReadSpace \/ SetRefreshed \/ RefreshFails
    \/ \E c \in Claimant : Begin(c) \/ ClaimStep(c) \/ Cancelled(c) \/ ProbeCancelled(c)

PressureSpec == PressureInit /\ [][PressureNext]_pressureVars

-----------------------------------------------------------------------------
(* Properties. *)

\* What the estimate still offers is never more than what was read less
\* everything admitted since, also what was admitted between a refresh's
\* reading and its answer.
ClaimsCount == sample.tag = "ready" => sample.free = 0 \/ sample.free <= sample.room

\* Nobody waits for an answer that does not come: while the estimate is pending
\* or being refreshed, exactly one thread is at work on it, and it knows of it.
SomebodyProbes ==
    LET probing == {c \in Claimant : claim[c].at \in {"probing", "low"}} IN
    /\ sample.tag = "pending" <=> prober.at = "first" \/ probing # {}
    /\ \A c, d \in probing : c = d
    /\ prober.at \in {"probing", "read"} <=> (sample.tag = "ready" /\ sample.refreshing)

\* The estimate neither promises twice what is free nor stops being renewed.
EstimateIsSound == ClaimsCount /\ SomebodyProbes
=============================================================================
