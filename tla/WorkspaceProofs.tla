---------------------------- MODULE WorkspaceProofs ----------------------------
(***************************************************************************)
(* Proofs about the files of a workspace: Checkpoints, for any paths,      *)
(* threads, processes, snapshots and any number of writes by other         *)
(* programs, and Pressure, for any number of claimants, archives and any   *)
(* amount of free space.                                                   *)
(*                                                                         *)
(* Checkpoints: one inductive invariant, CheckpointInv.  Three of its      *)
(* parts are about leases: stripes are taken in ascending order (Ordered), *)
(* no two threads of a process have the same one (HeldSound), and no two   *)
(* processes have its lock (LockSound).  They show that nobody waits in a  *)
(* circle, and that a path in the lease of a call at work is in no other   *)
(* such lease (LeasesApart), so that what a call knows of its paths can be *)
(* disturbed by other programs only.  The last part, Agrees, is what it    *)
(* knows.                                                                  *)
(*                                                                         *)
(* Pressure: a refresh reads the volume while the lock is not held, so     *)
(* what it read is old when it is published.  The argument is that the     *)
(* estimate, less what was admitted since the refresh began, is never more *)
(* than what was free: Covered says it of a slot and of the thread that    *)
(* refreshes it, LowSound of a claim that is refused.                      *)
(***************************************************************************)
EXTENDS Checkpoints, Pressure, NaturalsInduction, FiniteSetTheorems, WellFoundedInduction, TLAPS

\* The type of a call.
CallState ==
    [at : {"new", "hold", "lock", "look", "capture", "next", "ready", "modes",
           "report", "drop", "dropping", "done"},
     then : {"done", "hold"}, want : SUBSET Path, lease : SUBSET Path, narrow : BOOLEAN,
     saved : States, expected : States, seen : States, undo : States,
     left : SUBSET Path, on : Path \cup {0}, modes : SUBSET Path,
     report : States, changed : SUBSET Path, disturbed : SUBSET Path]

LEMMA CheckpointTypes ==
    CheckpointTypeOK <=> /\ file \in [Path -> State]
                         /\ held \in [Process -> SUBSET Path]
                         /\ lock \in [Path -> Process \cup {NoProcess}]
                         /\ call \in [Thread -> CallState]
                         /\ outside \in 0..MaxOutside
BY DEF CheckpointTypeOK, CallState

-----------------------------------------------------------------------------
(* Stripes are numbers, finitely many. *)

LEMMA LeastStripe ==
    ASSUME NEW S \in SUBSET Path, S # {}
    PROVE  Min(S) \in S /\ \A q \in S : Min(S) <= q
<1>1. S \subseteq Nat
  BY CheckpointsAssumption
<1>2. PICK m \in S : \A n \in S : ~(<<n, m>> \in OpToRel(<, Nat))
  BY <1>1, NatLessThanWellFounded, WFMin
<1>3. ASSUME NEW n \in S PROVE m <= n
  <2>1. m \in Nat /\ n \in Nat
    BY <1>1
  <2>2. ~(n < m)
    BY <1>2, <2>1 DEF OpToRel
  <2> QED  BY <2>1, <2>2
<1> QED  BY <1>3 DEF Min

\* How many stripes lie above one.
Above(p) == {q \in Path : q > p}
LEMMA AboveShrinks ==
    ASSUME NEW p \in Path, NEW q \in Path, p < q
    PROVE  /\ Cardinality(Above(p)) \in Nat /\ Cardinality(Above(q)) \in Nat
           /\ Cardinality(Above(q)) < Cardinality(Above(p))
<1>1. Path \subseteq Nat /\ IsFiniteSet(Path)
  BY CheckpointsAssumption
<1>2. IsFiniteSet(Above(p)) /\ IsFiniteSet(Above(q))
  BY <1>1, FS_Subset DEF Above
<1>3. Above(q) \subseteq Above(p) /\ q \in Above(p) /\ q \notin Above(q)
  <2>1. p \in Nat /\ q \in Nat /\ \A r \in Path : r \in Nat
    BY <1>1
  <2>2. \A r \in Path : r > q => r > p
    BY <2>1
  <2>3. q > p /\ ~(q > q)
    BY <2>1
  <2> QED  BY <2>2, <2>3 DEF Above
<1>4. Cardinality(Above(p)) \in Nat /\ Cardinality(Above(q)) \in Nat
  BY <1>2, FS_CardinalityType
<1>5. Cardinality(Above(q)) <= Cardinality(Above(p)) /\ Cardinality(Above(q)) # Cardinality(Above(p))
  BY <1>2, <1>3, FS_Subset
<1> QED  BY <1>4, <1>5

LEMMA GreatestStripe ==
    ASSUME NEW S \in SUBSET Path, S # {}
    PROVE  \E m \in S : \A q \in S : m >= q
<1> DEFINE Counts == {Cardinality(Above(p)) : p \in S}
<1>1. Path \subseteq Nat /\ IsFiniteSet(Path)
  BY CheckpointsAssumption
<1>2. \A p \in S : Cardinality(Above(p)) \in Nat
  BY <1>1, FS_Subset, FS_CardinalityType DEF Above
<1>3. Counts \subseteq Nat /\ Counts # {}
  BY <1>2
<1>4. PICK k \in Counts : \A n \in Counts : ~(<<n, k>> \in OpToRel(<, Nat))
  BY <1>3, NatLessThanWellFounded, WFMin
<1>5. PICK m \in S : k = Cardinality(Above(m))
  BY <1>4
<1>6. \A n \in Counts : ~(n < k)
  BY <1>3, <1>4 DEF OpToRel
<1>7. \A q \in S : ~(m < q)
  BY <1>5, <1>6, AboveShrinks
<1> QED  BY <1>1, <1>7

LEMMA MaxOfStripes ==
    ASSUME NEW S \in SUBSET Path, S # {}
    PROVE  Max(S) \in S /\ \A q \in S : Max(S) >= q
BY GreatestStripe DEF Max

-----------------------------------------------------------------------------
(* Leases. *)
Taking == {"hold", "lock"}
Whole == {"look", "capture", "next", "ready", "modes", "report"}
Leaving == {"drop", "dropping"}

\* Stripes are taken in ascending order.
LeaseOrdered(c) ==
    /\ c.at \in Taking => /\ c.lease \subseteq c.want /\ c.lease # c.want
                          /\ \A p \in c.lease, q \in c.want \ c.lease : p < q
    /\ c.at \in Whole => c.lease = c.want
    /\ c.at \in Leaving => c.lease # {}
    /\ c.at \in {"new", "done"} => c.lease = {}
Ordered == \A t \in Thread : LeaseOrdered(call[t])

LEMMA NextStripeLeast ==
    ASSUME NEW c \in CallState, LeaseOrdered(c), c.at \in Taking
    PROVE  /\ Min(c.want \ c.lease) \in c.want \ c.lease
           /\ \A q \in c.want \ c.lease : Min(c.want \ c.lease) <= q
           /\ \A p \in c.lease : p < Min(c.want \ c.lease)
<1>1. c.want \ c.lease \in SUBSET Path /\ c.want \ c.lease # {}
  BY DEF CallState, LeaseOrdered
<1> QED  BY <1>1, LeastStripe DEF LeaseOrdered

\* Whoever waits waits for somebody who has the stripe and waits, if at all, for a higher
\* one, or for the lock of the same one.
LEMMA WaitsUpward ==
    ASSUME CheckpointTypeOK, Ordered, NEW t \in Thread, NEW u \in Thread,
           WaitsFor(t, u), call[u].at \in Taking
    PROVE  /\ call[t].at \in Taking /\ NextStripe(t) \in Path /\ NextStripe(u) \in Path
           /\ \/ NextStripe(t) < NextStripe(u)
              \/ NextStripe(t) = NextStripe(u) /\ call[t].at = "hold" /\ call[u].at = "lock"
<1>1. call[t] \in CallState /\ call[u] \in CallState /\ LeaseOrdered(call[t]) /\ LeaseOrdered(call[u])
  BY CheckpointTypes DEF Ordered
<1>2. call[t].at \in Taking
  BY DEF WaitsFor, Taking
<1>3. NextStripe(t) \in Path /\ NextStripe(u) \in Path
  BY <1>1, <1>2, NextStripeLeast DEF NextStripe, CallState
<1>4. NextStripe(t) \in call[u].lease
      \/ (NextStripe(t) = NextStripe(u) /\ call[t].at = "hold" /\ call[u].at = "lock")
  BY DEF WaitsFor, Has
<1> QED  BY <1>1, <1>2, <1>3, <1>4, NextStripeLeast DEF NextStripe

LEMMA NoCircle == CheckpointTypeOK /\ Ordered => NobodyWaitsInACircle
<1> SUFFICES ASSUME CheckpointTypeOK, Ordered,
                    NEW circle \in (SUBSET Thread) \ {{}},
                    ~ \E t \in circle : \A u \in circle : ~WaitsFor(t, u)
             PROVE  FALSE
  BY DEF NobodyWaitsInACircle
<1>0. circle \in SUBSET Thread /\ circle # {} /\ \A t \in circle : \E u \in circle : WaitsFor(t, u)
  OBVIOUS
<1>1. \A t \in circle : call[t].at \in Taking
  BY <1>0 DEF WaitsFor, Taking
<1>2. \A t \in circle : NextStripe(t) \in Path
  BY <1>0, <1>1, CheckpointTypes, NextStripeLeast DEF NextStripe, CallState, Ordered
<1> DEFINE Stripes == {NextStripe(t) : t \in circle}
<1>3. PICK m \in Stripes : \A q \in Stripes : m >= q
  <2>1. Stripes \in SUBSET Path /\ Stripes # {}
    BY <1>0, <1>2
  <2> QED  BY <2>1, GreatestStripe
<1>4. PICK t \in circle : NextStripe(t) = m
  BY <1>3
<1>5. PICK u \in circle : WaitsFor(t, u)
  BY <1>0
<1>6. PICK v \in circle : WaitsFor(u, v)
  BY <1>0
<1>7. /\ m >= NextStripe(u) /\ m >= NextStripe(v)
  BY <1>3
<1>8. /\ m \in Nat /\ NextStripe(u) \in Nat /\ NextStripe(v) \in Nat
  BY <1>2, <1>4, CheckpointsAssumption
<1>9. NextStripe(u) = m /\ call[u].at = "lock"
  <2>1. \/ NextStripe(t) < NextStripe(u)
        \/ NextStripe(t) = NextStripe(u) /\ call[u].at = "lock"
    BY <1>0, <1>1, <1>5, WaitsUpward
  <2> QED  BY <2>1, <1>4, <1>7, <1>8
<1>10. NextStripe(u) < NextStripe(v)
  BY <1>0, <1>1, <1>6, <1>9, WaitsUpward
<1> QED  BY <1>7, <1>8, <1>9, <1>10

-----------------------------------------------------------------------------
(* What a call knows of the workspace, besides its lease. *)

Fresh(c) ==
    /\ c.undo = Nothing /\ c.seen = Nothing /\ c.report = Nothing
    /\ c.left = {} /\ c.modes = {} /\ c.changed = {} /\ c.disturbed = {}

Selected(c) == {p \in Path : c.saved[p] # NoState}

\* What is about to be overwritten is what was looked at, agreed to and saved.
Agreed(c, p) ==
    /\ c.undo[p] = c.seen[p] /\ c.expected[p] = c.seen[p]
    /\ c.seen[p] # NoState /\ c.seen[p] # c.saved[p]
Untouched(c, p) == p \notin c.changed /\ c.report[p] = NoState

\* A directory whose mode is still to be set: one that was there is as it was, a
\* new one is private.
Deferred(c, f, p) ==
    /\ IsDirectory(c.saved[p]) /\ Agreed(c, p)
    /\ IsDirectory(c.seen[p]) =>
          Untouched(c, p) /\ (p \notin c.disturbed => f[p] = c.undo[p])
    /\ ~IsDirectory(c.seen[p]) =>
          c.report[p] = "private" /\ (p \notin c.disturbed => p \in c.changed /\ f[p] = "private")

Reported(c, f, p) ==
    p \notin c.disturbed => /\ p \in c.changed <=> c.report[p] # NoState
                            /\ p \in c.changed => c.undo[p] # NoState /\ c.report[p] = f[p]

Installing == {"next", "ready", "modes", "report"}

RestorerAgrees(c, f) ==
    /\ c.at \in Taking \cup Whole => Selected(c) \subseteq c.want
    /\ c.at \in Leaving /\ c.then = "hold" => c.want = Path
    /\ c.at \notin {"capture"} \cup Installing => Fresh(c)
    /\ c.at = "capture" => /\ c.left \subseteq Selected(c) /\ c.modes = {}
                           /\ c.changed = {} /\ c.report = Nothing
                           /\ \A p \in c.left : c.expected[p] = c.seen[p] /\ c.seen[p] # c.saved[p]
    /\ c.at \in Installing =>
          /\ c.left \subseteq Selected(c) /\ c.modes \subseteq Selected(c) /\ c.changed \subseteq Selected(c)
          /\ c.left \cap c.modes = {}
          /\ \A p \in Path : Reported(c, f, p)
    /\ c.at \in {"next", "ready"} => \A p \in c.left : Untouched(c, p) /\ Agreed(c, p)
    /\ c.at \in {"next", "ready", "modes"} => \A p \in c.modes : Deferred(c, f, p)
    /\ c.at = "ready" => c.on \in c.left /\ (c.on \notin c.disturbed => f[c.on] = c.undo[c.on])

Editing == {"capture", "next", "ready"}
EditorAgrees(c, f) ==
    /\ c.changed = {} /\ c.expected = Nothing
    /\ c.at \in Taking \cup Whole => c.on \in Path /\ c.want = {c.on}
    /\ c.at \notin {"modes", "report"} /\ (c.at \in Leaving => c.then = "done")
    /\ c.at \notin Editing => Fresh(c)
    /\ c.at = "capture" /\ c.on \notin c.disturbed => c.seen[c.on] \in {NoState, f[c.on]}
    /\ c.at \in {"next", "ready"} /\ c.on \notin c.disturbed => c.undo[c.on] \in {NoState, f[c.on]}
    /\ c.at = "ready" /\ c.on \notin c.disturbed => c.seen[c.on] \in {NoState, f[c.on]}

Agrees(t, c, f) == IF t \in Restorer THEN RestorerAgrees(c, f) ELSE EditorAgrees(c, f)

\* The stripes a call keeps others of its process from, and the locks it keeps others from.
HasOf(c) == c.lease \cup (IF c.at = "lock" THEN {Min(c.want \ c.lease)} ELSE {})
LocksOf(c) == IF c.at = "dropping" THEN c.lease \ {Max(c.lease)} ELSE c.lease

HeldSound ==
    /\ \A t \in Thread : HasOf(call[t]) \subseteq held[ProcessOf[t]]
    /\ \A t, u \in Thread : t # u /\ ProcessOf[t] = ProcessOf[u] => HasOf(call[t]) \cap HasOf(call[u]) = {}
LockSound == \A t \in Thread : \A p \in LocksOf(call[t]) : lock[p] = ProcessOf[t]

CheckpointInv ==
    /\ CheckpointTypeOK
    /\ Ordered
    /\ HeldSound /\ LockSound
    /\ \A t \in Thread : Agrees(t, call[t], file)

-----------------------------------------------------------------------------
(* Records. *)

LEMMA NothingTyped ==
    /\ Nothing \in States /\ \A p \in Path : Nothing[p] = NoState
    /\ States = [Path -> State \cup {NoState}] /\ NoState \notin State
BY CheckpointsAssumption DEF Nothing, States

LEMMA NewTyped ==
    /\ New \in CallState /\ New.at = "new" /\ New.lease = {} /\ New.want = {} /\ New.then = "done"
    /\ Fresh(New) /\ New.saved = Nothing /\ New.expected = Nothing
BY NothingTyped DEF New, CallState, Fresh

LEMMA DroppingFields ==
    ASSUME NEW c \in CallState, NEW then \in {"done", "hold"}
    PROVE  LET d == Dropping(c, then)
           IN  /\ d \in CallState /\ d.at = (IF c.lease = {} THEN then ELSE "drop") /\ d.then = then
               /\ d.lease = c.lease /\ Fresh(d)
               /\ then = "done" => d.want = {} /\ d.saved = Nothing /\ d.expected = Nothing
               /\ then = "hold" => d.want = c.want /\ d.saved = c.saved /\ d.expected = c.expected
<1> DEFINE at == IF c.lease = {} THEN then ELSE "drop"
           want == IF then = "done" THEN {} ELSE c.want
           saved == IF then = "done" THEN Nothing ELSE c.saved
           expected == IF then = "done" THEN Nothing ELSE c.expected
<1>1. /\ at \in {"done", "hold", "drop"} /\ want \in SUBSET Path /\ c.lease \in SUBSET Path
      /\ saved \in States /\ expected \in States
  BY NothingTyped DEF CallState
<1>2. Dropping(c, then) = [New EXCEPT !.at = at, !.then = then, !.want = want, !.lease = c.lease,
                                      !.saved = saved, !.expected = expected]
  BY DEF Dropping
<1> HIDE DEF at, want, saved, expected
<1>3. LET d == [New EXCEPT !.at = at, !.then = then, !.want = want, !.lease = c.lease,
                           !.saved = saved, !.expected = expected]
      IN  /\ d \in CallState /\ d.at = at /\ d.then = then /\ d.lease = c.lease /\ d.want = want
          /\ d.saved = saved /\ d.expected = expected
          /\ d.undo = New.undo /\ d.seen = New.seen /\ d.report = New.report /\ d.left = New.left
          /\ d.modes = New.modes /\ d.changed = New.changed /\ d.disturbed = New.disturbed
  <2>1. New \in CallState  BY NewTyped
  <2> QED  BY <1>1, <2>1 DEF CallState
<1> QED  BY <1>2, <1>3, NewTyped DEF at, want, saved, expected, Fresh

-----------------------------------------------------------------------------
(* Who else may write. *)

\* Two calls at work have no path in common: in one process they have different
\* stripes, in two they have different locks.
LEMMA LeasesApart ==
    ASSUME CheckpointInv, NEW t \in Thread, NEW u \in Thread, t # u,
           call[t].at \in Whole, call[u].at \in Whole
    PROVE  call[t].lease \cap call[u].lease = {}
<1> SUFFICES ASSUME NEW p \in call[t].lease, p \in call[u].lease PROVE FALSE
  OBVIOUS
<1>1. p \in HasOf(call[t]) /\ p \in HasOf(call[u]) /\ p \in LocksOf(call[t]) /\ p \in LocksOf(call[u])
  BY DEF HasOf, LocksOf, Whole
<1> QED  BY <1>1 DEF CheckpointInv, HeldSound, LockSound

\* What a call knows does not depend on paths outside its lease.
LEMMA AgreesStable ==
    ASSUME NEW t \in Thread, NEW c \in CallState, LeaseOrdered(c), NEW f, NEW g,
           c.at \in Whole => \A p \in c.lease : f[p] = g[p],
           Agrees(t, c, f)
    PROVE  Agrees(t, c, g)
<1>1. CASE c.at \notin Whole
  BY <1>1 DEF Agrees, RestorerAgrees, EditorAgrees, Whole, Installing
<1>2. CASE c.at \in Whole
  <2>1. c.lease = c.want /\ \A p \in c.want : f[p] = g[p]
    BY <1>2 DEF LeaseOrdered
  <2>2. CASE t \in Restorer
    <3>0. RestorerAgrees(c, f) /\ Selected(c) \subseteq c.want
      BY <1>2, <2>2 DEF Agrees, RestorerAgrees
    <3>1. \A p \in Path : (p \in Selected(c) \/ c.changed \subseteq Selected(c)) /\ Reported(c, f, p)
                              => Reported(c, g, p)
      BY <2>1, <3>0 DEF Reported
    <3>2. \A p \in Selected(c) : Deferred(c, f, p) => Deferred(c, g, p)
      BY <2>1, <3>0 DEF Deferred
    <3>3. \A p \in Selected(c) : f[p] = g[p]
      BY <2>1, <3>0
    <3>4. c.at \in Installing => /\ c.changed \subseteq Selected(c) /\ c.modes \subseteq Selected(c)
                                 /\ c.left \subseteq Selected(c)
      BY <3>0 DEF RestorerAgrees
    <3>5. c.at \in Installing => \A p \in Path : Reported(c, g, p)
      BY <3>0, <3>1, <3>4 DEF RestorerAgrees
    <3>6. c.at \in {"next", "ready", "modes"} => \A p \in c.modes : Deferred(c, g, p)
      BY <3>0, <3>2, <3>4 DEF RestorerAgrees, Installing
    <3>7. c.at = "ready" => c.on \in c.left /\ (c.on \notin c.disturbed => g[c.on] = c.undo[c.on])
      BY <3>0, <3>3, <3>4 DEF RestorerAgrees, Installing
    <3> QED  BY <2>2, <3>0, <3>5, <3>6, <3>7 DEF Agrees, RestorerAgrees
  <2>3. CASE t \notin Restorer
    <3>1. EditorAgrees(c, f) /\ c.on \in c.want
      BY <1>2, <2>3 DEF Agrees, EditorAgrees
    <3> QED  BY <2>1, <2>3, <3>1 DEF Agrees, EditorAgrees
  <2> QED  BY <2>2, <2>3
<1> QED  BY <1>1, <1>2

-----------------------------------------------------------------------------
(* One call moves. *)

LEMMA HeldKept ==
    ASSUME HeldSound, NEW t \in Thread, NEW new, call \in [Thread -> CallState],
           call' = [call EXCEPT ![t] = new], held' = held, HasOf(new) \subseteq HasOf(call[t])
    PROVE  HeldSound'
<1>1. \A u \in Thread : HasOf(call'[u]) \subseteq HasOf(call[u])
  BY DEF HeldSound
<1>2. \A u \in Thread : HasOf(call'[u]) \subseteq held'[ProcessOf[u]]
  BY <1>1 DEF HeldSound
<1>3. \A u, w \in Thread : u # w /\ ProcessOf[u] = ProcessOf[w] => HasOf(call'[u]) \cap HasOf(call'[w]) = {}
  BY <1>1 DEF HeldSound
<1> QED  BY <1>2, <1>3 DEF HeldSound, HasOf

LEMMA LockKept ==
    ASSUME LockSound, NEW t \in Thread, NEW new, call \in [Thread -> CallState],
           call' = [call EXCEPT ![t] = new], lock' = lock, LocksOf(new) \subseteq LocksOf(call[t])
    PROVE  LockSound'
<1>1. \A u \in Thread : LocksOf(call'[u]) \subseteq LocksOf(call[u])
  OBVIOUS
<1>2. \A u \in Thread : \A p \in LocksOf(call'[u]) : lock'[p] = ProcessOf[u]
  BY <1>1 DEF LockSound
<1> QED  BY <1>2 DEF LockSound, LocksOf

\* The workspace changes at most in the lease of a call at work.
Within(c, f, g) == \A p \in Path : g[p] = f[p] \/ (c.at \in Whole /\ p \in c.lease)

LEMMA CallMoves ==
    ASSUME CheckpointInv, NEW t \in Thread, NEW new \in CallState,
           call' = [call EXCEPT ![t] = new], outside' = outside,
           file' \in [Path -> State], Within(call[t], file, file'),
           held' \in [Process -> SUBSET Path], lock' \in [Path -> Process \cup {NoProcess}],
           HeldSound', LockSound', LeaseOrdered(new), Agrees(t, new, file')
    PROVE  CheckpointInv'
<1>1. /\ call \in [Thread -> CallState] /\ outside \in 0..MaxOutside
      /\ \A u \in Thread : LeaseOrdered(call[u]) /\ Agrees(u, call[u], file)
  BY CheckpointTypes DEF CheckpointInv, Ordered
<1>2. call' \in [Thread -> CallState] /\ call'[t] = new /\ \A u \in Thread \ {t} : call'[u] = call[u]
  BY <1>1
<1>3. CheckpointTypeOK'
  BY <1>1, <1>2 DEF CheckpointTypeOK, CallState
<1>4. Ordered'
  <2>1. \A u \in Thread : LeaseOrdered(call'[u])
    BY <1>1, <1>2
  <2> QED  BY <2>1 DEF Ordered, LeaseOrdered
<1>5. ASSUME NEW u \in Thread PROVE Agrees(u, call'[u], file')
  <2>1. CASE u = t
    BY <1>2, <2>1
  <2>2. CASE u # t
    <3>1. call[u].at \in Whole => \A p \in call[u].lease : file[p] = file'[p]
      <4> SUFFICES ASSUME call[u].at \in Whole, NEW p \in call[u].lease PROVE file[p] = file'[p]
        OBVIOUS
      <4>1. p \in Path
        BY <1>1 DEF CallState
      <4> QED  BY <2>2, <4>1, LeasesApart DEF Within
    <3> QED  BY <1>1, <1>2, <2>2, <3>1, AgreesStable
  <2> QED  BY <2>1, <2>2
<1>6. (\A u \in Thread : Agrees(u, call[u], file))'
  BY <1>5 DEF Agrees, RestorerAgrees, EditorAgrees, Fresh, Selected, Agreed, Untouched, Deferred, Reported
<1> QED  BY <1>3, <1>4, <1>6 DEF CheckpointInv

\* A call at work goes on working.
LEMMA CallWorks ==
    ASSUME CheckpointInv, NEW t \in Thread, NEW new \in CallState,
           call' = [call EXCEPT ![t] = new], UNCHANGED <<held, lock, outside>>,
           file' \in [Path -> State], Within(call[t], file, file'),
           call[t].at \in Whole, new.at \in Whole,
           new.lease = call[t].lease, new.want = call[t].want, Agrees(t, new, file')
    PROVE  CheckpointInv'
<1>1. /\ call \in [Thread -> CallState] /\ LeaseOrdered(call[t])
      /\ held' \in [Process -> SUBSET Path] /\ lock' \in [Path -> Process \cup {NoProcess}]
  BY CheckpointTypes DEF CheckpointInv, Ordered
<1>2. HasOf(new) = HasOf(call[t]) /\ LocksOf(new) = LocksOf(call[t]) /\ LeaseOrdered(new)
  BY <1>1 DEF HasOf, LocksOf, LeaseOrdered, Whole, Taking, Leaving
<1>3. HeldSound' /\ LockSound'
  BY <1>1, <1>2, HeldKept, LockKept DEF CheckpointInv
<1> QED  BY <1>1, <1>2, <1>3, CallMoves

\* What is left of a call that gives its lease back knows nothing.
LEMMA DroppingAgrees ==
    ASSUME NEW t \in Thread, NEW c \in CallState, NEW then \in {"done", "hold"}, NEW f,
           then = "hold" => t \in Restorer /\ c.want = Path /\ Path # {}
    PROVE  Agrees(t, Dropping(c, then), f) /\ LeaseOrdered(Dropping(c, then))
<1> DEFINE d == Dropping(c, then)
<1>1. /\ d \in CallState /\ d.at = (IF c.lease = {} THEN then ELSE "drop") /\ d.then = then
      /\ d.lease = c.lease /\ Fresh(d)
      /\ then = "done" => d.want = {} /\ d.saved = Nothing /\ d.expected = Nothing
      /\ then = "hold" => d.want = c.want /\ d.saved = c.saved /\ d.expected = c.expected
  BY DroppingFields
<1> HIDE DEF d
<1>2. Selected(d) \subseteq Path
  BY DEF Selected
<1>3. LeaseOrdered(d)
  BY <1>1 DEF LeaseOrdered, Taking, Whole, Leaving
<1>4. ASSUME t \in Restorer PROVE Agrees(t, d, f)
  BY <1>1, <1>2, <1>4 DEF Agrees, RestorerAgrees, Installing, Taking, Whole, Leaving
<1>5. ASSUME t \notin Restorer PROVE Agrees(t, d, f)
  <2>1. d.changed = {} /\ d.expected = Nothing /\ d.at \in {"done", "drop"} /\ d.then = "done"
    BY <1>1, <1>5 DEF Fresh
  <2> QED  BY <1>1, <1>5, <2>1 DEF Agrees, EditorAgrees, Editing, Taking, Whole, Leaving
<1> QED  BY <1>3, <1>4, <1>5 DEF d

\* A call gives up, or gives its lease back to take a wider one.
LEMMA CallGivesUp ==
    ASSUME CheckpointInv, NEW t \in Thread, NEW c \in CallState, NEW then \in {"done", "hold"},
           call' = [call EXCEPT ![t] = Dropping(c, then)], UNCHANGED <<held, lock, outside>>,
           file' \in [Path -> State], Within(call[t], file, file'),
           call[t].at \in {"hold"} \cup Whole, c.lease = call[t].lease,
           then = "hold" => t \in Restorer /\ c.want = Path /\ Path # {}
    PROVE  CheckpointInv'
<1> DEFINE d == Dropping(c, then)
<1>1. /\ call \in [Thread -> CallState]
      /\ held' \in [Process -> SUBSET Path] /\ lock' \in [Path -> Process \cup {NoProcess}]
  BY CheckpointTypes DEF CheckpointInv
<1>2. d \in CallState /\ d.at \in {"done", "hold", "drop"} /\ d.lease = call[t].lease
  BY DroppingFields
<1>3. Agrees(t, d, file') /\ LeaseOrdered(d)
  BY DroppingAgrees
<1> HIDE DEF d
<1>4. HasOf(d) \subseteq HasOf(call[t]) /\ LocksOf(d) \subseteq LocksOf(call[t])
  BY <1>2 DEF HasOf, LocksOf, Whole
<1>5. call' = [call EXCEPT ![t] = d]
  BY DEF d
<1>6. HeldSound' /\ LockSound'
  BY <1>1, <1>4, <1>5, HeldKept, LockKept DEF CheckpointInv
<1> QED  BY <1>1, <1>2, <1>3, <1>5, <1>6, CallMoves

-----------------------------------------------------------------------------
(* Taking and giving back stripes. *)

LEMMA HoldKeeps ==
    ASSUME CheckpointInv, NEW t \in Thread, Hold(t)
    PROVE  CheckpointInv'
<1> DEFINE c == call[t]
           stripe == NextStripe(t)
           new == [c EXCEPT !.at = "lock"]
<1>1. /\ call \in [Thread -> CallState] /\ c \in CallState /\ LeaseOrdered(c) /\ Agrees(t, c, file)
      /\ file \in [Path -> State] /\ held \in [Process -> SUBSET Path]
      /\ lock \in [Path -> Process \cup {NoProcess}]
      /\ HeldSound /\ LockSound /\ ProcessOf[t] \in Process
  BY CheckpointTypes, CheckpointsAssumption DEF CheckpointInv, Ordered
<1>2. /\ c.at = "hold" /\ stripe \notin held[ProcessOf[t]]
      /\ held' = [held EXCEPT ![ProcessOf[t]] = @ \cup {stripe}]
      /\ call' = [call EXCEPT ![t] = new] /\ UNCHANGED <<file, lock, outside>>
  BY DEF Hold
<1>3. stripe \in Path /\ stripe = Min(c.want \ c.lease)
  BY <1>1, <1>2, NextStripeLeast DEF NextStripe, Taking, CallState
<1>4. /\ new \in CallState /\ new.at = "lock" /\ new.lease = c.lease /\ new.want = c.want
      /\ new.saved = c.saved /\ new.expected = c.expected /\ new.on = c.on
      /\ new.changed = c.changed /\ Fresh(new) <=> Fresh(c)
  BY <1>1 DEF CallState, Fresh
<1> HIDE DEF new, c, stripe
<1>5. LeaseOrdered(new) /\ Agrees(t, new, file)
  <2>1. LeaseOrdered(new)
    BY <1>1, <1>2, <1>4 DEF LeaseOrdered, Taking, Whole, Leaving
  <2>2. Selected(new) = Selected(c)
    BY <1>4 DEF Selected
  <2>3. ASSUME t \in Restorer PROVE Agrees(t, new, file)
    BY <1>1, <1>2, <1>4, <2>2, <2>3 DEF Agrees, RestorerAgrees, Installing, Taking, Whole, Leaving
  <2>4. ASSUME t \notin Restorer PROVE Agrees(t, new, file)
    BY <1>1, <1>2, <1>4, <2>4 DEF Agrees, EditorAgrees, Editing, Taking, Whole, Leaving
  <2> QED  BY <2>1, <2>3, <2>4
<1>6. /\ HasOf(new) = HasOf(c) \cup {stripe} /\ HasOf(c) = c.lease
      /\ LocksOf(new) = LocksOf(c)
  BY <1>2, <1>3, <1>4 DEF HasOf, LocksOf
<1>7. HeldSound'
  <2>1. \A u \in Thread : HasOf(call'[u]) = IF u = t THEN HasOf(call[u]) \cup {stripe} ELSE HasOf(call[u])
    BY <1>1, <1>2, <1>6 DEF c
  <2>2. \A m \in Process : held'[m] = IF m = ProcessOf[t] THEN held[m] \cup {stripe} ELSE held[m]
    BY <1>1, <1>2
  <2>3. \A u \in Thread : HasOf(call[u]) \subseteq held[ProcessOf[u]] /\ ProcessOf[u] \in Process
    BY <1>1, CheckpointsAssumption DEF HeldSound
  <2>4. \A u \in Thread : HasOf(call'[u]) \subseteq held'[ProcessOf[u]]
    BY <2>1, <2>2, <2>3
  <2>5. \A u \in Thread : ProcessOf[u] = ProcessOf[t] => stripe \notin HasOf(call[u])
    BY <1>2, <2>3
  <2>6. \A u, w \in Thread : u # w /\ ProcessOf[u] = ProcessOf[w] => HasOf(call'[u]) \cap HasOf(call'[w]) = {}
    BY <1>1, <2>1, <2>5 DEF HeldSound
  <2> QED  BY <2>4, <2>6 DEF HeldSound, HasOf
<1>8. LockSound'
  BY <1>1, <1>2, <1>6, LockKept DEF c
<1>9. held' \in [Process -> SUBSET Path]
  BY <1>1, <1>2, <1>3
<1>10. Within(call[t], file, file')
  BY <1>2 DEF Within
<1> QED  BY <1>1, <1>2, <1>4, <1>5, <1>7, <1>8, <1>9, <1>10, CallMoves

LEMMA LockKeeps ==
    ASSUME CheckpointInv, NEW t \in Thread, Lock(t)
    PROVE  CheckpointInv'
<1> DEFINE c == call[t]
           stripe == NextStripe(t)
           lease == c.lease \cup {stripe}
           at == IF lease = c.want THEN "look" ELSE "hold"
           new == [c EXCEPT !.lease = lease, !.at = at]
<1>1. /\ call \in [Thread -> CallState] /\ c \in CallState /\ LeaseOrdered(c) /\ Agrees(t, c, file)
      /\ file \in [Path -> State] /\ held \in [Process -> SUBSET Path]
      /\ lock \in [Path -> Process \cup {NoProcess}]
      /\ HeldSound /\ LockSound /\ ProcessOf[t] \in Process
  BY CheckpointTypes, CheckpointsAssumption DEF CheckpointInv, Ordered
<1>2. /\ c.at = "lock" /\ lock[stripe] \in {NoProcess, ProcessOf[t]}
      /\ lock' = [lock EXCEPT ![stripe] = ProcessOf[t]]
      /\ call' = [call EXCEPT ![t] = new] /\ UNCHANGED <<file, held, outside>>
  BY DEF Lock
<1>3. /\ stripe \in Path /\ stripe = Min(c.want \ c.lease) /\ stripe \in c.want \ c.lease
      /\ \A q \in c.want \ c.lease : stripe <= q
      /\ c.want \subseteq Path /\ c.lease \subseteq c.want
      /\ \A p \in c.lease, q \in c.want \ c.lease : p < q
  BY <1>1, <1>2, NextStripeLeast DEF NextStripe, Taking, CallState, LeaseOrdered
<1>4. lease \in SUBSET Path /\ at \in {"look", "hold"}
  BY <1>1, <1>3 DEF CallState
<1> HIDE DEF lease, at, c, stripe
<1>5. /\ new \in CallState /\ new.at = at /\ new.lease = lease /\ new.want = c.want
      /\ new.saved = c.saved /\ new.expected = c.expected /\ new.on = c.on
      /\ new.changed = c.changed /\ Fresh(new) <=> Fresh(c)
  BY <1>1, <1>4 DEF CallState, Fresh
<1> HIDE DEF new
<1>6. LeaseOrdered(new)
  <2>1. CASE lease = c.want
    BY <1>5, <2>1 DEF LeaseOrdered, Taking, Whole, Leaving, at
  <2>2. CASE lease # c.want
    <3>1. ASSUME NEW p \in lease, NEW q \in c.want \ lease PROVE p < q
      <4>1. q \in c.want \ c.lease /\ q # stripe /\ q \in Nat /\ stripe \in Nat
        BY <1>3, CheckpointsAssumption DEF lease
      <4> QED  BY <1>3, <3>1, <4>1 DEF lease
    <3> QED  BY <1>3, <1>5, <2>2, <3>1 DEF LeaseOrdered, Taking, Whole, Leaving, at, lease
  <2> QED  BY <2>1, <2>2
<1>7. Agrees(t, new, file)
  <2>1. Selected(new) = Selected(c)
    BY <1>5 DEF Selected
  <2>2. ASSUME t \in Restorer PROVE Agrees(t, new, file)
    BY <1>1, <1>2, <1>4, <1>5, <2>1, <2>2 DEF Agrees, RestorerAgrees, Installing, Taking, Whole, Leaving
  <2>3. ASSUME t \notin Restorer PROVE Agrees(t, new, file)
    BY <1>1, <1>2, <1>4, <1>5, <2>3 DEF Agrees, EditorAgrees, Editing, Taking, Whole, Leaving
  <2> QED  BY <2>2, <2>3
<1>8. HasOf(new) = HasOf(c) /\ LocksOf(new) = LocksOf(c) \cup {stripe}
  BY <1>2, <1>3, <1>4, <1>5 DEF HasOf, LocksOf, lease
<1>9. HeldSound'
  BY <1>1, <1>2, <1>8, HeldKept DEF c
<1>10. LockSound'
  <2>1. ASSUME NEW u \in Thread, NEW p \in LocksOf(call'[u]) PROVE lock'[p] = ProcessOf[u]
    <3>1. p # stripe => p \in LocksOf(call[u])
      BY <1>1, <1>2, <1>8, <2>1 DEF c
    <3>2. CASE p # stripe
      BY <1>1, <1>2, <3>1, <3>2 DEF LockSound
    <3>3. CASE p = stripe
      <4>1. u = t \/ p \in LocksOf(call[u])
        BY <1>1, <1>2, <2>1
      <4>2. ProcessOf[u] # NoProcess
        BY CheckpointsAssumption
      <4>3. ProcessOf[u] = ProcessOf[t]
        BY <1>1, <1>2, <3>3, <4>1, <4>2 DEF LockSound
      <4> QED  BY <1>1, <1>2, <1>3, <3>3, <4>3
    <3> QED  BY <3>2, <3>3
  <2> QED  BY <2>1 DEF LockSound, LocksOf
<1>11. lock' \in [Path -> Process \cup {NoProcess}] /\ held' \in [Process -> SUBSET Path]
  BY <1>1, <1>2
<1>12. Within(call[t], file, file') /\ file' \in [Path -> State]
  BY <1>1, <1>2 DEF Within
<1> QED  BY <1>2, <1>5, <1>6, <1>7, <1>9, <1>10, <1>11, <1>12, CallMoves

\* A stripe that nobody else of the process has is given back.
LEMMA HeldGivenBack ==
    ASSUME HeldSound, NEW t \in Thread, NEW new, NEW stripe, call \in [Thread -> CallState],
           held \in [Process -> SUBSET Path],
           call' = [call EXCEPT ![t] = new], held' = [held EXCEPT ![ProcessOf[t]] = @ \ {stripe}],
           stripe \in HasOf(call[t]), HasOf(new) = HasOf(call[t]) \ {stripe}
    PROVE  HeldSound' /\ held' \in [Process -> SUBSET Path]
<1>1. \A u \in Thread : HasOf(call'[u]) = IF u = t THEN HasOf(call[u]) \ {stripe} ELSE HasOf(call[u])
  OBVIOUS
<1>2. \A u \in Thread : ProcessOf[u] \in Process
  BY CheckpointsAssumption
<1>3. \A m \in Process : held'[m] = IF m = ProcessOf[t] THEN held[m] \ {stripe} ELSE held[m]
  OBVIOUS
<1>4. \A u \in Thread \ {t} : ProcessOf[u] = ProcessOf[t] => stripe \notin HasOf(call[u])
  BY DEF HeldSound
<1>5. \A u \in Thread : HasOf(call'[u]) \subseteq held'[ProcessOf[u]]
  BY <1>1, <1>2, <1>3, <1>4 DEF HeldSound
<1>6. \A u, w \in Thread : u # w /\ ProcessOf[u] = ProcessOf[w] => HasOf(call'[u]) \cap HasOf(call'[w]) = {}
  BY <1>1 DEF HeldSound
<1> QED  BY <1>5, <1>6 DEF HeldSound, HasOf

LEMMA CancelLockKeeps ==
    ASSUME CheckpointInv, NEW t \in Thread, CancelLock(t)
    PROVE  CheckpointInv'
<1> DEFINE c == call[t]
           stripe == NextStripe(t)
           new == Dropping(c, "done")
<1>1. /\ call \in [Thread -> CallState] /\ c \in CallState /\ LeaseOrdered(c)
      /\ file \in [Path -> State] /\ held \in [Process -> SUBSET Path]
      /\ lock \in [Path -> Process \cup {NoProcess}]
      /\ HeldSound /\ LockSound
  BY CheckpointTypes DEF CheckpointInv, Ordered
<1>2. /\ c.at = "lock" /\ held' = [held EXCEPT ![ProcessOf[t]] = @ \ {stripe}]
      /\ call' = [call EXCEPT ![t] = new] /\ UNCHANGED <<file, lock, outside>>
  BY DEF CancelLock
<1>3. stripe = Min(c.want \ c.lease) /\ stripe \notin c.lease
  BY <1>1, <1>2, NextStripeLeast DEF NextStripe, Taking
<1>4. new \in CallState /\ new.at \in {"done", "drop"} /\ new.lease = c.lease
  BY <1>1, DroppingFields
<1>5. Agrees(t, new, file') /\ LeaseOrdered(new)
  BY <1>1, DroppingAgrees
<1> HIDE DEF c, stripe, new
<1>6. stripe \in HasOf(c) /\ HasOf(new) = HasOf(c) \ {stripe} /\ LocksOf(new) = LocksOf(c)
  BY <1>2, <1>3, <1>4 DEF HasOf, LocksOf
<1>7. HeldSound' /\ LockSound' /\ held' \in [Process -> SUBSET Path]
  BY <1>1, <1>2, <1>6, HeldGivenBack, LockKept DEF c
<1>8. Within(call[t], file, file') /\ file' \in [Path -> State] /\ lock' \in [Path -> Process \cup {NoProcess}]
  BY <1>1, <1>2 DEF Within
<1> QED  BY <1>2, <1>4, <1>5, <1>7, <1>8, CallMoves

LEMMA DropKeeps ==
    ASSUME CheckpointInv, NEW t \in Thread, Drop(t)
    PROVE  CheckpointInv'
<1> DEFINE c == call[t]
           stripe == Max(c.lease)
           new == [c EXCEPT !.at = "dropping"]
<1>1. /\ call \in [Thread -> CallState] /\ c \in CallState /\ LeaseOrdered(c) /\ Agrees(t, c, file)
      /\ file \in [Path -> State] /\ held \in [Process -> SUBSET Path]
      /\ lock \in [Path -> Process \cup {NoProcess}]
      /\ HeldSound /\ LockSound
  BY CheckpointTypes DEF CheckpointInv, Ordered
<1>2. /\ c.at = "drop" /\ lock' = [lock EXCEPT ![stripe] = NoProcess]
      /\ call' = [call EXCEPT ![t] = new] /\ UNCHANGED <<file, held, outside>>
  BY DEF Drop, Gives, DropOrder
<1>3. stripe \in c.lease /\ stripe \in Path
  BY <1>1, <1>2, MaxOfStripes DEF LeaseOrdered, Leaving, CallState
<1>4. /\ new \in CallState /\ new.at = "dropping" /\ new.lease = c.lease /\ new.want = c.want
      /\ new.then = c.then /\ new.saved = c.saved /\ new.expected = c.expected
      /\ new.changed = c.changed /\ Fresh(new) <=> Fresh(c)
  BY <1>1 DEF CallState, Fresh
<1> HIDE DEF new, c
<1>5. LeaseOrdered(new)
  BY <1>1, <1>2, <1>4 DEF LeaseOrdered, Taking, Whole, Leaving
<1>6. Agrees(t, new, file)
  <2>1. ASSUME t \in Restorer PROVE Agrees(t, new, file)
    BY <1>1, <1>2, <1>4, <2>1 DEF Agrees, RestorerAgrees, Installing, Taking, Whole, Leaving
  <2>2. ASSUME t \notin Restorer PROVE Agrees(t, new, file)
    BY <1>1, <1>2, <1>4, <2>2 DEF Agrees, EditorAgrees, Editing, Taking, Whole, Leaving
  <2> QED  BY <2>1, <2>2
<1>7. /\ HasOf(new) = HasOf(c) /\ LocksOf(new) = c.lease \ {stripe} /\ LocksOf(c) = c.lease
      /\ stripe \in HasOf(c)
  BY <1>2, <1>3, <1>4 DEF HasOf, LocksOf
<1> HIDE DEF stripe
<1>8. HeldSound'
  BY <1>1, <1>2, <1>7, HeldKept DEF c
<1>9. LockSound'
  <2>1. ASSUME NEW u \in Thread, NEW p \in LocksOf(call'[u]) PROVE lock'[p] = ProcessOf[u]
    <3>1. CASE u = t
      <4>1. p \in LocksOf(c) /\ p # stripe
        BY <1>1, <1>2, <1>7, <2>1, <3>1
      <4> QED  BY <1>1, <1>2, <3>1, <4>1 DEF LockSound, c
    <3>2. CASE u # t
      <4>1. p \in LocksOf(call[u]) /\ p \in HasOf(call[u])
        BY <1>1, <1>2, <2>1, <3>2 DEF LocksOf, HasOf
      <4>2. p # stripe
        BY <1>1, <1>3, <1>7, <3>2, <4>1 DEF HeldSound, LockSound, c
      <4> QED  BY <1>1, <1>2, <4>1, <4>2 DEF LockSound
    <3> QED  BY <3>1, <3>2
  <2> QED  BY <2>1 DEF LockSound, LocksOf
<1>10. /\ Within(call[t], file, file') /\ file' \in [Path -> State] /\ held' \in [Process -> SUBSET Path]
       /\ lock' \in [Path -> Process \cup {NoProcess}]
  BY <1>1, <1>2 DEF Within
<1> QED  BY <1>2, <1>4, <1>5, <1>6, <1>8, <1>9, <1>10, CallMoves

LEMMA DroppedKeeps ==
    ASSUME CheckpointInv, NEW t \in Thread, Dropped(t)
    PROVE  CheckpointInv'
<1> DEFINE c == call[t]
           stripe == Max(c.lease)
           rest == [c EXCEPT !.lease = @ \ {stripe}]
           new == Dropping(rest, c.then)
<1>1. /\ call \in [Thread -> CallState] /\ c \in CallState /\ LeaseOrdered(c) /\ Agrees(t, c, file)
      /\ file \in [Path -> State] /\ held \in [Process -> SUBSET Path]
      /\ lock \in [Path -> Process \cup {NoProcess}]
      /\ HeldSound /\ LockSound
  BY CheckpointTypes DEF CheckpointInv, Ordered
<1>2. /\ c.at = "dropping" /\ held' = [held EXCEPT ![ProcessOf[t]] = @ \ {stripe}]
      /\ call' = [call EXCEPT ![t] = new] /\ UNCHANGED <<file, lock, outside>>
  BY DEF Dropped, Gives, DropOrder
<1>3. stripe \in c.lease /\ c.lease \subseteq Path /\ c.then \in {"done", "hold"}
  BY <1>1, <1>2, MaxOfStripes DEF LeaseOrdered, Leaving, CallState
<1>4. rest \in CallState /\ rest.lease = c.lease \ {stripe} /\ rest.want = c.want
  BY <1>1 DEF CallState
<1>5. c.then = "hold" => t \in Restorer /\ c.want = Path /\ Path # {}
  BY <1>1, <1>2, <1>3 DEF Agrees, RestorerAgrees, EditorAgrees, Leaving
<1> HIDE DEF rest
<1>6. new \in CallState /\ new.at \in {"done", "hold", "drop"} /\ new.lease = c.lease \ {stripe}
  BY <1>3, <1>4, DroppingFields
<1>7. Agrees(t, new, file') /\ LeaseOrdered(new)
  BY <1>3, <1>4, <1>5, DroppingAgrees
<1> HIDE DEF c, new
<1>8. stripe \in HasOf(c) /\ HasOf(new) = HasOf(c) \ {stripe} /\ LocksOf(new) = LocksOf(c)
  BY <1>2, <1>3, <1>6 DEF HasOf, LocksOf
<1> HIDE DEF stripe
<1>9. HeldSound' /\ LockSound' /\ held' \in [Process -> SUBSET Path]
  BY <1>1, <1>2, <1>8, HeldGivenBack, LockKept DEF c
<1>10. Within(call[t], file, file') /\ file' \in [Path -> State] /\ lock' \in [Path -> Process \cup {NoProcess}]
  BY <1>1, <1>2 DEF Within
<1> QED  BY <1>2, <1>6, <1>7, <1>9, <1>10, CallMoves

-----------------------------------------------------------------------------
(* Records of restores that install. *)

\* What a restore does not change once it has looked.
Like(c, d) ==
    /\ d.then = c.then /\ d.want = c.want /\ d.lease = c.lease
    /\ d.saved = c.saved /\ d.expected = c.expected /\ d.seen = c.seen /\ d.undo = c.undo
Tracks(c, d) == d.report = c.report /\ d.changed = c.changed
Plans(c, d) == d.left = c.left /\ d.modes = c.modes
Places(c, d) == d.at = c.at /\ d.on = c.on /\ d.disturbed = c.disturbed /\ d.report = c.report

LEMMA LooksFields ==
    ASSUME NEW c \in CallState, NEW paths
    PROVE  LET d == Looks(c, paths)
           IN  /\ d \in CallState /\ Like(c, d) /\ Tracks(c, d) /\ Plans(c, d)
               /\ d.at = c.at /\ d.on = c.on /\ d.disturbed = c.disturbed \ paths
BY DEF Looks, CallState, Like, Tracks, Plans

LEMMA BreakFields ==
    ASSUME NEW c \in CallState
    PROVE  LET d == Break(c)
           IN  /\ d \in CallState /\ Like(c, d) /\ Tracks(c, d) /\ Plans(c, d)
               /\ d.at = "report" /\ d.disturbed = c.disturbed
BY DEF Break, CallState, Like, Tracks, Plans

LEMMA LoopOverFields ==
    ASSUME NEW c \in CallState
    PROVE  LET d == LoopOver(c)
           IN  /\ d \in CallState /\ Like(c, d) /\ Tracks(c, d) /\ Plans(c, d)
               /\ d.at = (IF c.left # {} THEN "next" ELSE "modes") /\ d.disturbed = c.disturbed
BY DEF LoopOver, CallState, Like, Tracks, Plans

LEMMA ReportsFields ==
    ASSUME NEW c \in CallState, NEW p \in Path, NEW state \in State
    PROVE  LET d == Reports(c, p, state)
           IN  /\ d \in CallState /\ Like(c, d) /\ Plans(c, d) /\ d.changed = c.changed
               /\ d.at = c.at /\ d.on = c.on /\ d.disturbed = c.disturbed
               /\ d.report[p] = state /\ \A q \in Path \ {p} : d.report[q] = c.report[q]
<1> DEFINE report == [c.report EXCEPT ![p] = state]
<1>1. c.report \in States
  BY DEF CallState
<1>2. report \in States /\ report[p] = state /\ \A q \in Path \ {p} : report[q] = c.report[q]
  BY <1>1 DEF States
<1>3. Reports(c, p, state) = [c EXCEPT !.report = report]
  BY DEF Reports
<1> HIDE DEF report
<1> QED  BY <1>2, <1>3 DEF CallState, Like, Plans

\* What Puts makes of the call.
Marks(c, d, p, old, state) == d.changed = IF old # state THEN c.changed \cup {p} ELSE c.changed
Put(c, p, old, state) == [c EXCEPT !.changed = IF old # state THEN @ \cup {p} ELSE @]
LEMMA PutFields ==
    ASSUME NEW c \in CallState, NEW p \in Path, NEW old, NEW state
    PROVE  LET d == Put(c, p, old, state)
           IN  /\ d \in CallState /\ Like(c, d) /\ Plans(c, d) /\ Places(c, d)
               /\ Marks(c, d, p, old, state)
<1>1. (IF old # state THEN c.changed \cup {p} ELSE c.changed) \in SUBSET Path
  BY DEF CallState
<1> QED  BY <1>1 DEF Put, CallState, Like, Plans, Places, Marks

LEMMA PutsPut ==
    ASSUME NEW t, NEW p, NEW state, NEW c, Puts(t, p, state, c)
    PROVE  /\ file' = [file EXCEPT ![p] = state]
           /\ call' = [call EXCEPT ![t] = Put(c, p, file[p], state)]
           /\ UNCHANGED <<held, lock, outside>>
BY DEF Puts, Put

\* One path is dealt with: what the call knows of the others stays.
LEMMA OnePathAgrees ==
    ASSUME NEW c \in CallState, NEW d \in CallState, NEW f, NEW g, RestorerAgrees(c, f),
           c.at \in Installing, d.at \in Installing, Like(c, d), NEW p \in Selected(c),
           \A q \in Path \ {p} : /\ g[q] = f[q] /\ d.report[q] = c.report[q]
                                 /\ q \in d.changed <=> q \in c.changed
                                 /\ q \in d.disturbed <=> q \in c.disturbed
                                 /\ q \in d.left <=> q \in c.left
                                 /\ q \in d.modes <=> q \in c.modes,
           Reported(d, g, p), p \notin d.left \cap d.modes,
           d.at \in {"next", "ready"} => c.at \in {"next", "ready"},
           d.at = "modes" => c.at \in {"next", "ready", "modes"},
           p \in d.left /\ d.at \in {"next", "ready"} => Untouched(d, p) /\ p \in c.left,
           p \in d.modes /\ d.at \in {"next", "ready", "modes"} => Deferred(d, g, p),
           d.at = "ready" => d.on = p /\ p \in d.left /\ (p \notin d.disturbed => g[p] = d.undo[p])
    PROVE  RestorerAgrees(d, g)
<1>0. /\ p \in Path /\ Selected(d) = Selected(c)
      /\ d.left \subseteq Path /\ d.modes \subseteq Path /\ d.changed \subseteq Path
  BY DEF Like, Selected, CallState
<1>1. /\ Selected(d) \subseteq d.want
  BY <1>0 DEF RestorerAgrees, Like, Whole, Installing
<1>2. /\ d.left \subseteq Selected(d) /\ d.modes \subseteq Selected(d) /\ d.changed \subseteq Selected(d)
      /\ d.left \cap d.modes = {}
  BY <1>0 DEF RestorerAgrees
<1>3. \A q \in Path : Reported(d, g, q)
  <2> SUFFICES ASSUME NEW q \in Path \ {p} PROVE Reported(d, g, q)
    OBVIOUS
  <2>1. Reported(c, f, q)
    BY DEF RestorerAgrees
  <2> QED  BY <2>1 DEF Reported, Like
<1>4. d.at \in {"next", "ready"} => \A q \in d.left : Untouched(d, q) /\ Agreed(d, q)
  <2> SUFFICES ASSUME d.at \in {"next", "ready"}, NEW q \in d.left PROVE Untouched(d, q) /\ Agreed(d, q)
    OBVIOUS
  <2>1. q \in c.left /\ Untouched(c, q) /\ Agreed(c, q)
    BY <1>0 DEF RestorerAgrees
  <2>2. Agreed(d, q)
    BY <2>1 DEF Agreed, Like
  <2>3. Untouched(d, q)
    BY <1>0, <2>1 DEF Untouched
  <2> QED  BY <2>2, <2>3
<1>5. d.at \in {"next", "ready", "modes"} => \A q \in d.modes : Deferred(d, g, q)
  <2> SUFFICES ASSUME d.at \in {"next", "ready", "modes"}, NEW q \in d.modes, q # p PROVE Deferred(d, g, q)
    OBVIOUS
  <2>1. Deferred(c, f, q) /\ q \in Path
    BY <1>0 DEF RestorerAgrees
  <2> QED  BY <2>1 DEF Deferred, Agreed, Untouched, Like
<1> QED  BY <1>0, <1>1, <1>2, <1>3, <1>4, <1>5 DEF RestorerAgrees, Installing, Taking, Whole, Leaving

-----------------------------------------------------------------------------
(* Installing. *)

LEMMA Facts ==
    ASSUME CheckpointInv, NEW t \in Thread
    PROVE  /\ call[t] \in CallState /\ LeaseOrdered(call[t]) /\ Agrees(t, call[t], file)
           /\ t \in Restorer => RestorerAgrees(call[t], file)
           /\ t \notin Restorer => EditorAgrees(call[t], file)
           /\ file \in [Path -> State]
BY CheckpointTypes DEF CheckpointInv, Ordered, Agrees

LEMMA InstallWorks ==
    ASSUME CheckpointInv, NEW t \in Restorer, NEW new \in CallState, NEW p \in Selected(call[t]),
           call' = [call EXCEPT ![t] = new], UNCHANGED <<held, lock, outside>>,
           file' \in [Path -> State], \A q \in Path \ {p} : file'[q] = file[q],
           call[t].at \in Installing, new.at \in Installing, Like(call[t], new),
           RestorerAgrees(new, file')
    PROVE  CheckpointInv'
<1>1. t \in Thread  BY DEF Thread
<1>2. p \in call[t].lease
  BY <1>1, Facts DEF RestorerAgrees, LeaseOrdered, Whole, Installing
<1>3. Within(call[t], file, file')
  BY <1>2 DEF Within, Whole, Installing
<1> QED  BY <1>1, <1>3, CallWorks DEF Agrees, Like, Installing, Whole

LEMMA BreakAgrees ==
    ASSUME NEW c \in CallState, NEW f, RestorerAgrees(c, f), c.at \in Installing
    PROVE  RestorerAgrees(Break(c), f)
<1> DEFINE d == Break(c)
<1>1. /\ d \in CallState /\ Like(c, d) /\ Tracks(c, d) /\ Plans(c, d)
      /\ d.at = "report" /\ d.disturbed = c.disturbed
  BY BreakFields
<1> HIDE DEF d
<1>2. Selected(d) = Selected(c)
  BY <1>1 DEF Selected, Like
<1>3. \A p \in Path : Reported(d, f, p)
  BY <1>1 DEF RestorerAgrees, Reported, Like, Tracks
<1>4. RestorerAgrees(d, f)
  BY <1>1, <1>2, <1>3 DEF RestorerAgrees, Like, Tracks, Plans, Installing, Whole, Taking, Leaving
<1> QED  BY <1>4 DEF d

LEMMA ReadyKeeps ==
    ASSUME CheckpointInv, NEW t \in Restorer, Ready(t)
    PROVE  CheckpointInv'
<1> DEFINE c == call[t]
<1>1. PICK p \in Path :
         /\ c.at = "next" /\ IsNext(t, p)
         /\ call' = [call EXCEPT ![t] = IF Compare(t, p)
                                        THEN Looks([c EXCEPT !.at = "ready", !.on = p], {p})
                                        ELSE Break(Looks(c, {p}))]
         /\ UNCHANGED <<file, held, lock, outside>>
  BY DEF Ready
<1>2. t \in Thread  BY DEF Thread
<1>3. c \in CallState /\ RestorerAgrees(c, file) /\ file \in [Path -> State]
  BY <1>2, Facts
<1>4. /\ p \in c.left /\ p \in Selected(c) /\ Untouched(c, p) /\ p \notin c.modes
  BY <1>1, <1>3 DEF IsNext, RestorerAgrees, Installing
<1> DEFINE at == [c EXCEPT !.at = "ready", !.on = p]
<1>5. /\ at \in CallState /\ Like(c, at) /\ Tracks(c, at) /\ Plans(c, at)
      /\ at.at = "ready" /\ at.on = p /\ at.disturbed = c.disturbed
  BY <1>3 DEF CallState, Like, Tracks, Plans
<1> HIDE DEF at
<1>6. CASE Compare(t, p)
  <2> DEFINE d == Looks(at, {p})
  <2>1. /\ d \in CallState /\ Like(c, d) /\ Tracks(c, d) /\ Plans(c, d)
        /\ d.at = "ready" /\ d.on = p /\ d.disturbed = c.disturbed \ {p}
    BY <1>5, LooksFields DEF Like, Tracks, Plans
  <2>2. file[p] = d.undo[p]
    BY <1>6, <2>1 DEF Compare, Like
  <2>3. call' = [call EXCEPT ![t] = d]
    BY <1>1, <1>6 DEF at
  <2> HIDE DEF d
  <2>4. Reported(d, file, p) /\ Untouched(d, p)
    BY <1>4, <2>1 DEF Reported, Untouched, Tracks
  <2>5. RestorerAgrees(d, file)
    BY <1>1, <1>3, <1>4, <2>1, <2>2, <2>4, OnePathAgrees DEF Tracks, Plans, Installing
  <2> QED  BY <1>1, <1>3, <1>4, <2>1, <2>3, <2>5, InstallWorks DEF Installing
<1>7. CASE ~Compare(t, p)
  <2> DEFINE d == Break(Looks(c, {p}))
  <2>1. /\ d \in CallState /\ Like(c, d) /\ Tracks(c, d) /\ Plans(c, d)
        /\ d.at = "report" /\ d.disturbed = c.disturbed \ {p}
    BY <1>3, LooksFields, BreakFields DEF Like, Tracks, Plans
  <2>2. call' = [call EXCEPT ![t] = d]
    BY <1>1, <1>7
  <2> HIDE DEF d
  <2>3. Reported(d, file, p)
    BY <1>4, <2>1 DEF Reported, Untouched, Tracks
  <2>4. RestorerAgrees(d, file)
    BY <1>1, <1>3, <1>4, <2>1, <2>3, OnePathAgrees DEF Tracks, Plans, Installing
  <2> QED  BY <1>1, <1>3, <1>4, <2>1, <2>2, <2>4, InstallWorks DEF Installing
<1> QED  BY <1>6, <1>7

LEMMA NotReadyKeeps ==
    ASSUME CheckpointInv, NEW t \in Restorer, NotReady(t)
    PROVE  CheckpointInv'
<1> DEFINE c == call[t]
           d == Break(c)
<1>1. t \in Thread  BY DEF Thread
<1>2. c \in CallState /\ RestorerAgrees(c, file) /\ file \in [Path -> State]
  BY <1>1, Facts
<1>3. c.at = "next" /\ call' = [call EXCEPT ![t] = d] /\ UNCHANGED <<file, held, lock, outside>>
  BY DEF NotReady
<1>4. d \in CallState /\ Like(c, d) /\ d.at = "report"
  BY <1>2, BreakFields
<1>5. RestorerAgrees(d, file)
  BY <1>2, <1>3, BreakAgrees DEF Installing
<1> HIDE DEF d
<1> QED  BY <1>1, <1>2, <1>3, <1>4, <1>5, CallWorks DEF Agrees, Within, Like, Whole

\* A path leaves the plan, possibly to have its mode set later.
LEMMA PlanFields ==
    ASSUME NEW c \in CallState, NEW p \in Path
    PROVE  LET rest == [c EXCEPT !.left = @ \ {p}]
               deferred == [rest EXCEPT !.modes = @ \cup {p}]
           IN  /\ rest \in CallState /\ Like(c, rest) /\ Tracks(c, rest)
               /\ rest.left = c.left \ {p} /\ rest.modes = c.modes /\ rest.disturbed = c.disturbed
               /\ deferred \in CallState /\ Like(c, deferred) /\ Tracks(c, deferred)
               /\ deferred.left = c.left \ {p} /\ deferred.modes = c.modes \cup {p}
               /\ deferred.disturbed = c.disturbed
<1>1. c.left \ {p} \in SUBSET Path /\ c.modes \cup {p} \in SUBSET Path
  BY DEF CallState
<1> QED  BY <1>1 DEF CallState, Like, Tracks

LEMMA AfterFailureFields ==
    ASSUME NEW t, NEW c \in CallState, NEW p \in Path, NEW state \in State
    PROVE  LET d == AfterFailure(t, c, p, state)
           IN  /\ d \in CallState /\ Like(c, d) /\ Plans(c, d) /\ d.changed = c.changed
               /\ d.at = c.at /\ d.disturbed = c.disturbed
               /\ d.report[p] = (IF state # c.undo[p] THEN state ELSE c.report[p])
               /\ \A q \in Path \ {p} : d.report[q] = c.report[q]
<1>1. CASE state # c.undo[p]
  BY <1>1, ReportsFields DEF AfterFailure
<1>2. CASE state = c.undo[p]
  BY <1>2 DEF AfterFailure, Like, Plans
<1> QED  BY <1>1, <1>2

LEMMA InstallKeeps ==
    ASSUME CheckpointInv, NEW t \in Restorer, Install(t)
    PROVE  CheckpointInv'
<1> DEFINE c == call[t]
           p == c.on
           rest == [c EXCEPT !.left = @ \ {p}]
           deferred == [rest EXCEPT !.modes = @ \cup {p}]
<1>1. t \in Thread  BY DEF Thread
<1>2. c \in CallState /\ RestorerAgrees(c, file) /\ file \in [Path -> State]
  BY <1>1, Facts
<1>3. c.at = "ready" /\ (IsDirectory(file[p]) => IsDirectory(c.seen[p]))
  BY DEF Install
<1>4. /\ p \in c.left /\ p \in Selected(c) /\ p \in Path /\ Untouched(c, p) /\ Agreed(c, p)
      /\ p \notin c.modes
      /\ p \notin c.disturbed => file[p] = c.undo[p]
  BY <1>2, <1>3 DEF RestorerAgrees, Installing, Selected
<1>5. c.saved[p] \in State
  BY <1>2, <1>4, NothingTyped DEF Selected, CallState
<1>6. "private" \in State /\ IsDirectory("private")
  BY DEF State, Directory, IsDirectory
<1>7. /\ rest \in CallState /\ Like(c, rest) /\ Tracks(c, rest)
      /\ rest.left = c.left \ {p} /\ rest.modes = c.modes /\ rest.disturbed = c.disturbed
      /\ deferred \in CallState /\ Like(c, deferred) /\ Tracks(c, deferred)
      /\ deferred.left = c.left \ {p} /\ deferred.modes = c.modes \cup {p}
      /\ deferred.disturbed = c.disturbed
  BY <1>2, <1>4, PlanFields
<1>8. CASE ~IsDirectory(c.saved[p])
  <2>0. PICK state : state = c.saved[p]
    OBVIOUS
  <2> DEFINE base == LoopOver(Reports(rest, p, state))
             d == Put(base, p, file[p], state)
  <2>1. Puts(t, p, state, base)
    BY <1>8, <2>0 DEF Install, Installed
  <2>2. /\ file' = [file EXCEPT ![p] = state] /\ call' = [call EXCEPT ![t] = d]
        /\ UNCHANGED <<held, lock, outside>>
    BY <2>1, PutsPut
  <2>3. /\ base \in CallState /\ Like(c, base) /\ base.changed = c.changed
        /\ base.left = c.left \ {p} /\ base.modes = c.modes /\ base.disturbed = c.disturbed
        /\ base.at \in {"next", "modes"} /\ base.report[p] = state
        /\ \A q \in Path \ {p} : base.report[q] = c.report[q]
    <3> HIDE DEF rest
    <3>1. Reports(rest, p, state) \in CallState  BY <2>0, <1>4, <1>5, <1>7, ReportsFields
    <3> QED  BY <2>0, <1>4, <1>5, <1>7, <3>1, ReportsFields, LoopOverFields DEF Like, Tracks, Plans
  <2> HIDE DEF base
  <2>4. /\ d \in CallState /\ Like(c, d) /\ d.changed = (IF file[p] # state THEN c.changed \cup {p} ELSE c.changed)
        /\ d.left = c.left \ {p} /\ d.modes = c.modes /\ d.disturbed = c.disturbed
        /\ d.at \in {"next", "modes"} /\ d.report[p] = state
        /\ \A q \in Path \ {p} : d.report[q] = c.report[q]
    <3>1. base \in CallState /\ p \in Path /\ d = Put(base, p, file[p], state)
      BY <1>4, <2>3
    <3> HIDE DEF d
    <3>2. /\ d \in CallState /\ Like(base, d) /\ Plans(base, d) /\ Places(base, d)
          /\ Marks(base, d, p, file[p], state)
      BY <3>1, PutFields
    <3> QED  BY <1>4, <2>3, <3>2 DEF Like, Plans, Places, Marks
  <2> HIDE DEF d
  <2>5. file' \in [Path -> State] /\ file'[p] = state /\ \A q \in Path \ {p} : file'[q] = file[q]
    BY <2>0, <1>2, <1>4, <1>5, <2>2
  <2>6. Reported(d, file', p)
    BY <2>0, <1>4, <1>5, <2>4, <2>5, NothingTyped DEF Reported, Agreed, Like
  <2>7. RestorerAgrees(d, file')
    BY <1>2, <1>3, <1>4, <2>4, <2>5, <2>6, OnePathAgrees DEF Installing
  <2> QED  BY <1>2, <1>3, <1>4, <2>2, <2>4, <2>5, <2>7, InstallWorks DEF Installing
<1>9. CASE IsDirectory(c.saved[p]) /\ ~IsDirectory(c.seen[p])
  <2> DEFINE base == LoopOver(Reports(deferred, p, "private"))
             d == Put(base, p, file[p], "private")
  <2>1. Puts(t, p, "private", base)
    BY <1>9 DEF Install, Installed
  <2>2. /\ file' = [file EXCEPT ![p] = "private"] /\ call' = [call EXCEPT ![t] = d]
        /\ UNCHANGED <<held, lock, outside>>
    BY <2>1, PutsPut
  <2>3. /\ base \in CallState /\ Like(c, base) /\ base.changed = c.changed
        /\ base.left = c.left \ {p} /\ base.modes = c.modes \cup {p} /\ base.disturbed = c.disturbed
        /\ base.at \in {"next", "modes"} /\ base.report[p] = "private"
        /\ \A q \in Path \ {p} : base.report[q] = c.report[q]
    <3> HIDE DEF deferred
    <3>1. Reports(deferred, p, "private") \in CallState  BY <1>4, <1>6, <1>7, ReportsFields
    <3> QED  BY <1>4, <1>6, <1>7, <3>1, ReportsFields, LoopOverFields DEF Like, Tracks, Plans
  <2> HIDE DEF base
  <2>4. /\ d \in CallState /\ Like(c, d)
        /\ d.changed = (IF file[p] # "private" THEN c.changed \cup {p} ELSE c.changed)
        /\ d.left = c.left \ {p} /\ d.modes = c.modes \cup {p} /\ d.disturbed = c.disturbed
        /\ d.at \in {"next", "modes"} /\ d.report[p] = "private"
        /\ \A q \in Path \ {p} : d.report[q] = c.report[q]
    <3>1. base \in CallState /\ p \in Path /\ d = Put(base, p, file[p], "private")
      BY <1>4, <2>3
    <3> HIDE DEF d
    <3>2. /\ d \in CallState /\ Like(base, d) /\ Plans(base, d) /\ Places(base, d)
          /\ Marks(base, d, p, file[p], "private")
      BY <3>1, PutFields
    <3> QED  BY <1>4, <2>3, <3>2 DEF Like, Plans, Places, Marks
  <2> HIDE DEF d
  <2>5. file' \in [Path -> State] /\ file'[p] = "private" /\ \A q \in Path \ {p} : file'[q] = file[q]
    BY <1>2, <1>4, <1>6, <2>2
  <2>6. file[p] # "private"
    BY <1>3, <1>6, <1>9
  <2>7. Reported(d, file', p) /\ Deferred(d, file', p)
    BY <1>4, <1>6, <1>9, <2>4, <2>5, <2>6, NothingTyped DEF Reported, Deferred, Agreed, Like
  <2>8. RestorerAgrees(d, file')
    BY <1>2, <1>3, <1>4, <2>4, <2>5, <2>7, OnePathAgrees DEF Installing
  <2> QED  BY <1>2, <1>3, <1>4, <2>2, <2>4, <2>5, <2>8, InstallWorks DEF Installing
<1>10. CASE IsDirectory(c.saved[p]) /\ IsDirectory(c.seen[p])
  <2> DEFINE d == LoopOver(deferred)
  <2>1. call' = [call EXCEPT ![t] = d] /\ UNCHANGED <<file, held, lock, outside>>
    BY <1>10 DEF Install
  <2>2. /\ d \in CallState /\ Like(c, d) /\ Tracks(c, d)
        /\ d.left = c.left \ {p} /\ d.modes = c.modes \cup {p} /\ d.disturbed = c.disturbed
        /\ d.at \in {"next", "modes"}
    <3> HIDE DEF deferred
    <3> QED  BY <1>7, LoopOverFields DEF Like, Tracks, Plans
  <2> HIDE DEF d
  <2>3. Reported(d, file, p) /\ Deferred(d, file, p)
    BY <1>4, <1>10, <2>2 DEF Reported, Deferred, Agreed, Untouched, Like, Tracks
  <2>4. RestorerAgrees(d, file)
    BY <1>2, <1>3, <1>4, <2>2, <2>3, OnePathAgrees DEF Installing, Tracks
  <2> QED  BY <1>2, <1>3, <1>4, <2>1, <2>2, <2>4, InstallWorks DEF Installing
<1> QED  BY <1>8, <1>9, <1>10

LEMMA InstallFailsKeeps ==
    ASSUME CheckpointInv, NEW t \in Restorer, InstallFails(t)
    PROVE  CheckpointInv'
<1> DEFINE c == call[t]
           p == c.on
<1>1. t \in Thread  BY DEF Thread
<1>2. c \in CallState /\ RestorerAgrees(c, file) /\ file \in [Path -> State]
  BY <1>1, Facts
<1>3. c.at = "ready"
  BY DEF InstallFails
<1>4. /\ p \in c.left /\ p \in Selected(c) /\ p \in Path /\ Untouched(c, p) /\ Agreed(c, p)
      /\ p \notin c.modes
      /\ p \notin c.disturbed => file[p] = c.undo[p]
  BY <1>2, <1>3 DEF RestorerAgrees, Installing, Selected
<1>5. PICK state \in Leavings(t) : Puts(t, p, state, Break(AfterFailure(t, c, p, state)))
  BY DEF InstallFails
<1>6. state \in State
  BY <1>2, <1>4, <1>5 DEF Leavings, State, Directory
<1> DEFINE after == AfterFailure(t, c, p, state)
           base == Break(after)
           d == Put(base, p, file[p], state)
<1>7. /\ file' = [file EXCEPT ![p] = state] /\ call' = [call EXCEPT ![t] = d]
      /\ UNCHANGED <<held, lock, outside>>
  BY <1>5, PutsPut
<1>8. /\ base \in CallState /\ Like(c, base) /\ base.changed = c.changed /\ Plans(c, base)
      /\ base.disturbed = c.disturbed /\ base.at = "report"
      /\ base.report[p] = (IF state # c.undo[p] THEN state ELSE c.report[p])
      /\ \A q \in Path \ {p} : base.report[q] = c.report[q]
  <2>1. /\ after \in CallState /\ Like(c, after) /\ Plans(c, after) /\ after.changed = c.changed
        /\ after.disturbed = c.disturbed
        /\ after.report[p] = (IF state # c.undo[p] THEN state ELSE c.report[p])
        /\ \A q \in Path \ {p} : after.report[q] = c.report[q]
    BY <1>2, <1>4, <1>6, AfterFailureFields
  <2> HIDE DEF after
  <2> QED  BY <2>1, BreakFields DEF Like, Tracks, Plans
<1> HIDE DEF base
<1>9. /\ d \in CallState /\ Like(c, d) /\ d.changed = (IF file[p] # state THEN c.changed \cup {p} ELSE c.changed)
      /\ Plans(c, d) /\ d.disturbed = c.disturbed /\ d.at = "report"
      /\ d.report[p] = (IF state # c.undo[p] THEN state ELSE c.report[p])
      /\ \A q \in Path \ {p} : d.report[q] = c.report[q]
  <2>1. base \in CallState /\ p \in Path /\ d = Put(base, p, file[p], state)
    BY <1>4, <1>8
  <2> HIDE DEF d
  <2>2. /\ d \in CallState /\ Like(base, d) /\ Plans(base, d) /\ Places(base, d)
        /\ Marks(base, d, p, file[p], state)
    BY <2>1, PutFields
  <2> QED  BY <1>4, <1>8, <2>2 DEF Like, Plans, Places, Marks
<1> HIDE DEF d
<1>10. file' \in [Path -> State] /\ file'[p] = state /\ \A q \in Path \ {p} : file'[q] = file[q]
  BY <1>2, <1>4, <1>6, <1>7
<1>11. Reported(d, file', p)
  BY <1>4, <1>6, <1>9, <1>10, NothingTyped DEF Reported, Agreed, Untouched, Like
<1>12. RestorerAgrees(d, file')
  BY <1>2, <1>3, <1>4, <1>9, <1>10, <1>11, OnePathAgrees DEF Installing, Plans
<1> QED  BY <1>2, <1>3, <1>4, <1>7, <1>9, <1>10, <1>12, InstallWorks DEF Installing

LEMMA ModeFields ==
    ASSUME NEW c \in CallState, NEW p \in Path
    PROVE  LET d == [c EXCEPT !.modes = @ \ {p}]
           IN  /\ d \in CallState /\ Like(c, d) /\ Tracks(c, d) /\ d.at = c.at
               /\ d.left = c.left /\ d.modes = c.modes \ {p} /\ d.disturbed = c.disturbed
<1>1. c.modes \ {p} \in SUBSET Path
  BY DEF CallState
<1> QED  BY <1>1 DEF CallState, Like, Tracks

LEMMA SetModeKeeps ==
    ASSUME CheckpointInv, NEW t \in Restorer, SetMode(t) \/ SetModeFails(t)
    PROVE  CheckpointInv'
<1> DEFINE c == call[t]
           less(p) == [c EXCEPT !.modes = @ \ {p}]
<1>1. t \in Thread  BY DEF Thread
<1>2. c \in CallState /\ RestorerAgrees(c, file) /\ file \in [Path -> State]
  BY <1>1, Facts
<1>3. c.at = "modes"
  BY DEF SetMode, SetModeFails
<1>4. PICK p \in c.modes :
         \/ IsDirectory(file[p]) /\ Puts(t, p, less(p).saved[p], Reports(less(p), p, less(p).saved[p]))
         \/ ~IsDirectory(file[p]) /\ Puts(t, p, file[p], Break(AfterFailure(t, less(p), p, file[p])))
         \/ Puts(t, p, file[p], Break(AfterFailure(t, c, p, file[p])))
  BY DEF SetMode, SetModeFails
<1>5. /\ p \in Selected(c) /\ p \in Path /\ p \notin c.left /\ Deferred(c, file, p) /\ Reported(c, file, p)
      /\ Agreed(c, p) /\ IsDirectory(c.saved[p]) /\ file[p] \in State
  BY <1>2, <1>3 DEF RestorerAgrees, Installing, Selected, Deferred
<1>6. c.saved[p] \in State /\ IsDirectory("private")
  BY <1>2, <1>5, NothingTyped DEF Selected, CallState, IsDirectory, Directory
<1>7. less(p) \in CallState /\ Like(c, less(p)) /\ Tracks(c, less(p)) /\ less(p).at = c.at
      /\ less(p).left = c.left /\ less(p).modes = c.modes \ {p} /\ less(p).disturbed = c.disturbed
  BY <1>2, <1>5, ModeFields
<1>8. less(p).saved[p] = c.saved[p]
  BY <1>7 DEF Like
<1> DEFINE new == less(p)
<1> HIDE DEF less
<1>9. CASE IsDirectory(file[p]) /\ Puts(t, p, c.saved[p], Reports(new, p, c.saved[p]))
  <2>0. PICK state : state = c.saved[p]
    OBVIOUS
  <2> DEFINE base == Reports(new, p, state)
             d == Put(base, p, file[p], state)
  <2>1. /\ file' = [file EXCEPT ![p] = state] /\ call' = [call EXCEPT ![t] = d]
        /\ UNCHANGED <<held, lock, outside>>
    BY <1>9, <2>0, PutsPut
  <2>2. /\ base \in CallState /\ Like(c, base) /\ base.changed = c.changed
        /\ base.left = c.left /\ base.modes = c.modes \ {p} /\ base.disturbed = c.disturbed
        /\ base.at = "modes" /\ base.report[p] = state
        /\ \A q \in Path \ {p} : base.report[q] = c.report[q]
    BY <2>0, <1>3, <1>5, <1>6, <1>7, ReportsFields DEF Like, Tracks, Plans
  <2> HIDE DEF base
  <2>3. /\ d \in CallState /\ Like(c, d)
        /\ d.changed = (IF file[p] # state THEN c.changed \cup {p} ELSE c.changed)
        /\ d.left = c.left /\ d.modes = c.modes \ {p} /\ d.disturbed = c.disturbed
        /\ d.at = "modes" /\ d.report[p] = state
        /\ \A q \in Path \ {p} : d.report[q] = c.report[q]
    <3>1. base \in CallState /\ p \in Path /\ d = Put(base, p, file[p], state)
      BY <1>5, <2>2
    <3> HIDE DEF d
    <3>2. /\ d \in CallState /\ Like(base, d) /\ Plans(base, d) /\ Places(base, d)
          /\ Marks(base, d, p, file[p], state)
      BY <3>1, PutFields
    <3> QED  BY <1>5, <2>2, <3>2 DEF Like, Plans, Places, Marks
  <2> HIDE DEF d
  <2>4. file' \in [Path -> State] /\ file'[p] = state /\ \A q \in Path \ {p} : file'[q] = file[q]
    BY <2>0, <1>2, <1>5, <1>6, <2>1
  <2>5. Reported(d, file', p)
    BY <2>0, <1>5, <1>6, <2>3, <2>4, NothingTyped DEF Reported, Deferred, Agreed, Like
  <2>6. RestorerAgrees(d, file')
    BY <1>2, <1>3, <1>5, <2>3, <2>4, <2>5, OnePathAgrees DEF Installing
  <2> QED  BY <1>2, <1>3, <1>5, <2>1, <2>3, <2>4, <2>6, InstallWorks DEF Installing
<1>10. ASSUME NEW less1 \in CallState, Puts(t, p, file[p], Break(AfterFailure(t, less1, p, file[p]))),
              Like(c, less1), Tracks(c, less1), less1.left = c.left, less1.disturbed = c.disturbed,
              less1.modes \in {c.modes, c.modes \ {p}}, less1 = c \/ ~IsDirectory(file[p])
       PROVE  CheckpointInv'
  <2>0. PICK state : state = file[p]
    OBVIOUS
  <2> DEFINE after == AfterFailure(t, less1, p, state)
             base == Break(after)
             d == Put(base, p, state, state)
  <2>1. /\ file' = [file EXCEPT ![p] = state] /\ call' = [call EXCEPT ![t] = d]
        /\ UNCHANGED <<held, lock, outside>>
    BY <1>10, <2>0, PutsPut
  <2>2. /\ base \in CallState /\ Like(c, base) /\ base.changed = c.changed /\ Plans(less1, base)
        /\ base.disturbed = c.disturbed /\ base.at = "report"
        /\ base.report[p] = (IF state # c.undo[p] THEN state ELSE c.report[p])
        /\ \A q \in Path \ {p} : base.report[q] = c.report[q]
    <3>1. /\ after \in CallState /\ Like(c, after) /\ Plans(less1, after) /\ after.changed = c.changed
          /\ after.disturbed = c.disturbed
          /\ after.report[p] = (IF state # c.undo[p] THEN state ELSE c.report[p])
          /\ \A q \in Path \ {p} : after.report[q] = c.report[q]
      BY <2>0, <1>5, <1>10, AfterFailureFields DEF Like, Tracks
    <3> HIDE DEF after
    <3> QED  BY <3>1, BreakFields DEF Like, Tracks, Plans
  <2> HIDE DEF base
  <2>3. /\ d \in CallState /\ Like(c, d) /\ d.changed = c.changed
        /\ d.left = c.left /\ d.modes \in {c.modes, c.modes \ {p}} /\ d.disturbed = c.disturbed /\ d.at = "report"
        /\ d.report[p] = (IF state # c.undo[p] THEN state ELSE c.report[p])
        /\ \A q \in Path \ {p} : d.report[q] = c.report[q]
    <3>1. base \in CallState /\ p \in Path /\ d = Put(base, p, state, state)
      BY <1>5, <1>10, <2>2
    <3> HIDE DEF d
    <3>2. /\ d \in CallState /\ Like(base, d) /\ Plans(base, d) /\ Places(base, d)
          /\ Marks(base, d, p, state, state)
      BY <3>1, PutFields
    <3> QED  BY <1>5, <1>10, <2>2, <3>2 DEF Like, Plans, Places, Marks
  <2> HIDE DEF d
  <2>4. file' = file
    BY <2>0, <1>2, <2>1
  <2>5. Reported(d, file, p)
    BY <2>0, <1>5, <1>6, <1>10, <2>3, NothingTyped DEF Reported, Deferred, Agreed, Untouched, Like
  <2>6. RestorerAgrees(d, file)
    BY <1>2, <1>3, <1>5, <2>3, <2>5, OnePathAgrees DEF Installing
  <2> QED  BY <1>2, <1>3, <1>5, <2>1, <2>3, <2>4, <2>6, InstallWorks DEF Installing
<1>11. CASE ~IsDirectory(file[p]) /\ Puts(t, p, file[p], Break(AfterFailure(t, new, p, file[p])))
  BY <1>7, <1>10, <1>11
<1>12. CASE Puts(t, p, file[p], Break(AfterFailure(t, c, p, file[p])))
  BY <1>2, <1>10, <1>12 DEF Like, Tracks
<1> QED  BY <1>4, <1>8, <1>9, <1>11, <1>12

-----------------------------------------------------------------------------
(* Beginning, looking and giving up. *)

LEMMA CallBegins ==
    ASSUME CheckpointInv, NEW t \in Thread, NEW new \in CallState,
           call' = [call EXCEPT ![t] = new], UNCHANGED <<file, held, lock, outside>>,
           new.at = "hold", new.lease = {}, new.want # {}, Agrees(t, new, file)
    PROVE  CheckpointInv'
<1>1. /\ call \in [Thread -> CallState] /\ file' \in [Path -> State]
      /\ held' \in [Process -> SUBSET Path] /\ lock' \in [Path -> Process \cup {NoProcess}]
  BY CheckpointTypes DEF CheckpointInv
<1>2. HasOf(new) = {} /\ LocksOf(new) = {}
  BY DEF HasOf, LocksOf
<1>3. HeldSound' /\ LockSound'
  BY <1>1, <1>2, HeldKept, LockKept DEF CheckpointInv
<1>4. LeaseOrdered(new)
  BY DEF LeaseOrdered, Taking, Whole, Leaving
<1>5. Within(call[t], file, file')
  BY DEF Within
<1> QED  BY <1>1, <1>3, <1>4, <1>5, CallMoves

LEMMA LoadKeeps ==
    ASSUME CheckpointInv, NEW t \in Restorer, Load(t)
    PROVE  CheckpointInv'
<1>1. PICK snapshot \in Saved : \E expected \in {Nothing, On({p \in Path : snapshot[p] # NoState}, file)} :
         LET names == {p \in Path : snapshot[p] # NoState}
             narrow == \A p \in names : ~IsDirectory(snapshot[p]) /\ ~IsDirectory(file[p])
         IN  call' = [call EXCEPT ![t] =
                        [New EXCEPT !.at = "hold", !.saved = snapshot, !.expected = expected,
                                    !.narrow = narrow, !.want = IF narrow THEN names ELSE Path]]
  BY DEF Load
<1> DEFINE names == {p \in Path : snapshot[p] # NoState}
<1>2. PICK expected \in {Nothing, On(names, file)} : \E narrow \in BOOLEAN, want \in {names, Path} :
         call' = [call EXCEPT ![t] = [New EXCEPT !.at = "hold", !.saved = snapshot, !.expected = expected,
                                                 !.narrow = narrow, !.want = want]]
  BY <1>1
<1>3. PICK narrow \in BOOLEAN, want \in {names, Path} :
         call' = [call EXCEPT ![t] = [New EXCEPT !.at = "hold", !.saved = snapshot, !.expected = expected,
                                                 !.narrow = narrow, !.want = want]]
  BY <1>2
<1>4. t \in Thread /\ file \in [Path -> State]
  BY Facts DEF Thread, CheckpointInv, CheckpointTypeOK
<1>5. snapshot \in States /\ snapshot # Nothing
  BY CheckpointsAssumption
<1>6. names # {} /\ names \subseteq want /\ want \in SUBSET Path
  BY <1>5 DEF States, Nothing
<1>7. expected \in States
  BY <1>4, NothingTyped DEF On, States
<1> DEFINE new == [New EXCEPT !.at = "hold", !.saved = snapshot, !.expected = expected,
                              !.narrow = narrow, !.want = want]
<1>8. /\ new \in CallState /\ Fresh(new) /\ new.at = "hold" /\ new.lease = {} /\ new.want = want
      /\ new.saved = snapshot
  BY <1>5, <1>6, <1>7, NewTyped DEF CallState, Fresh, New
<1>9. call' = [call EXCEPT ![t] = new] /\ UNCHANGED <<file, held, lock, outside>>
  BY <1>3 DEF Load
<1> HIDE DEF new
<1>10. Selected(new) \subseteq want
  BY <1>6, <1>8 DEF Selected
<1>11. Agrees(t, new, file)
  BY <1>8, <1>10 DEF Agrees, RestorerAgrees, Installing, Taking, Whole, Leaving
<1> QED  BY <1>4, <1>6, <1>8, <1>9, <1>11, CallBegins

LEMMA BeginEditKeeps ==
    ASSUME CheckpointInv, NEW t \in Editor, BeginEdit(t)
    PROVE  CheckpointInv'
<1>1. PICK p \in Path : call' = [call EXCEPT ![t] = [New EXCEPT !.at = "hold", !.want = {p}, !.on = p]]
  BY DEF BeginEdit
<1>2. t \in Thread /\ t \notin Restorer
  BY CheckpointsAssumption DEF Thread
<1> DEFINE new == [New EXCEPT !.at = "hold", !.want = {p}, !.on = p]
<1>3. /\ new \in CallState /\ Fresh(new) /\ new.at = "hold" /\ new.lease = {} /\ new.want = {p}
      /\ new.on = p /\ new.expected = Nothing /\ new.changed = {}
  BY NewTyped DEF CallState, Fresh, New
<1>4. call' = [call EXCEPT ![t] = new] /\ UNCHANGED <<file, held, lock, outside>>
  BY <1>1 DEF BeginEdit
<1> HIDE DEF new
<1>5. Agrees(t, new, file)
  BY <1>2, <1>3 DEF Agrees, EditorAgrees, Editing, Taking, Whole, Leaving
<1> QED  BY <1>2, <1>3, <1>4, <1>5, CallBegins

LEMMA GivesUpKeeps ==
    ASSUME CheckpointInv, NEW t \in Thread,
           call' = [call EXCEPT ![t] = Dropping(call[t], "done")],
           UNCHANGED <<file, held, lock, outside>>, call[t].at \in {"hold"} \cup Whole
    PROVE  CheckpointInv'
<1>1. call[t] \in CallState /\ file' \in [Path -> State] /\ Within(call[t], file, file')
  BY Facts DEF Within
<1> QED  BY <1>1, CallGivesUp

LEMMA InspectKeeps ==
    ASSUME CheckpointInv, NEW t \in Restorer, Inspect(t)
    PROVE  CheckpointInv'
<1> DEFINE c == call[t]
           seen == Seen(t)
           plan == {p \in Selection(t) : c.saved[p] # seen[p]}
<1>1. t \in Thread /\ c.at = "look" /\ UNCHANGED <<file, held, lock, outside>>
  BY DEF Thread, Inspect
<1>2. c \in CallState /\ LeaseOrdered(c) /\ RestorerAgrees(c, file) /\ file \in [Path -> State]
  BY <1>1, Facts
<1>3. CASE c.narrow /\ \E p \in Selection(t) : IsDirectory(seen[p])
  <2> DEFINE wide == [c EXCEPT !.want = Path, !.narrow = FALSE]
  <2>1. call' = [call EXCEPT ![t] = Dropping(wide, "hold")]
    BY <1>3 DEF Inspect, Upgrade
  <2>2. wide \in CallState /\ wide.lease = c.lease /\ wide.want = Path
    BY <1>2 DEF CallState
  <2>3. Path # {}
    BY <1>3 DEF Selection
  <2>4. Within(call[t], file, file') /\ call[t].at \in Whole
    BY <1>1 DEF Within, Whole
  <2> HIDE DEF wide
  <2> QED  BY <1>1, <1>2, <2>1, <2>2, <2>3, <2>4, CallGivesUp
<1>4. CASE call' = [call EXCEPT ![t] = Dropping(c, "done")]
  BY <1>1, <1>4, GivesUpKeeps DEF Whole
<1>5. CASE call' = [call EXCEPT ![t] = [c EXCEPT !.at = "capture", !.seen = seen, !.left = plan, !.expected = seen]]
  <2>1. seen \in States /\ plan \in SUBSET Path
    BY <1>2, NothingTyped DEF Seen, On, States, Selection
  <2>2. plan \subseteq Selected(c) /\ \A p \in plan : seen[p] # c.saved[p]
    BY DEF Selected, Selection
  <2> DEFINE new == [c EXCEPT !.at = "capture", !.seen = seen, !.left = plan, !.expected = seen]
  <2> HIDE DEF seen, plan
  <2>3. /\ new \in CallState /\ new.at = "capture" /\ new.seen = seen /\ new.left = plan
        /\ new.expected = seen /\ new.lease = c.lease /\ new.want = c.want /\ new.saved = c.saved
        /\ new.modes = c.modes /\ new.changed = c.changed /\ new.report = c.report
    BY <1>2, <2>1 DEF CallState
  <2>4. call' = [call EXCEPT ![t] = new]
    BY <1>5
  <2> HIDE DEF new
  <2>5. Selected(new) = Selected(c)
    BY <2>3 DEF Selected
  <2>6. Fresh(c) /\ Selected(c) \subseteq c.want
    BY <1>1, <1>2 DEF RestorerAgrees, Installing, Whole
  <2>7. Agrees(t, new, file)
    BY <2>2, <2>3, <2>5, <2>6 DEF Agrees, RestorerAgrees, Fresh, Installing, Leaving
  <2>8. Within(call[t], file, file') /\ call[t].at \in Whole /\ new.at \in Whole
    BY <1>1, <2>3 DEF Within, Whole
  <2> QED  BY <1>1, <1>2, <2>3, <2>4, <2>7, <2>8, CallWorks
<1> QED  BY <1>3, <1>4, <1>5 DEF Inspect

LEMMA CaptureUndoKeeps ==
    ASSUME CheckpointInv, NEW t \in Restorer, CaptureUndo(t)
    PROVE  CheckpointInv'
<1> DEFINE c == call[t]
           undo == Undo(t)
           base == [c EXCEPT !.at = "next", !.undo = undo]
           new == Looks(base, c.left)
<1>1. t \in Thread /\ c.at = "capture" /\ UNCHANGED <<file, held, lock, outside>>
  BY DEF Thread, CaptureUndo
<1>2. c \in CallState /\ RestorerAgrees(c, file) /\ file \in [Path -> State]
  BY <1>1, Facts
<1>3. CASE call' = [call EXCEPT ![t] = Dropping(c, "done")]
  BY <1>1, <1>3, GivesUpKeeps DEF Whole
<1>4. CASE call' = [call EXCEPT ![t] = new] /\ \A p \in c.left : undo[p] = c.seen[p]
  <2>1. undo \in States /\ \A p \in c.left : undo[p] \in State
    BY <1>2, NothingTyped DEF Undo, On, States, CallState
  <2> HIDE DEF undo
  <2>2. /\ base \in CallState /\ base.at = "next" /\ base.undo = undo
        /\ base.lease = c.lease /\ base.want = c.want /\ base.saved = c.saved /\ base.seen = c.seen
        /\ base.expected = c.expected /\ base.left = c.left /\ base.modes = c.modes
        /\ base.changed = c.changed /\ base.report = c.report
    BY <1>2, <2>1 DEF CallState
  <2> HIDE DEF base
  <2>3. /\ new \in CallState /\ Like(base, new) /\ Tracks(base, new) /\ Plans(base, new) /\ new.at = "next"
    BY <2>2, LooksFields
  <2>4. call' = [call EXCEPT ![t] = new]
    BY <1>4
  <2> HIDE DEF new
  <2>5. /\ c.left \subseteq Selected(c) /\ c.modes = {} /\ c.changed = {} /\ c.report = Nothing
        /\ \A p \in c.left : c.expected[p] = c.seen[p] /\ c.seen[p] # c.saved[p]
        /\ Selected(c) \subseteq c.want
    BY <1>1, <1>2 DEF RestorerAgrees, Whole
  <2>6. Selected(new) = Selected(c)
    BY <2>2, <2>3 DEF Selected, Like
  <2>7. \A p \in Path : Reported(new, file, p)
    BY <2>2, <2>3, <2>5 DEF Reported, Tracks, Nothing
  <2>8. \A p \in new.left : Untouched(new, p) /\ Agreed(new, p)
    BY <1>2, <1>4, <2>1, <2>2, <2>3, <2>5, CheckpointsAssumption
       DEF Untouched, Agreed, Like, Tracks, Plans, Nothing, CallState
  <2>9. Agrees(t, new, file)
    BY <2>2, <2>3, <2>5, <2>6, <2>7, <2>8
       DEF Agrees, RestorerAgrees, Installing, Leaving, Like, Tracks, Plans
  <2>10. Within(call[t], file, file') /\ call[t].at \in Whole /\ new.at \in Whole
         /\ new.lease = c.lease /\ new.want = c.want
    BY <1>1, <2>2, <2>3 DEF Within, Whole, Like
  <2> QED  BY <1>1, <1>2, <2>3, <2>4, <2>9, <2>10, CallWorks
<1> QED  BY <1>3, <1>4 DEF CaptureUndo

-----------------------------------------------------------------------------
(* The file tools. *)

\* What a file tool does not change while it works.
Edits(c, d) == d.want = c.want /\ d.lease = c.lease /\ d.on = c.on /\ d.expected = c.expected /\ d.changed = c.changed

LEMMA EditorWorks ==
    ASSUME CheckpointInv, NEW t \in Editor, NEW new \in CallState,
           call' = [call EXCEPT ![t] = new], UNCHANGED <<file, held, lock, outside>>,
           call[t].at \in {"look", "capture", "next"}, Edits(call[t], new),
           new.at \in Editing,
           new.on \notin new.disturbed =>
              /\ new.at # "next" => new.seen[new.on] \in {NoState, file[new.on]}
              /\ new.at # "capture" => new.undo[new.on] \in {NoState, file[new.on]}
    PROVE  CheckpointInv'
<1>1. t \in Thread /\ t \notin Restorer
  BY CheckpointsAssumption DEF Thread
<1>2. call[t] \in CallState /\ EditorAgrees(call[t], file) /\ file' \in [Path -> State]
  BY <1>1, Facts
<1>3. Agrees(t, new, file')
  BY <1>1, <1>2 DEF Agrees, EditorAgrees, Edits, Editing, Whole, Taking, Leaving
<1>4. Within(call[t], file, file') /\ call[t].at \in Whole /\ new.at \in Whole
  BY DEF Within, Whole, Editing
<1> QED  BY <1>1, <1>2, <1>3, <1>4, CallWorks DEF Edits

LEMMA ReadTextKeeps ==
    ASSUME CheckpointInv, NEW t \in Editor, ReadText(t)
    PROVE  CheckpointInv'
<1> DEFINE c == call[t]
<1>1. t \in Thread /\ t \notin Restorer /\ c.at = "look" /\ UNCHANGED <<file, held, lock, outside>>
  BY CheckpointsAssumption DEF Thread, ReadText
<1>2. c \in CallState /\ EditorAgrees(c, file) /\ file \in [Path -> State]
  BY <1>1, Facts
<1>3. Fresh(c) /\ c.on \in Path
  BY <1>1, <1>2 DEF EditorAgrees, Editing, Whole
<1>4. CASE call' = [call EXCEPT ![t] = Dropping(c, "done")]
  BY <1>1, <1>4, GivesUpKeeps DEF Whole
<1>5. ASSUME NEW seen \in States, seen[c.on] \in {NoState, file[c.on]},
             call' = [call EXCEPT ![t] = [c EXCEPT !.at = "capture", !.seen = seen]]
      PROVE  CheckpointInv'
  <2> DEFINE new == [c EXCEPT !.at = "capture", !.seen = seen]
  <2>1. new \in CallState /\ Edits(c, new) /\ new.at = "capture" /\ new.seen = seen /\ new.on = c.on
    BY <1>2 DEF CallState, Edits
  <2>2. call' = [call EXCEPT ![t] = new]
    BY <1>5
  <2> HIDE DEF new
  <2> QED  BY <1>1, <1>5, <2>1, <2>2, EditorWorks DEF Editing
<1>6. On({c.on}, file) \in States /\ On({c.on}, file)[c.on] = file[c.on]
  BY <1>2, <1>3, NothingTyped DEF On, States
<1>7. c.seen \in States /\ c.seen[c.on] = NoState
  BY <1>2, <1>3 DEF CallState, Fresh, Nothing
<1>8. CASE call' = [call EXCEPT ![t].at = "capture"]
  <2>1. [c EXCEPT !.at = "capture", !.seen = c.seen] = [c EXCEPT !.at = "capture"]
    BY <1>2 DEF CallState
  <2> QED  BY <1>5, <1>7, <1>8, <2>1
<1>9. CASE call' = [call EXCEPT ![t] = [c EXCEPT !.at = "capture", !.seen = On({c.on}, file)]]
  BY <1>5, <1>6, <1>9
<1> QED  BY <1>4, <1>8, <1>9 DEF ReadText

LEMMA CaptureKeeps ==
    ASSUME CheckpointInv, NEW t \in Editor, Capture(t)
    PROVE  CheckpointInv'
<1> DEFINE c == call[t]
           p == c.on
<1>1. t \in Thread /\ t \notin Restorer /\ c.at = "capture" /\ UNCHANGED <<file, held, lock, outside>>
  BY CheckpointsAssumption DEF Thread, Capture
<1>2. c \in CallState /\ EditorAgrees(c, file) /\ file \in [Path -> State]
  BY <1>1, Facts
<1>3. p \in Path
  BY <1>1, <1>2 DEF EditorAgrees, Whole
<1>4. PICK undo \in {On({p}, file), Nothing} :
         call' = [call EXCEPT ![t] = Looks([c EXCEPT !.at = "next", !.undo = undo], {p})]
  BY DEF Capture
<1>5. undo \in States /\ undo[p] \in {NoState, file[p]}
  BY <1>2, <1>3, NothingTyped DEF On, States, Nothing
<1> DEFINE base == [c EXCEPT !.at = "next", !.undo = undo]
           new == Looks(base, {p})
<1>6. base \in CallState /\ Edits(c, base) /\ base.at = "next" /\ base.undo = undo
  BY <1>2, <1>5 DEF CallState, Edits
<1> HIDE DEF base
<1>7. new \in CallState /\ Like(base, new) /\ Tracks(base, new) /\ new.at = "next" /\ new.on = base.on
  BY <1>6, LooksFields
<1>8. call' = [call EXCEPT ![t] = new]
  BY <1>4 DEF base
<1> HIDE DEF new
<1>9. Edits(c, new) /\ new.undo[new.on] \in {NoState, file[new.on]} /\ new.at \in Editing
  BY <1>5, <1>6, <1>7 DEF Edits, Like, Tracks, Editing
<1> QED  BY <1>1, <1>7, <1>8, <1>9, EditorWorks

LEMMA RecheckKeeps ==
    ASSUME CheckpointInv, NEW t \in Editor, Recheck(t)
    PROVE  CheckpointInv'
<1> DEFINE c == call[t]
           p == c.on
           looks == IF c.seen[p] # NoState /\ c.undo[p] \in {NoState, file[p]} THEN {p} ELSE {}
           base == [c EXCEPT !.at = "ready"]
           new == Looks(base, looks)
<1>1. t \in Thread /\ t \notin Restorer /\ c.at = "next" /\ UNCHANGED <<file, held, lock, outside>>
  BY CheckpointsAssumption DEF Thread, Recheck
<1>2. c \in CallState /\ EditorAgrees(c, file)
  BY <1>1, Facts
<1>3. CASE call' = [call EXCEPT ![t] = Dropping(c, "done")]
  BY <1>1, <1>3, GivesUpKeeps DEF Whole
<1>4. CASE Unchanged(t, p)
  <2>1. p \notin c.disturbed => c.undo[p] \in {NoState, file[p]}
    BY <1>1, <1>2 DEF EditorAgrees
  <2>2. /\ base \in CallState /\ Edits(c, base) /\ base.at = "ready" /\ base.undo = c.undo
        /\ base.seen = c.seen /\ base.disturbed = c.disturbed
    BY <1>2 DEF CallState, Edits
  <2>3. c.seen[p] \in {NoState, file[p]}
    BY <1>4 DEF Unchanged
  <2>4. call' = [call EXCEPT ![t] = new]
    BY <1>4, <2>2 DEF Recheck
  <2> HIDE DEF base
  <2>5. /\ new \in CallState /\ Like(base, new) /\ Tracks(base, new) /\ new.at = "ready" /\ new.on = base.on
        /\ new.disturbed = base.disturbed \ looks
    <3> HIDE DEF looks
    <3> QED  BY <2>2, LooksFields
  <2> HIDE DEF new
  <2>6. Edits(c, new) /\ new.at \in Editing /\ new.on = p /\ new.seen = c.seen /\ new.undo = c.undo
    BY <2>2, <2>5 DEF Edits, Like, Tracks, Editing
  <2>7. p \notin new.disturbed => c.undo[p] \in {NoState, file[p]}
    BY <2>1, <2>2, <2>5
  <2> QED  BY <1>1, <2>3, <2>4, <2>5, <2>6, <2>7, EditorWorks
<1> QED  BY <1>3, <1>4 DEF Recheck

LEMMA WriteKeeps ==
    ASSUME CheckpointInv, NEW t \in Editor, Write(t)
    PROVE  CheckpointInv'
<1> DEFINE c == call[t]
<1>1. t \in Thread /\ t \notin Restorer /\ c.at = "ready" /\ UNCHANGED <<held, lock, outside>>
  BY CheckpointsAssumption DEF Thread, Write
<1>2. c \in CallState /\ EditorAgrees(c, file) /\ file \in [Path -> State] /\ LeaseOrdered(c)
  BY <1>1, Facts
<1>3. PICK state \in File : file' = [file EXCEPT ![c.on] = state]
  BY DEF Write
<1>4. c.on \in c.lease /\ state \in State
  BY <1>1, <1>2 DEF EditorAgrees, LeaseOrdered, Whole, State
<1>5. file' \in [Path -> State] /\ Within(call[t], file, file')
  BY <1>1, <1>2, <1>3, <1>4 DEF Within, Whole
<1>6. call' = [call EXCEPT ![t] = Dropping(c, "done")]
  BY DEF Write
<1> QED  BY <1>1, <1>2, <1>5, <1>6, CallGivesUp DEF Whole

-----------------------------------------------------------------------------
(* Other programs write. *)

LEMMA DisturbedFields ==
    ASSUME NEW c \in CallState, NEW p \in Path
    PROVE  LET d == [c EXCEPT !.disturbed = @ \cup {p}]
           IN  /\ d \in CallState /\ Like(c, d) /\ Tracks(c, d) /\ Plans(c, d)
               /\ d.at = c.at /\ d.on = c.on /\ d.disturbed = c.disturbed \cup {p}
<1>1. c.disturbed \cup {p} \in SUBSET Path
  BY DEF CallState
<1> QED  BY <1>1 DEF CallState, Like, Tracks, Plans

LEMMA DisturbedAgrees ==
    ASSUME NEW t \in Thread, NEW c \in CallState, NEW d \in CallState, NEW f, NEW g, NEW p \in Path,
           Agrees(t, c, f), c.at \in Whole \ {"look"}, \A q \in Path \ {p} : g[q] = f[q],
           Like(c, d), Tracks(c, d), Plans(c, d), d.at = c.at, d.on = c.on,
           d.disturbed = c.disturbed \cup {p}
    PROVE  Agrees(t, d, g)
<1>1. /\ Selected(d) = Selected(c) /\ c.left \subseteq Path /\ c.modes \subseteq Path
      /\ \A q \in Path : Agreed(d, q) <=> Agreed(c, q)
      /\ \A q \in Path : Untouched(d, q) <=> Untouched(c, q)
  BY DEF Selected, CallState, Agreed, Untouched, Like, Tracks
<1>2. ASSUME t \in Restorer PROVE Agrees(t, d, g)
  <2>0. RestorerAgrees(c, f)
    BY <1>2 DEF Agrees
  <2>1. ASSUME NEW q \in Path, Reported(c, f, q) PROVE Reported(d, g, q)
    BY <2>1 DEF Reported, Like, Tracks
  <2>2. ASSUME NEW q \in Path, Deferred(c, f, q) PROVE Deferred(d, g, q)
    BY <1>1, <2>2 DEF Deferred, Like, Tracks
  <2>3. c.at \in Installing => \A q \in Path : Reported(d, g, q)
    BY <2>0, <2>1 DEF RestorerAgrees
  <2>4. c.at \in {"next", "ready", "modes"} => \A q \in c.modes : Deferred(d, g, q)
    BY <1>1, <2>0, <2>2 DEF RestorerAgrees
  <2>5. c.at = "ready" => c.on \in c.left /\ (c.on \notin d.disturbed => g[c.on] = c.undo[c.on])
    BY <1>1, <2>0 DEF RestorerAgrees
  <2>6. c.at \in {"next", "ready"} => \A q \in c.left : Untouched(d, q) /\ Agreed(d, q)
    BY <1>1, <2>0 DEF RestorerAgrees
  <2>7. c.at = "capture" => \A q \in c.left : d.expected[q] = d.seen[q] /\ d.seen[q] # d.saved[q]
    BY <2>0 DEF RestorerAgrees, Like
  <2> QED  BY <1>1, <1>2, <2>0, <2>3, <2>4, <2>5, <2>6, <2>7
           DEF Agrees, RestorerAgrees, Like, Tracks, Plans, Installing, Whole, Taking, Leaving
<1>3. ASSUME t \notin Restorer PROVE Agrees(t, d, g)
  <2>1. EditorAgrees(c, f) /\ c.on \in Path /\ c.want = {c.on} /\ c.at \in Editing
    BY <1>3 DEF Agrees, EditorAgrees, Whole, Editing
  <2> QED  BY <1>3, <2>1 DEF Agrees, EditorAgrees, Like, Tracks, Editing, Whole, Taking, Leaving
<1> QED  BY <1>2, <1>3

\* A call that has not looked yet knows nothing of the workspace.
LEMMA BlindAgrees ==
    ASSUME NEW t \in Thread, NEW c, NEW f, NEW g, Agrees(t, c, f), c.at \notin Whole \ {"look"}
    PROVE  Agrees(t, c, g)
BY DEF Agrees, RestorerAgrees, EditorAgrees, Whole, Installing, Editing

LEMMA OutsideKeeps ==
    ASSUME CheckpointInv, Outside
    PROVE  CheckpointInv'
<1>1. PICK p \in Path, state \in Foreign :
         /\ file' = [file EXCEPT ![p] = state]
         /\ call' = [t \in Thread |-> IF Looked(t) THEN [call[t] EXCEPT !.disturbed = @ \cup {p}]
                                      ELSE call[t]]
  BY DEF Outside
<1>2. UNCHANGED <<held, lock>> /\ outside < MaxOutside /\ outside' = outside + 1
  BY DEF Outside
<1>3. /\ file \in [Path -> State] /\ call \in [Thread -> CallState] /\ outside \in 0..MaxOutside
      /\ held \in [Process -> SUBSET Path] /\ lock \in [Path -> Process \cup {NoProcess}]
      /\ HeldSound /\ LockSound
  BY CheckpointTypes DEF CheckpointInv
<1>4. file' \in [Path -> State] /\ \A q \in Path \ {p} : file'[q] = file[q]
  BY <1>1, <1>3, CheckpointsAssumption
<1>5. ASSUME NEW t \in Thread
      PROVE  /\ call'[t] \in CallState /\ LeaseOrdered(call'[t]) /\ Agrees(t, call'[t], file')
             /\ call'[t].at = call[t].at /\ call'[t].lease = call[t].lease /\ call'[t].want = call[t].want
  <2>1. call[t] \in CallState /\ LeaseOrdered(call[t]) /\ Agrees(t, call[t], file)
    BY Facts
  <2>2. CASE Looked(t)
    <3> DEFINE d == [call[t] EXCEPT !.disturbed = @ \cup {p}]
    <3>1. call'[t] = d
      BY <1>1, <2>2
    <3>2. /\ d \in CallState /\ Like(call[t], d) /\ Tracks(call[t], d) /\ Plans(call[t], d)
          /\ d.at = call[t].at /\ d.on = call[t].on /\ d.disturbed = call[t].disturbed \cup {p}
      BY <2>1, DisturbedFields
    <3> HIDE DEF d
    <3>3. call[t].at \in Whole \ {"look"}
      BY <2>2 DEF Looked, Whole
    <3>4. Agrees(t, d, file')
      BY <1>4, <2>1, <3>2, <3>3, DisturbedAgrees
    <3> QED  BY <2>1, <3>1, <3>2, <3>4 DEF LeaseOrdered, Like
  <2>3. CASE ~Looked(t)
    <3>1. call'[t] = call[t] /\ call[t].at \notin Whole \ {"look"}
      BY <1>1, <2>3 DEF Looked, Whole
    <3> QED  BY <2>1, <3>1, BlindAgrees
  <2> QED  BY <2>2, <2>3
<1>6. call' \in [Thread -> CallState] /\ outside' \in 0..MaxOutside
  BY <1>1, <1>2, <1>3, <1>5, CheckpointsAssumption
<1>7. CheckpointTypeOK'
  BY <1>2, <1>3, <1>4, <1>6 DEF CheckpointTypeOK, CallState
<1>8. Ordered'
  BY <1>5 DEF Ordered, LeaseOrdered
<1>9. \A t \in Thread : HasOf(call'[t]) = HasOf(call[t]) /\ LocksOf(call'[t]) = LocksOf(call[t])
  BY <1>5 DEF HasOf, LocksOf
<1>10. HeldSound'
  <2>1. /\ \A t \in Thread : HasOf(call'[t]) \subseteq held'[ProcessOf[t]]
        /\ \A t, u \in Thread : t # u /\ ProcessOf[t] = ProcessOf[u] => HasOf(call'[t]) \cap HasOf(call'[u]) = {}
    BY <1>2, <1>3, <1>9 DEF HeldSound
  <2> QED  BY <2>1 DEF HeldSound, HasOf
<1>11. LockSound'
  <2>1. \A t \in Thread : \A q \in LocksOf(call'[t]) : lock'[q] = ProcessOf[t]
    BY <1>2, <1>3, <1>9 DEF LockSound
  <2> QED  BY <2>1 DEF LockSound, LocksOf
<1>12. (\A t \in Thread : Agrees(t, call[t], file))'
  BY <1>5 DEF Agrees, RestorerAgrees, EditorAgrees, Fresh, Selected, Agreed, Untouched, Deferred, Reported
<1> QED  BY <1>7, <1>8, <1>10, <1>11, <1>12 DEF CheckpointInv

-----------------------------------------------------------------------------
(* The invariant, and what follows. *)

LEMMA CheckpointStarts == CheckpointInit => CheckpointInv
<1> SUFFICES ASSUME CheckpointInit PROVE CheckpointInv
  OBVIOUS
<1>1. \A t \in Thread : call[t] = New /\ New \in CallState
  BY NewTyped DEF CheckpointInit
<1>2. CheckpointTypeOK
  BY <1>1, CheckpointTypes, CheckpointsAssumption DEF CheckpointInit
<1>3. LeaseOrdered(New) /\ HasOf(New) = {} /\ LocksOf(New) = {}
  BY NewTyped DEF LeaseOrdered, HasOf, LocksOf, Taking, Whole, Leaving
<1>4. Ordered /\ HeldSound /\ LockSound
  BY <1>1, <1>3 DEF Ordered, HeldSound, LockSound
<1>5. ASSUME NEW t \in Thread PROVE Agrees(t, New, file)
  <2>1. New.changed = {}
    BY DEF New
  <2> QED  BY <2>1, NewTyped DEF Agrees, RestorerAgrees, EditorAgrees, Installing, Editing, Taking, Whole, Leaving
<1> QED  BY <1>1, <1>2, <1>4, <1>5 DEF CheckpointInv

LEMMA CheckpointStutters == CheckpointInv /\ UNCHANGED checkpointVars => CheckpointInv'
<1> SUFFICES ASSUME CheckpointInv, UNCHANGED checkpointVars PROVE CheckpointInv'
  OBVIOUS
<1>1. UNCHANGED <<file, held, lock, call, outside>>
  BY DEF checkpointVars
<1>2. CheckpointTypeOK'
  BY <1>1 DEF CheckpointInv, CheckpointTypeOK
<1>3. Ordered' /\ HeldSound' /\ LockSound'
  BY <1>1 DEF CheckpointInv, Ordered, LeaseOrdered, HeldSound, HasOf, LockSound, LocksOf
<1>4. (\A t \in Thread : Agrees(t, call[t], file))'
  <2>1. \A t \in Thread : Agrees(t, call'[t], file')
    BY <1>1 DEF CheckpointInv
  <2> QED  BY <2>1 DEF Agrees, RestorerAgrees, EditorAgrees, Fresh, Selected, Agreed, Untouched,
                       Deferred, Reported
<1> QED  BY <1>2, <1>3, <1>4 DEF CheckpointInv

LEMMA CheckpointStep == CheckpointInv /\ [CheckpointNext]_checkpointVars => CheckpointInv'
<1> SUFFICES ASSUME CheckpointInv, [CheckpointNext]_checkpointVars PROVE CheckpointInv'
  OBVIOUS
<1>1. CASE UNCHANGED checkpointVars
  BY <1>1, CheckpointStutters
<1>2. CASE Outside
  BY <1>2, OutsideKeeps
<1>3. ASSUME NEW t \in Thread, LeaseStep(t) \/ CancelHold(t) \/ CancelLock(t) PROVE CheckpointInv'
  <2>1. CASE CancelHold(t)
    BY <2>1, GivesUpKeeps DEF CancelHold
  <2> QED  BY <1>3, <2>1, HoldKeeps, LockKeeps, DropKeeps, DroppedKeeps, CancelLockKeeps DEF LeaseStep
<1>4. ASSUME NEW t \in Restorer, Load(t) \/ RestoreStep(t) PROVE CheckpointInv'
  <2>0. t \in Thread
    BY DEF Thread
  <2>1. CASE Report(t)
    BY <2>0, <2>1, GivesUpKeeps DEF Report, Whole
  <2> QED  BY <1>4, <2>1, LoadKeeps, InspectKeeps, CaptureUndoKeeps, ReadyKeeps, InstallKeeps,
              InstallFailsKeeps, SetModeKeeps DEF RestoreStep
<1>5. ASSUME NEW t \in Restorer, FailsEarly(t) \/ NotReady(t) \/ SetModeFails(t) PROVE CheckpointInv'
  <2>0. t \in Thread
    BY DEF Thread
  <2>1. CASE FailsEarly(t)
    BY <2>0, <2>1, GivesUpKeeps DEF FailsEarly, Whole
  <2> QED  BY <1>5, <2>1, NotReadyKeeps, SetModeKeeps
<1>6. ASSUME NEW t \in Editor, BeginEdit(t) \/ EditStep(t) PROVE CheckpointInv'
  <2>0. t \in Thread
    BY DEF Thread
  <2>1. CASE WriteFails(t)
    BY <2>0, <2>1, GivesUpKeeps DEF WriteFails, Whole
  <2> QED  BY <1>6, <2>1, BeginEditKeeps, ReadTextKeeps, CaptureKeeps, RecheckKeeps, WriteKeeps DEF EditStep
<1> QED  BY <1>1, <1>2, <1>3, <1>4, <1>5, <1>6 DEF CheckpointNext

\* The state is well typed, stripes are taken in ascending order and by one call
\* only, and what a call saved and inspected is what it is about to overwrite,
\* unless another program wrote since (stripes_cancellable, capture_exact, install).
THEOREM CheckpointInvariant == CheckpointSpec => []CheckpointInv
BY CheckpointStarts, CheckpointStep, PTL DEF CheckpointSpec

\* However leases overlap, threads never wait for each other's stripes in a circle:
\* along a chain of waits the stripe waited for rises (stripes_cancellable).
THEOREM NobodyWaits == CheckpointSpec => []NobodyWaitsInACircle
<1>1. CheckpointInv => NobodyWaitsInACircle
  BY NoCircle DEF CheckpointInv
<1> QED  BY <1>1, CheckpointInvariant, PTL

\* However far a restore came, its report and its undo fit what it did (install).
THEOREM UndoFitsAlways == CheckpointSpec => []UndoFits
<1>1. CheckpointInv => UndoFits
  <2> SUFFICES ASSUME CheckpointInv, NEW t \in Restorer, call[t].at \in {"report", "modes"},
                      call[t].at = "modes" => call[t].modes = {},
                      NEW p \in Path \ call[t].disturbed
               PROVE  /\ p \in call[t].changed <=> call[t].report[p] # NoState
                      /\ p \in call[t].changed => /\ call[t].undo[p] # NoState
                                                  /\ call[t].report[p] = file[p]
    BY DEF UndoFits
  <2>1. t \in Thread
    BY DEF Thread
  <2>2. RestorerAgrees(call[t], file)
    BY <2>1, Facts
  <2> QED  BY <2>2 DEF RestorerAgrees, Installing, Reported
<1> QED  BY <1>1, CheckpointInvariant, PTL

-----------------------------------------------------------------------------
(* What a step overwrites. *)

Overwrites(t, p) ==
    /\ t \in Restorer => call[t].undo[p] = file[p]
    /\ {call[t].undo[p], call[t].seen[p], call[t].expected[p]} \subseteq {file[p], NoState}

LEMMA InstallOverwrites ==
    ASSUME CheckpointInv, NEW t \in Restorer, Install(t) \/ InstallFails(t), NEW p \in Path,
           file'[p] # file[p], p \notin call[t].disturbed \cup call[t].changed
    PROVE  Overwrites(t, p)
<1>1. t \in Thread /\ call[t].at = "ready"
  BY DEF Thread, Install, InstallFails
<1>2. RestorerAgrees(call[t], file) /\ file \in [Path -> State]
  BY <1>1, Facts
<1>3. p = call[t].on
  BY <1>2 DEF Install, InstallFails, Puts
<1>4. /\ Agreed(call[t], p) /\ file[p] = call[t].undo[p]
  BY <1>1, <1>2, <1>3 DEF RestorerAgrees
<1> QED  BY <1>4 DEF Agreed, Overwrites

LEMMA SetModeOverwrites ==
    ASSUME CheckpointInv, NEW t \in Restorer, SetMode(t) \/ SetModeFails(t), NEW p \in Path,
           file'[p] # file[p], p \notin call[t].disturbed \cup call[t].changed
    PROVE  Overwrites(t, p)
<1>1. t \in Thread /\ call[t].at = "modes"
  BY DEF Thread, SetMode, SetModeFails
<1>2. RestorerAgrees(call[t], file) /\ file \in [Path -> State]
  BY <1>1, Facts
<1>3. p \in call[t].modes
  BY <1>2 DEF SetMode, SetModeFails, Puts
<1>4. Deferred(call[t], file, p)
  BY <1>1, <1>2, <1>3 DEF RestorerAgrees
<1>5. /\ Agreed(call[t], p) /\ file[p] = call[t].undo[p]
  BY <1>4 DEF Deferred
<1> QED  BY <1>5 DEF Agreed, Overwrites

LEMMA WriteOverwrites ==
    ASSUME CheckpointInv, NEW t \in Editor, Write(t), NEW p \in Path,
           file'[p] # file[p], p \notin call[t].disturbed
    PROVE  Overwrites(t, p)
<1>1. t \in Thread /\ t \notin Restorer /\ call[t].at = "ready"
  BY CheckpointsAssumption DEF Thread, Write
<1>2. EditorAgrees(call[t], file) /\ file \in [Path -> State]
  BY <1>1, Facts
<1>3. p = call[t].on
  BY <1>2 DEF Write
<1>4. call[t].expected[p] = NoState
  BY <1>2 DEF EditorAgrees, Nothing
<1> QED  BY <1>1, <1>2, <1>3, <1>4 DEF EditorAgrees, Overwrites

\* A step changes the call of one thread, and the other programs' steps count.
LEMMA OneThread ==
    ASSUME CheckpointInv, NEW t \in Thread, NEW u \in Thread, NEW new,
           call' = [call EXCEPT ![u] = new], call'[t] # call[t]
    PROVE  t = u
BY CheckpointTypes DEF CheckpointInv

\* A call overwrites only what it has saved and agreed to overwrite, unless another
\* program wrote after its last look (compare, recheck).
THEOREM Overwritten == CheckpointSpec => OverwritesSaved
<1>1. ASSUME CheckpointInv, [CheckpointNext]_checkpointVars,
             NEW t \in Thread, NEW p \in Path, file'[p] # file[p], call'[t] # call[t], outside' = outside,
             p \notin call[t].disturbed \cup call[t].changed
      PROVE  Overwrites(t, p)
  <2>1. CASE Outside
    <3>1. outside \in 0..MaxOutside
      BY <1>1 DEF CheckpointInv, CheckpointTypeOK
    <3> QED  BY <1>1, <2>1, <3>1, CheckpointsAssumption DEF Outside
  <2>2. CASE UNCHANGED file
    BY <1>1, <2>2
  <2>3. ASSUME NEW u \in Restorer, Install(u) \/ InstallFails(u) \/ SetMode(u) \/ SetModeFails(u)
        PROVE  Overwrites(t, p)
    <3>1. \E new : call' = [call EXCEPT ![u] = new]
      BY <2>3 DEF Install, InstallFails, SetMode, SetModeFails, Puts
    <3>2. t = u
      BY <1>1, <3>1, OneThread DEF Thread
    <3> QED  BY <1>1, <2>3, <3>2, InstallOverwrites, SetModeOverwrites
  <2>4. ASSUME NEW u \in Editor, Write(u)
        PROVE  Overwrites(t, p)
    <3>1. \E new : call' = [call EXCEPT ![u] = new]
      BY <2>4 DEF Write
    <3>2. t = u
      BY <1>1, <3>1, OneThread DEF Thread
    <3> QED  BY <1>1, <2>4, <3>2, WriteOverwrites
  <2>5. UNCHANGED checkpointVars => UNCHANGED file
    BY DEF checkpointVars
  <2>6. ASSUME NEW u \in Thread, LeaseStep(u) \/ CancelHold(u) \/ CancelLock(u) PROVE UNCHANGED file
    BY <2>6 DEF LeaseStep, Hold, Lock, Drop, Dropped, CancelHold, CancelLock
  <2>7. ASSUME NEW u \in Restorer, \/ Load(u) \/ Inspect(u) \/ CaptureUndo(u) \/ Ready(u) \/ Report(u)
                                   \/ FailsEarly(u) \/ NotReady(u)
        PROVE  UNCHANGED file
    BY <2>7 DEF Load, Inspect, CaptureUndo, Ready, Report, FailsEarly, NotReady
  <2>8. ASSUME NEW u \in Editor, BeginEdit(u) \/ ReadText(u) \/ Capture(u) \/ Recheck(u) \/ WriteFails(u)
        PROVE  UNCHANGED file
    BY <2>8 DEF BeginEdit, ReadText, Capture, Recheck, WriteFails
  <2> QED  BY <1>1, <2>1, <2>2, <2>3, <2>4, <2>5, <2>6, <2>7, <2>8
           DEF CheckpointNext, RestoreStep, EditStep
<1>2. CheckpointInv /\ [CheckpointNext]_checkpointVars =>
        \A t \in Thread, p \in Path :
           Changes(t, p) /\ p \notin call[t].disturbed \cup call[t].changed
              => /\ t \in Restorer => call[t].undo[p] = file[p]
                 /\ {call[t].undo[p], call[t].seen[p], call[t].expected[p]} \subseteq {file[p], NoState}
  BY <1>1 DEF Changes, Overwrites
<1> QED  BY <1>2, CheckpointInvariant, PTL DEF CheckpointSpec, OverwritesSaved

-----------------------------------------------------------------------------
(* The estimate of free space. *)

Probing == {c \in Claimant : claim[c].at \in {"probing", "low"}}

\* What is offered was read and not admitted since; what was claimed while a
\* refresh runs was free before; and a refresh that has read deducts at least what
\* was admitted since.
Covered(s, thread) ==
    s.tag = "ready" => /\ s.free = 0 \/ s.free <= s.room
                       /\ s.free + s.spent <= MaxFree
                       /\ thread.at = "read" => thread.free - s.spent <= thread.room

\* Who is at work on the estimate.
AtWork(s, thread, probing) ==
    /\ s.tag = "pending" <=> thread.at = "first" \/ probing # {}
    /\ \A c, d \in probing : c = d
    /\ thread.at = "first" => probing = {}
    /\ thread.at \in {"probing", "read"} <=> s.tag = "ready" /\ s.refreshing

\* What a cancelled probe gives back was sound when it was taken.
LowSound ==
    \A c \in Claimant :
       claim[c].at = "low" => claim[c].prior = 0 \/ claim[c].prior <= claim[c].room

PressureInv ==
    /\ PressureTypeOK
    /\ Covered(sample, prober)
    /\ AtWork(sample, prober, Probing)
    /\ LowSound

LEMMA PressureInvImplies == PressureInv => EstimateIsSound
BY DEF PressureInv, EstimateIsSound, ClaimsCount, SomebodyProbes, Covered, AtWork, Probing

ReadySample ==
    [tag : {"ready"}, free : 0..MaxFree, old : BOOLEAN, low_probe : BOOLEAN,
     refreshing : BOOLEAN, spent : 0..MaxFree, room : Int]
ClaimState == [at : {"idle", "loop", "probing", "low"}, bytes : 0..MaxFree,
               refreshed : BOOLEAN, prior : 0..MaxFree, room : Int]
ProberState ==
    [at : {"none"}] \cup [at : {"first"}] \cup [at : {"probing"}, path : Archive]
      \cup [at : {"read"}, path : Archive, free : 0..MaxFree, room : Int]

LEMMA PressureTypes ==
    PressureTypeOK <=> sample \in Sample /\ prober \in ProberState /\ claim \in [Claimant -> ClaimState]
BY DEF PressureTypeOK, ProberState, ClaimState

LEMMA SampleKinds ==
    ASSUME NEW s \in Sample
    PROVE  /\ s.tag \in {"pending", "failed", "ready"}
           /\ s.tag = "ready" => s \in ReadySample
BY DEF Sample, ReadySample

LEMMA ReadyTyped ==
    ASSUME NEW s \in ReadySample
    PROVE  /\ s \in Sample /\ s.tag = "ready" /\ s.refreshing \in BOOLEAN
           /\ s.free \in Nat /\ s.spent \in Nat /\ s.room \in Int
           /\ s.free \in 0..MaxFree
BY PressureAssumption DEF Sample, ReadySample

LEMMA EstimateTyped ==
    ASSUME NEW free \in 0..MaxFree, NEW room \in Int, NEW low \in BOOLEAN
    PROVE  /\ Estimate(free, room, low) \in ReadySample
           /\ Estimate(free, room, low).free = free
           /\ Estimate(free, room, low).room = room
           /\ Estimate(free, room, low).spent = 0
           /\ ~Estimate(free, room, low).refreshing
<1>1. 0 \in 0..MaxFree  BY PressureAssumption
<1> QED  BY <1>1 DEF Estimate, ReadySample

LEMMA FailedTyped ==
    ASSUME NEW path \in Archive
    PROVE  Failed(path) \in Sample /\ Failed(path).tag = "failed"
BY DEF Failed, Sample

LEMMA PendingTyped == Pending \in Sample /\ Pending.tag = "pending"
BY DEF Pending, Sample

LEMMA IdleTyped == Idle \in ClaimState /\ Idle.at = "idle" /\ None \in ProberState /\ None.at = "none"
BY PressureAssumption DEF Idle, ClaimState, None, ProberState

LEMMA ProbedTyped ==
    ASSUME NEW path \in Archive, NEW s \in Probed(path)
    PROVE  /\ s \in Sample /\ s.tag \in {"ready", "failed"}
           /\ s.tag = "ready" => s \in ReadySample /\ s.free = s.room /\ s.spent = 0 /\ ~s.refreshing
<1>1. CASE s = Failed(path)
  BY <1>1, FailedTyped
<1>2. ASSUME NEW free \in 0..MaxFree, s = Estimate(free, free, FALSE)
      PROVE  s \in ReadySample /\ s.free = s.room /\ s.spent = 0 /\ ~s.refreshing
  <2>1. free \in Int  BY <1>2, PressureAssumption
  <2>2. FALSE \in BOOLEAN  OBVIOUS
  <2>3. /\ Estimate(free, free, FALSE) \in ReadySample
        /\ Estimate(free, free, FALSE).free = free /\ Estimate(free, free, FALSE).room = free
        /\ Estimate(free, free, FALSE).spent = 0 /\ ~Estimate(free, free, FALSE).refreshing
    BY ONLY <1>2, <2>1, <2>2, EstimateTyped
  <2> QED  BY <1>2, <2>3
<1> QED  BY <1>1, <1>2, ReadyTyped DEF Probed

\* A fresh estimate offers what was read.
LEMMA FreshCovered ==
    ASSUME NEW s \in Sample, NEW thread,
           s.tag = "ready" => s.spent = 0 /\ (s.free = 0 \/ s.free <= s.room),
           s.tag = "ready" => thread.at # "read"
    PROVE  Covered(s, thread)
<1> SUFFICES ASSUME s.tag = "ready" PROVE s.free + s.spent <= MaxFree
  BY DEF Covered
<1>1. s.free \in 0..MaxFree /\ s.spent = 0
  BY SampleKinds, ReadyTyped
<1> QED  BY <1>1, PressureAssumption

-----------------------------------------------------------------------------
(* Steps of claims. *)

\* One claim's new state decides who probes.
LEMMA ClaimMoves ==
    ASSUME PressureInv, NEW c \in Claimant, NEW new \in ClaimState,
           claim' = [claim EXCEPT ![c] = new],
           new.at = "low" => new.prior = 0 \/ new.prior <= new.room
    PROVE  /\ claim' \in [Claimant -> ClaimState]
           /\ Probing' = IF new.at \in {"probing", "low"} THEN Probing \cup {c} ELSE Probing \ {c}
           /\ LowSound'
<1>1. claim \in [Claimant -> ClaimState] /\ LowSound
  BY PressureTypes DEF PressureInv
<1>2. /\ claim' \in [Claimant -> ClaimState]
      /\ claim'[c] = new
      /\ \A d \in Claimant \ {c} : claim'[d] = claim[d]
  BY <1>1
<1>3. Probing' = IF new.at \in {"probing", "low"} THEN Probing \cup {c} ELSE Probing \ {c}
  BY <1>2 DEF Probing
<1>4. LowSound'
  BY <1>1, <1>2 DEF LowSound
<1> QED  BY <1>2, <1>3, <1>4

\* What a step has to show.
LEMMA PressureKept ==
    ASSUME sample' \in Sample, prober' \in ProberState, claim' \in [Claimant -> ClaimState],
           Covered(sample', prober'), AtWork(sample', prober', Probing'), LowSound'
    PROVE  PressureInv'
<1>1. PressureTypeOK'
  BY DEF PressureTypeOK, ProberState, ClaimState
<1> QED  BY <1>1 DEF PressureInv, Covered, AtWork

\* A claim that did not probe goes on without probing.
LEMMA ClaimGoesOn ==
    ASSUME PressureInv, NEW c \in Claimant, NEW new \in ClaimState,
           claim' = [claim EXCEPT ![c] = new],
           claim[c].at \in {"idle", "loop"}, new.at \in {"idle", "loop"},
           sample' \in Sample, sample'.tag = sample.tag,
           sample.tag = "ready" => sample'.refreshing = sample.refreshing,
           prober' \in ProberState, prober'.at = prober.at, Covered(sample', prober')
    PROVE  PressureInv'
<1>1. Probing \ {c} = Probing
  BY DEF Probing
<1>2. claim' \in [Claimant -> ClaimState] /\ Probing' = Probing /\ LowSound'
  BY <1>1, ClaimMoves
<1>3. AtWork(sample', prober', Probing')
  BY <1>2 DEF PressureInv, AtWork
<1> QED  BY <1>2, <1>3, PressureKept

\* A claim's probe ends, with an answer or without.
LEMMA ProbeEnds ==
    ASSUME PressureInv, NEW c \in Probing, NEW new \in ClaimState,
           claim' = [claim EXCEPT ![c] = new], new.at \in {"idle", "loop"},
           sample' \in Sample, sample'.tag # "pending", prober' = prober,
           sample'.tag = "ready" => ~sample'.refreshing /\ sample'.spent = 0
                                    /\ (sample'.free = 0 \/ sample'.free <= sample'.room)
    PROVE  PressureInv'
<1>1. c \in Claimant  BY DEF Probing
<1>2. /\ Probing = {c} /\ prober.at # "first" /\ prober.at \notin {"probing", "read"}
  BY DEF PressureInv, AtWork
<1>3. claim' \in [Claimant -> ClaimState] /\ Probing' = {} /\ LowSound'
  BY <1>1, <1>2, ClaimMoves
<1>4. AtWork(sample', prober', Probing')
  BY <1>2, <1>3 DEF AtWork
<1>5. Covered(sample', prober')
  BY <1>2, FreshCovered
<1>6. prober' \in ProberState
  BY PressureTypes DEF PressureInv
<1> QED  BY <1>3, <1>4, <1>5, <1>6, PressureKept

\* A claim starts to probe, because there is no estimate or it is too low.
LEMMA ProbeStarts ==
    ASSUME PressureInv, NEW c \in Claimant, NEW new \in ClaimState,
           claim' = [claim EXCEPT ![c] = new], new.at \in {"probing", "low"},
           new.at = "low" => new.prior = 0 \/ new.prior <= new.room,
           sample.tag # "pending", sample.tag = "ready" => ~sample.refreshing,
           sample' = Pending, prober' = prober
    PROVE  PressureInv'
<1>1. Probing = {} /\ prober.at \notin {"first", "probing", "read"}
  BY DEF PressureInv, AtWork
<1>2. claim' \in [Claimant -> ClaimState] /\ Probing' = {c} /\ LowSound'
  BY <1>1, ClaimMoves
<1>3. AtWork(sample', prober', Probing') /\ Covered(sample', prober')
  BY <1>1, <1>2, PendingTyped DEF AtWork, Covered
<1>4. prober' \in ProberState
  BY PressureTypes DEF PressureInv
<1> QED  BY <1>2, <1>3, <1>4, PendingTyped, PressureKept

LEMMA FoundKeeps ==
    ASSUME PressureInv, NEW c \in Claimant, sample.tag = "ready"
    PROVE  /\ Found(c) \in ReadySample
           /\ Found(c).free = sample.free /\ Found(c).room = sample.room
           /\ Found(c).spent = sample.spent /\ Found(c).refreshing = sample.refreshing
<1>1. sample \in ReadySample /\ claim[c].refreshed \in BOOLEAN
  BY SampleKinds DEF PressureInv, PressureTypeOK
<1> QED  BY <1>1 DEF Found, ReadySample

LEMMA SpentFields ==
    ASSUME NEW s \in ReadySample, NEW bytes \in 0..MaxFree, s.free >= bytes,
           s.free + s.spent <= MaxFree
    PROVE  /\ Spent(s, bytes) \in ReadySample
           /\ Spent(s, bytes).free = s.free - bytes
           /\ Spent(s, bytes).room = s.room - bytes
           /\ Spent(s, bytes).spent = IF s.refreshing THEN s.spent + bytes ELSE s.spent
           /\ Spent(s, bytes).refreshing = s.refreshing
<1>1. /\ s.free \in 0..MaxFree /\ s.spent \in 0..MaxFree /\ s.room \in Int /\ bytes \in Int /\ MaxFree \in Nat
      /\ s.refreshing \in BOOLEAN
  BY PressureAssumption DEF ReadySample
<1>2. /\ s.free - bytes \in 0..MaxFree /\ s.room - bytes \in Int
      /\ (IF s.refreshing THEN s.spent + bytes ELSE s.spent) \in 0..MaxFree
  BY <1>1
<1> QED  BY <1>2 DEF Spent, ReadySample

LEMMA ClaimStates ==
    ASSUME NEW bytes \in 0..MaxFree, NEW refreshed \in BOOLEAN
    PROVE  /\ [Idle EXCEPT !.at = "loop", !.bytes = bytes] \in ClaimState
           /\ [Idle EXCEPT !.at = "loop", !.bytes = bytes].at = "loop"
           /\ [Idle EXCEPT !.at = "loop", !.bytes = bytes, !.refreshed = TRUE] \in ClaimState
           /\ [Idle EXCEPT !.at = "loop", !.bytes = bytes, !.refreshed = TRUE].at = "loop"
<1>1. Idle \in ClaimState  BY IdleTyped
<1> HIDE DEF Idle
<1> QED  BY <1>1 DEF ClaimState

LEMMA RefreshingFields ==
    ASSUME NEW s \in ReadySample
    PROVE  LET r == [s EXCEPT !.refreshing = TRUE, !.spent = 0]
           IN  r \in ReadySample /\ r.refreshing /\ r.spent = 0 /\ r.free = s.free /\ r.room = s.room
<1>1. 0 \in 0..MaxFree  BY PressureAssumption
<1> QED  BY <1>1 DEF ReadySample
-----------------------------------------------------------------------------
(* Every step. *)

LEMMA PressureInitial == PressureInit => PressureInv
<1> SUFFICES ASSUME PressureInit PROVE PressureInv  OBVIOUS
<1>1. PressureTypeOK
  BY PendingTyped, IdleTyped DEF PressureInit, PressureTypeOK, ClaimState
<1>2. Probing = {} /\ LowSound
  BY IdleTyped DEF PressureInit, Probing, LowSound
<1>3. Covered(sample, prober) /\ AtWork(sample, prober, Probing)
  BY <1>2, PendingTyped DEF PressureInit, Covered, AtWork
<1> QED  BY <1>1, <1>2, <1>3 DEF PressureInv

LEMMA AdmitKeeps ==
    ASSUME PressureInv, NEW c \in Claimant, Admit(c)
    PROVE  PressureInv'
<1> DEFINE bytes == claim[c].bytes
           found == Found(c)
<1>1. /\ found \in ReadySample /\ sample \in ReadySample /\ bytes \in 0..MaxFree
      /\ found.free = sample.free /\ found.room = sample.room
      /\ found.spent = sample.spent /\ found.refreshing = sample.refreshing
  BY FoundKeeps, SampleKinds, PressureTypes DEF Admit, Looping, PressureInv, ClaimState
<1>2. /\ sample.tag = "ready" /\ sample.free >= bytes /\ claim[c].at = "loop"
      /\ sample' = Spent(found, bytes) /\ claim' = [claim EXCEPT ![c] = Idle]
  BY DEF Admit, Looping, Return
<1>3. /\ sample.free = 0 \/ sample.free <= sample.room
      /\ sample.free + sample.spent <= MaxFree
      /\ prober.at = "read" => prober.free - sample.spent <= prober.room
      /\ prober.at = "read" => sample.refreshing
      /\ prober \in ProberState
  BY <1>2, PressureTypes DEF PressureInv, Covered, AtWork
<1>4. /\ prober' \in ProberState /\ prober'.at = prober.at
      /\ prober.at = "read" => /\ prober'.free = prober.free /\ prober'.room = prober.room - bytes
                               /\ prober.free \in Int /\ prober.room \in Int
  <2>1. bytes \in Int  BY <1>1, PressureAssumption
  <2>2. CASE prober.at = "read"
    <3>1. prober \in [at : {"read"}, path : Archive, free : 0..MaxFree, room : Int]
      BY <1>3, <2>2 DEF ProberState
    <3>2. prober' = [prober EXCEPT !.room = @ - bytes]
      BY <2>2 DEF Admit
    <3> HIDE DEF bytes
    <3>3. prober.room - bytes \in Int
      BY <2>1, <3>1
    <3>4. prober.free \in Int
      BY <3>1, PressureAssumption
    <3>5. prober' \in [at : {"read"}, path : Archive, free : 0..MaxFree, room : Int]
      BY <3>1, <3>2, <3>3
    <3> QED  BY <3>1, <3>2, <3>3, <3>4, <3>5, <2>2 DEF ProberState
  <2>3. CASE prober.at # "read"
    BY <1>3, <2>3 DEF Admit
  <2> QED  BY <2>2, <2>3
<1> HIDE DEF bytes, found
<1>5. /\ sample' \in ReadySample
      /\ sample'.free = sample.free - bytes /\ sample'.room = sample.room - bytes
      /\ sample'.spent = IF sample.refreshing THEN sample.spent + bytes ELSE sample.spent
      /\ sample'.refreshing = sample.refreshing
  BY <1>1, <1>2, <1>3, SpentFields
<1>6. /\ sample.free \in Nat /\ sample.spent \in Nat /\ sample.room \in Int
      /\ bytes \in Nat /\ MaxFree \in Nat
  BY <1>1, ReadyTyped, PressureAssumption
<1>7. /\ sample'.free = 0 \/ sample'.free <= sample'.room
      /\ sample'.free + sample'.spent <= MaxFree
  BY <1>2, <1>3, <1>5, <1>6
<1>8. prober'.at = "read" => prober'.free - sample'.spent <= prober'.room
  BY <1>3, <1>4, <1>5, <1>6
<1>9. Covered(sample', prober')
  BY <1>7, <1>8 DEF Covered
<1> QED  BY <1>2, <1>4, <1>5, <1>9, ReadyTyped, IdleTyped, ClaimGoesOn

LEMMA RefreshKeeps ==
    ASSUME PressureInv, NEW c \in Claimant, Refresh(c)
    PROVE  PressureInv'
<1>1. /\ Found(c) \in ReadySample /\ Found(c).free = sample.free /\ Found(c).room = sample.room
      /\ sample.tag = "ready" /\ ~sample.refreshing /\ claim' = claim /\ ArchiveOf[c] \in Archive
  BY FoundKeeps, PressureAssumption DEF Refresh, Looping, IsOld
<1>2. /\ prober.at \notin {"probing", "read", "first"} /\ Probing = {}
      /\ sample.free = 0 \/ sample.free <= sample.room
      /\ prober \in ProberState /\ claim' \in [Claimant -> ClaimState] /\ LowSound
  BY <1>1, PressureTypes DEF PressureInv, AtWork, Covered
<1>3. Probing' = {} /\ LowSound'
  BY <1>1, <1>2 DEF Probing, LowSound
<1>4. CASE sample' = Failed(ArchiveOf[c]) /\ prober' = prober
  <2>1. Covered(sample', prober') /\ AtWork(sample', prober', Probing')
    BY <1>1, <1>2, <1>3, <1>4, FailedTyped DEF Covered, AtWork
  <2> QED  BY <1>1, <1>2, <1>3, <1>4, <2>1, FailedTyped, PressureKept
<1>5. CASE /\ sample' = [Found(c) EXCEPT !.refreshing = TRUE, !.spent = 0]
           /\ prober' = [at |-> "probing", path |-> ArchiveOf[c]]
  <2>1. /\ sample' \in ReadySample /\ sample'.refreshing
        /\ sample'.free = sample.free /\ sample'.room = sample.room /\ sample'.spent = 0
    BY <1>1, <1>5, RefreshingFields
  <2>2. prober' \in ProberState /\ prober'.at = "probing"
    BY <1>1, <1>5 DEF ProberState
  <2>3. sample' \in Sample /\ sample'.tag = "ready"
    BY <2>1, ReadyTyped
  <2>4. Covered(sample', prober')
    BY <1>2, <2>1, <2>2, <2>3, FreshCovered
  <2>5. AtWork(sample', prober', Probing')
    BY <1>3, <2>1, <2>2, <2>3 DEF AtWork
  <2> QED  BY <1>2, <1>3, <2>2, <2>3, <2>4, <2>5, PressureKept
<1> QED  BY <1>4, <1>5 DEF Refresh

\* The refreshing thread; the claims stay as they are.
LEMMA RefreshThread ==
    ASSUME PressureInv, ReadSpace \/ SetRefreshed \/ RefreshFails
    PROVE  PressureInv'
<1>1. /\ prober.at \in {"probing", "read"} /\ claim' = claim
  BY DEF ReadSpace, SetRefreshed, RefreshFails
<1>2. /\ sample \in ReadySample /\ sample.tag = "ready" /\ sample.refreshing /\ Probing = {}
      /\ sample.free = 0 \/ sample.free <= sample.room
      /\ sample.free + sample.spent <= MaxFree
      /\ prober.at = "read" => prober.free - sample.spent <= prober.room
      /\ prober \in ProberState /\ claim' \in [Claimant -> ClaimState] /\ LowSound
  BY <1>1, SampleKinds, PressureTypes DEF PressureInv, AtWork, Covered
<1>3. Probing' = {} /\ LowSound'
  BY <1>1, <1>2 DEF Probing, LowSound
<1>4. sample.spent \in Nat /\ sample \in Sample
  BY <1>2, ReadyTyped
<1>5. CASE ReadSpace
  <2>1. PICK free \in 0..MaxFree :
           prober' = [at |-> "read", path |-> prober.path, free |-> free, room |-> free]
    BY <1>5 DEF ReadSpace
  <2>2. prober.path \in Archive /\ free \in Int
    BY <1>2, <1>5, PressureAssumption DEF ProberState, ReadSpace
  <2>3. prober' \in ProberState /\ prober'.at = "read" /\ prober'.free = free /\ prober'.room = free
    BY <2>1, <2>2 DEF ProberState
  <2>4. free - sample.spent <= free
    BY <2>2, <1>4
  <2>5. Covered(sample', prober') /\ AtWork(sample', prober', Probing')
    BY <1>2, <1>3, <1>5, <2>3, <2>4 DEF ReadSpace, Covered, AtWork
  <2> QED  BY <1>2, <1>3, <1>4, <1>5, <2>3, <2>5, PressureKept DEF ReadSpace
<1>6. CASE SetRefreshed
  <2>1. /\ prober.free \in 0..MaxFree /\ prober.room \in Int /\ prober.free \in Nat
        /\ prober.free - sample.spent <= prober.room
    BY <1>2, <1>6, PressureAssumption DEF SetRefreshed, ProberState
  <2> DEFINE free == IF prober.free >= sample.spent THEN prober.free - sample.spent ELSE 0
  <2>2. free \in 0..MaxFree /\ (free = 0 \/ free <= prober.room)
    BY <2>1, <1>4, PressureAssumption
  <2>3. sample' = Estimate(free, prober.room, TRUE)
    BY <1>2, <1>6 DEF SetRefreshed, Refreshed, AlreadySpent
  <2> HIDE DEF free
  <2>4. TRUE \in BOOLEAN  OBVIOUS
  <2>5. /\ sample' \in ReadySample /\ sample'.free = free /\ sample'.room = prober.room
        /\ sample'.spent = 0 /\ ~sample'.refreshing
    BY <2>1, <2>2, <2>3, <2>4, EstimateTyped
  <2>6. prober' = None
    BY <1>6 DEF SetRefreshed
  <2>7. Covered(sample', prober') /\ AtWork(sample', prober', Probing')
    BY <2>2, <2>5, <2>6, <1>3, IdleTyped, ReadyTyped, FreshCovered DEF AtWork
  <2> QED  BY <1>2, <1>3, <2>5, <2>6, <2>7, IdleTyped, ReadyTyped, PressureKept
<1>7. CASE RefreshFails
  <2>1. sample' = Failed(prober.path) /\ prober.path \in Archive /\ prober' = None
    BY <1>2, <1>7 DEF RefreshFails, ProberState
  <2>2. Covered(sample', prober') /\ AtWork(sample', prober', Probing')
    BY <2>1, <1>3, IdleTyped, FailedTyped DEF Covered, AtWork
  <2> QED  BY <1>2, <1>3, <2>1, <2>2, IdleTyped, FailedTyped, PressureKept
<1> QED  BY <1>5, <1>6, <1>7

LEMMA ProbeEndsKeeps ==
    ASSUME PressureInv, NEW c \in Claimant, ProbeDone(c) \/ ProbeCancelled(c)
    PROVE  PressureInv'
<1>1. /\ c \in Probing /\ prober' = prober /\ ArchiveOf[c] \in Archive
      /\ claim[c] \in ClaimState /\ claim[c].bytes \in 0..MaxFree
      /\ claim[c].prior \in 0..MaxFree /\ claim[c].room \in Int
      /\ claim[c].at = "low" => claim[c].prior = 0 \/ claim[c].prior <= claim[c].room
  BY PressureTypes, PressureAssumption DEF ProbeDone, ProbeCancelled, Probing, PressureInv, LowSound, ClaimState
<1>2. CASE ProbeDone(c)
  <2> DEFINE new == [Idle EXCEPT !.at = "loop", !.bytes = claim[c].bytes, !.refreshed = TRUE]
  <2>1. TRUE \in BOOLEAN  OBVIOUS
  <2>2. new \in ClaimState /\ new.at = "loop"
    BY <1>1, <2>1, ClaimStates
  <2>3. sample' \in Probed(ArchiveOf[c]) /\ claim' = [claim EXCEPT ![c] = new]
    BY <1>2 DEF ProbeDone, Retries
  <2> HIDE DEF new
  <2>4. /\ sample' \in Sample /\ sample'.tag \in {"ready", "failed"}
        /\ sample'.tag = "ready" => /\ sample'.free = sample'.room /\ sample'.spent = 0
                                    /\ ~sample'.refreshing /\ sample'.free \in Nat
    BY <1>1, <2>3, ProbedTyped, ReadyTyped
  <2>5. sample'.tag = "ready" => sample'.free <= sample'.room
    BY <2>4
  <2> QED  BY <1>1, <2>2, <2>3, <2>4, <2>5, ProbeEnds
<1>3. CASE ProbeCancelled(c)
  <2>1. sample' = GivesBack(c) /\ claim' = [claim EXCEPT ![c] = Idle]
    BY <1>3 DEF ProbeCancelled, Return
  <2>2. CASE claim[c].at = "low"
    <3>1. FALSE \in BOOLEAN  OBVIOUS
    <3>2. sample' = Estimate(claim[c].prior, claim[c].room, FALSE)
      BY <2>1, <2>2 DEF GivesBack
    <3>3. /\ sample' \in ReadySample /\ sample'.free = claim[c].prior /\ sample'.room = claim[c].room
          /\ sample'.spent = 0 /\ ~sample'.refreshing
      BY <1>1, <3>1, <3>2, EstimateTyped
    <3> QED  BY <1>1, <2>1, <2>2, <3>3, IdleTyped, ReadyTyped, ProbeEnds
  <2>3. CASE claim[c].at # "low"
    <3>1. sample' = Failed(ArchiveOf[c])
      BY <2>1, <2>3 DEF GivesBack
    <3> QED  BY <1>1, <2>1, <3>1, IdleTyped, FailedTyped, ProbeEnds
  <2> QED  BY <2>2, <2>3
<1> QED  BY <1>2, <1>3

LEMMA ProbeStartsKeeps ==
    ASSUME PressureInv, NEW c \in Claimant, ProbeAgain(c) \/ ProbeLow(c)
    PROVE  PressureInv'
<1>1. claim[c] \in ClaimState /\ sample \in Sample
  BY PressureTypes DEF PressureInv
<1>2. CASE ProbeAgain(c)
  <2>1. [claim[c] EXCEPT !.at = "probing"] \in ClaimState /\ [claim[c] EXCEPT !.at = "probing"].at = "probing"
    BY <1>1 DEF ClaimState
  <2>2. /\ claim' = [claim EXCEPT ![c] = [claim[c] EXCEPT !.at = "probing"]]
        /\ sample.tag = "failed" /\ sample' = Pending /\ prober' = prober
    BY <1>2 DEF ProbeAgain
  <2> QED  BY <2>1, <2>2, ProbeStarts
<1>3. CASE ProbeLow(c)
  <2> DEFINE new == [claim[c] EXCEPT !.at = "low", !.prior = sample.free, !.room = sample.room]
  <2>1. /\ sample.tag = "ready" /\ ~sample.refreshing /\ sample' = Pending /\ prober' = prober
        /\ claim' = [claim EXCEPT ![c] = new]
    BY <1>3, PressureTypes DEF ProbeLow, Short, Looping, PressureInv
  <2>2. sample.free \in 0..MaxFree /\ sample.room \in Int /\ (sample.free = 0 \/ sample.free <= sample.room)
    BY <1>1, <2>1, SampleKinds, ReadyTyped DEF PressureInv, Covered
  <2>3. new \in ClaimState /\ new.at = "low" /\ new.prior = sample.free /\ new.room = sample.room
    BY <1>1, <2>2 DEF ClaimState
  <2> HIDE DEF new
  <2> QED  BY <2>1, <2>2, <2>3, ProbeStarts
<1> QED  BY <1>2, <1>3

LEMMA PressureStep == PressureInv /\ [PressureNext]_pressureVars => PressureInv'
<1> SUFFICES ASSUME PressureInv, [PressureNext]_pressureVars PROVE PressureInv'
  OBVIOUS
<1>0. /\ sample \in Sample /\ prober \in ProberState /\ claim \in [Claimant -> ClaimState]
      /\ Covered(sample, prober) /\ AtWork(sample, prober, Probing) /\ LowSound
  BY PressureTypes DEF PressureInv
<1>1. CASE FirstProbe
  <2>1. PICK path \in Archive : sample' \in Probed(path)
    BY <1>1 DEF FirstProbe
  <2>2. /\ sample' \in Sample /\ sample'.tag \in {"ready", "failed"}
        /\ sample'.tag = "ready" => /\ sample'.free = sample'.room /\ sample'.spent = 0
                                    /\ ~sample'.refreshing /\ sample'.free \in Nat
    BY <2>1, ProbedTyped, ReadyTyped
  <2>3. prober' = None /\ claim' = claim /\ Probing = {}
    BY <1>0, <1>1 DEF FirstProbe, AtWork
  <2>4. Probing' = {} /\ LowSound'
    BY <1>0, <2>3 DEF Probing, LowSound
  <2>5. Covered(sample', prober') /\ AtWork(sample', prober', Probing')
    BY <2>2, <2>3, <2>4, IdleTyped, FreshCovered DEF AtWork
  <2> QED  BY <1>0, <2>2, <2>3, <2>4, <2>5, IdleTyped, PressureKept
<1>2. CASE Ages
  <2>1. /\ sample' \in Sample /\ sample'.tag = sample.tag /\ prober' = prober /\ claim' = claim
        /\ sample.tag = "ready" => /\ sample'.free = sample.free /\ sample'.room = sample.room
                                   /\ sample'.spent = sample.spent /\ sample'.refreshing = sample.refreshing
    BY <1>0, <1>2 DEF Ages, Sample
  <2>2. Probing' = Probing /\ LowSound'
    BY <1>0, <2>1 DEF Probing, LowSound
  <2>3. Covered(sample', prober')
    BY <1>0, <2>1 DEF Covered
  <2>4. AtWork(sample', prober', Probing')
    BY <1>0, <2>1, <2>2 DEF AtWork
  <2> QED  BY <1>0, <2>1, <2>2, <2>3, <2>4, PressureKept
<1>3. ASSUME NEW c \in Claimant, Begin(c) PROVE PressureInv'
  <2>1. PICK bytes \in 1..MaxFree :
           claim' = [claim EXCEPT ![c] = [Idle EXCEPT !.at = "loop", !.bytes = bytes]]
    BY <1>3 DEF Begin
  <2>2. bytes \in 0..MaxFree /\ TRUE \in BOOLEAN
    BY PressureAssumption
  <2>3. /\ [Idle EXCEPT !.at = "loop", !.bytes = bytes] \in ClaimState
        /\ [Idle EXCEPT !.at = "loop", !.bytes = bytes].at = "loop"
    BY <2>2, ClaimStates
  <2> QED  BY <1>0, <1>3, <2>1, <2>3, ClaimGoesOn DEF Begin
<1>4. ASSUME NEW c \in Claimant, Cancelled(c) \/ StillFailed(c) PROVE PressureInv'
  BY <1>0, <1>4, IdleTyped, ClaimGoesOn DEF Cancelled, StillFailed, Return
<1>5. ASSUME NEW c \in Claimant, Refuse(c) PROVE PressureInv'
  <2>1. /\ sample.tag = "ready" /\ sample' = Found(c) /\ prober' = prober
        /\ claim' = [claim EXCEPT ![c] = Idle] /\ claim[c].at = "loop"
    BY <1>5 DEF Refuse, Short, Looping, Return
  <2>2. /\ sample' \in ReadySample /\ sample'.free = sample.free /\ sample'.room = sample.room
        /\ sample'.spent = sample.spent /\ sample'.refreshing = sample.refreshing
    BY <2>1, FoundKeeps
  <2>3. Covered(sample', prober')
    BY <1>0, <2>1, <2>2 DEF Covered
  <2> QED  BY <1>0, <2>1, <2>2, <2>3, IdleTyped, ReadyTyped, ClaimGoesOn
<1>6. CASE UNCHANGED pressureVars
  <2>1. Probing' = Probing /\ LowSound'
    BY <1>0, <1>6 DEF Probing, LowSound, pressureVars
  <2> QED  BY <1>0, <1>6, <2>1, PressureKept DEF pressureVars
<1> QED
  BY <1>1, <1>2, <1>3, <1>4, <1>5, <1>6, RefreshThread, AdmitKeeps, RefreshKeeps, ProbeEndsKeeps,
     ProbeStartsKeeps DEF PressureNext, ClaimStep

\* However claims, probes, refreshes and cancelled probes interleave, the estimate
\* of free space offers no more than was read less what was admitted since, and
\* while it is pending or refreshed exactly one thread is at work on it.
THEOREM EstimateSound == PressureSpec => []EstimateIsSound
<1>1. PressureSpec => []PressureInv
  BY PressureInitial, PressureStep, PTL DEF PressureSpec
<1> QED  BY <1>1, PressureInvImplies, PTL
=============================================================================
