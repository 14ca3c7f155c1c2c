----------------------------- MODULE ProcessProofs -----------------------------
(***************************************************************************)
(* Proofs about ProcessRegistry and ProcessDelivery, for any number of     *)
(* processes, calls and readers and any retention.                         *)
(*                                                                         *)
(* The registry.  The argument is one inductive invariant, IInv: a         *)
(* process's waiter count is the number of calls that hold it, so whoever  *)
(* sees a zero count knows that nobody else will report it.                *)
(*                                                                         *)
(* The turn loop.  Every step of the loop is a step of the registry or     *)
(* leaves it alone, so all that is shown of the registry holds here.  What *)
(* the loop adds rests on one fact: outside a wave no tool call runs, so   *)
(* between the snapshot of a request and its delivery nobody else tells    *)
(* the model of a process the request names.                               *)
(***************************************************************************)
EXTENDS ProcessDelivery, FiniteSetTheorems, WellFoundedInduction, TLAPS

-----------------------------------------------------------------------------
(* The registry. *)

\* A call that is not idle works on a process that was launched.
CallsRefer ==
    \A c \in Call :
        call[c].at # "idle" => call[c].process \in Process /\ Launched(call[c].process)

\* Only launched processes are listed.
ListedLaunched == \A p \in entries : Launched(p)

\* Only launched processes have an outcome.
EndedLaunched == \A p \in Process : Ended(p) => Launched(p)

IInv ==
    /\ TypeOK
    /\ CallsRefer
    /\ ListedLaunched
    /\ EndedLaunched
    /\ NumbersAreDense
    /\ WaitersCounted
    /\ NoEndingLost
    /\ OwedStaysListed

-----------------------------------------------------------------------------
(* Holders and their number. *)

LEMMA HoldersFinite ==
    ASSUME NEW p \in Process
    PROVE  /\ IsFiniteSet(Holders(p))
           /\ Cardinality(Holders(p)) \in Nat
<1>1. Holders(p) \subseteq Call  BY DEF Holders
<1>2. IsFiniteSet(Holders(p))  BY <1>1, CallAssumption, FS_Subset
<1> QED  BY <1>2, FS_CardinalityType

\* A counted call sees a positive count.
LEMMA HeldIsCounted ==
    ASSUME TypeOK, WaitersCounted, NEW c \in Call,
           call[c].at \in Holding, call[c].process \in Process
    PROVE  state[call[c].process].waiters \in Nat \ {0}
<1> DEFINE p == call[c].process
<1>1. c \in Holders(p)  BY DEF Holders
<1>2. Cardinality(Holders(p)) # 0  BY <1>1, HoldersFinite, FS_EmptySet
<1> QED  BY <1>2, HoldersFinite DEF WaitersCounted

LEMMA HoldersGrow ==
    ASSUME NEW p \in Process, NEW c \in Call, c \notin Holders(p),
           Holders(p)' = Holders(p) \cup {c}
    PROVE  Cardinality(Holders(p)') = Cardinality(Holders(p)) + 1
BY HoldersFinite, FS_AddElement

LEMMA HoldersShrink ==
    ASSUME NEW p \in Process, NEW c \in Holders(p),
           Holders(p)' = Holders(p) \ {c}
    PROVE  Cardinality(Holders(p)') = Cardinality(Holders(p)) - 1
BY HoldersFinite, FS_RemoveElement

-----------------------------------------------------------------------------
(* Initially, and steps that leave the calls and the counts alone. *)

LEMMA InitHolds == Init => IInv
<1> SUFFICES ASSUME Init PROVE IInv  OBVIOUS
<1>1. TypeOK
  BY DEF Init, TypeOK, State, NewState, Registered, CallState, IdleCall, Calling, Place,
     Scan, NoScan
<1>2. \A p \in Process : Holders(p) = {}
  BY DEF Init, Holders, Holding, IdleCall, Calling
<1>3. WaitersCounted
  BY <1>2, FS_EmptySet DEF WaitersCounted, Init, NewState, Registered
<1>4. /\ CallsRefer /\ ListedLaunched /\ NoEndingLost /\ OwedStaysListed
      /\ EndedLaunched /\ NumbersAreDense
  BY DEF Init, CallsRefer, EndedLaunched, NumbersAreDense, Numbered, ListedLaunched, NoEndingLost, OwedStaysListed, Ended, Launched,
         IdleCall, Calling, NewState, Registered
<1> QED  BY <1>1, <1>3, <1>4 DEF IInv

\* A call that moves between places outside Holding, or within it, and does not
\* come from "owed", disturbs no count.
LEMMA CallMoves ==
    ASSUME IInv, NEW c \in Call, NEW new \in CallState,
           call' = [call EXCEPT ![c] = new],
           new.at # "idle" => new.process \in Process /\ Launched(new.process),
           call[c].at \in Holding <=> new.at \in Holding,
           call[c].at \in Holding => new.process = call[c].process,
           call[c].at # "owed",
           UNCHANGED <<scope, entries, launches, sequence, state, cursor, scan, shown>>,
           stop' \in SUBSET Process
    PROVE  IInv'
<1>1. TypeOK'
  BY DEF IInv, TypeOK
<1>2. CallsRefer'
  BY DEF IInv, CallsRefer, TypeOK, Launched
<1>3. \A p \in Process : Holders(p)' = Holders(p)
  BY DEF Holders, IInv, TypeOK
<1>4. WaitersCounted'
  BY <1>3 DEF IInv, WaitersCounted
<1>5. \A p \in Process : Owing(p) \subseteq Owing(p)'
  BY DEF Owing, IInv, TypeOK
<1>6. NoEndingLost'
  BY <1>3, <1>5 DEF IInv, NoEndingLost, Ended, Numbered
<1>7. ListedLaunched' /\ OwedStaysListed' /\ EndedLaunched' /\ NumbersAreDense'
  BY DEF IInv, ListedLaunched, OwedStaysListed, EndedLaunched, NumbersAreDense, Numbered,
         Launched, Ended
<1> QED  BY <1>1, <1>2, <1>4, <1>6, <1>7 DEF IInv

\* A step that changes neither the calls nor any process keeps the invariant.
LEMMA CallsAndStateKept ==
    ASSUME IInv, TypeOK', UNCHANGED <<call, state>>,
           scope' = "open" => scope = "open" /\ entries' = entries,
           entries' \subseteq entries,
           sequence' = sequence
    PROVE  IInv'
<1>1. \A p \in Process : Holders(p)' = Holders(p) /\ Owing(p)' = Owing(p)
  BY DEF Holders, Owing
<1>2. WaitersCounted' /\ NoEndingLost'
  BY <1>1 DEF IInv, WaitersCounted, NoEndingLost, Ended, Numbered
<1>3. CallsRefer' /\ ListedLaunched' /\ OwedStaysListed' /\ EndedLaunched' /\ NumbersAreDense'
  BY DEF IInv, CallsRefer, ListedLaunched, OwedStaysListed, EndedLaunched, NumbersAreDense,
         Numbered, Launched, Ended
<1> QED  BY <1>2, <1>3 DEF IInv

\* Marking processes as reported, or releasing one, keeps the invariant.
LEMMA StateMarks ==
    ASSUME IInv, state' \in [Process -> State],
           UNCHANGED <<scope, entries, launches, sequence, stop, call, cursor, scan, shown>>,
           \A p \in Process :
               /\ state'[p].born = state[p].born
               /\ state'[p].outcome = state[p].outcome
               /\ state'[p].waiters = state[p].waiters
               /\ state'[p].sequence = state[p].sequence
               /\ state[p].reported => state'[p].reported
    PROVE  IInv'
<1>1. TypeOK'
  BY DEF IInv, TypeOK
<1>2. \A p \in Process : Holders(p)' = Holders(p) /\ Owing(p)' = Owing(p)
  BY DEF Holders, Owing
<1>3. WaitersCounted' /\ NoEndingLost'
  BY <1>2 DEF IInv, WaitersCounted, NoEndingLost, Ended, Numbered
<1>4. CallsRefer' /\ ListedLaunched' /\ OwedStaysListed' /\ EndedLaunched' /\ NumbersAreDense'
  BY DEF IInv, TypeOK, CallsRefer, ListedLaunched, OwedStaysListed, EndedLaunched,
         NumbersAreDense, Numbered, Launched, Ended
<1> QED  BY <1>1, <1>3, <1>4 DEF IInv

-----------------------------------------------------------------------------
(* Steps that count a waiter in or out. *)

LEMMA AdoptPreserves ==
    ASSUME IInv, NEW c \in Call, NEW p \in Process, NEW action \in Launch, Adopt(c, p, action)
    PROVE  IInv'
<1> DEFINE newCall == Calling("waiting", action, p)
           newState == Registered(launches + 1, 1)
<1>a. newCall \in CallState /\ newCall.at = "waiting" /\ newCall.process = p
  BY DEF CallState, Calling, Place, Holding, Launch
<1>b. newState \in State /\ newState.born = launches + 1 /\ newState.waiters = 1
      /\ newState.outcome = FALSE /\ newState.sequence = 0
  BY DEF IInv, TypeOK, State, Registered
<1>c. /\ call' = [call EXCEPT ![c] = newCall]
      /\ state' = [state EXCEPT ![p] = newState]
      /\ call[c].at = "idle" /\ state[p].born = 0
      /\ entries' = (entries \ Forgotten) \cup {p}
      /\ launches' = launches + 1
      /\ UNCHANGED <<scope, sequence, stop, cursor, scan, shown>>
  BY DEF Adopt, Launched, IInv, TypeOK, State
<1> HIDE DEF newCall, newState
<1>d. /\ call'[c] = newCall /\ \A d \in Call \ {c} : call'[d] = call[d]
      /\ state'[p] = newState /\ \A q \in Process \ {p} : state'[q] = state[q]
  BY <1>c DEF IInv, TypeOK
<1>1. TypeOK'
  <2>1. state' \in [Process -> State] /\ call' \in [Call -> CallState]
    BY <1>a, <1>b, <1>c DEF IInv, TypeOK
  <2>2. entries' \subseteq Process /\ launches' \in Nat
    BY <1>c DEF IInv, TypeOK, Forgotten
  <2> QED  BY <1>c, <2>1, <2>2 DEF IInv, TypeOK
<1>2. Launched(p)' /\ \A q \in Process : Launched(q) => Launched(q)'
  BY <1>b, <1>d DEF Launched, IInv, TypeOK
<1>3. CallsRefer'
  BY <1>a, <1>d, <1>2 DEF IInv, CallsRefer
<1>e. EndedLaunched'
  BY <1>b, <1>d, <1>2 DEF IInv, EndedLaunched, Ended, Launched
<1>f. NumbersAreDense'
  <2>1. ~Numbered(p)
    BY <1>c DEF IInv, EndedLaunched, NumbersAreDense, Launched
  <2>2. state'[p].sequence = state[p].sequence
    BY <2>1, <1>b, <1>d DEF Numbered, IInv, TypeOK, State
  <2>3. \A q \in Process : /\ state'[q].sequence = state[q].sequence
                           /\ Numbered(q) => state'[q].outcome = state[q].outcome
    BY <2>1, <2>2, <1>d
  <2> QED  BY <2>3, <1>c DEF IInv, NumbersAreDense, Numbered, Ended
<1>4. ListedLaunched'
  BY <1>c, <1>2 DEF IInv, TypeOK, ListedLaunched
<1>5. Holders(p) = {}
  BY <1>c DEF IInv, CallsRefer, Holders, Holding, Launched
<1>6. Holders(p)' = {c}
  <2>1. c \in Holders(p)'  BY <1>a, <1>d DEF Holders, Holding
  <2>2. \A d \in Call \ {c} : d \notin Holders(p)'  BY <1>d, <1>5 DEF Holders
  <2> QED  BY <2>1, <2>2 DEF Holders
<1>7. \A q \in Process \ {p} : Holders(q)' = Holders(q) /\ Owing(q)' = Owing(q)
  BY <1>a, <1>c, <1>d DEF Holders, Owing, Holding
<1>8. WaitersCounted'
  <2>1. Cardinality(Holders(p)') = 1  BY <1>6, FS_Singleton
  <2>2. \A q \in Process \ {p} : state'[q].waiters = Cardinality(Holders(q)')
    BY <1>7, <1>d DEF IInv, WaitersCounted
  <2> QED  BY <1>b, <1>d, <2>1, <2>2 DEF WaitersCounted
<1>9. NoEndingLost'
  BY <1>7, <1>b, <1>d DEF IInv, NoEndingLost, Ended, Numbered
<1>10. OwedStaysListed'
  <2> SUFFICES ASSUME NEW q \in Process \ {p}, scope' = "open", Launched(q)',
                      ~(Ended(q)' /\ state'[q].reported)
               PROVE  q \in entries'
    BY <1>c DEF OwedStaysListed
  <2>1. q \in entries /\ ~Forgettable(q)
    BY <1>c, <1>d DEF IInv, OwedStaysListed, Launched, Ended, Forgettable
  <2> QED  BY <1>c, <2>1 DEF Forgotten
<1> QED  BY <1>1, <1>3, <1>4, <1>e, <1>f, <1>8, <1>9, <1>10 DEF IInv

LEMMA BeginWaitPreserves ==
    ASSUME IInv, NEW c \in Call, NEW p \in Process, call[c].process = p, BeginWait(c)
    PROVE  IInv'
<1> DEFINE newCall == [Calling("waiting", call[c].action, p) EXCEPT !.generation = state[p].released]
           newState == [state[p] EXCEPT !.waiters = @ + 1]
<1>0. Launched(p) /\ call[c].at = "ready" /\ state[p] \in State
  BY DEF IInv, TypeOK, CallsRefer, BeginWait
<1>a. newCall \in CallState /\ newCall.at = "waiting" /\ newCall.process = p
  BY <1>0 DEF IInv, TypeOK, CallState, Calling, Place, Holding, State
<1>b. newState \in State /\ newState.waiters = state[p].waiters + 1
      /\ \A f \in {"born", "outcome", "sequence", "reported"} : newState[f] = state[p][f]
  BY <1>0 DEF State
<1>c. /\ call' = [call EXCEPT ![c] = newCall]
      /\ state' = [state EXCEPT ![p] = newState]
      /\ UNCHANGED <<scope, entries, launches, sequence, stop, cursor, scan, shown>>
  BY DEF BeginWait
<1> HIDE DEF newCall, newState
<1>d. /\ call'[c] = newCall /\ \A d \in Call \ {c} : call'[d] = call[d]
      /\ state'[p] = newState /\ \A q \in Process \ {p} : state'[q] = state[q]
  BY <1>0, <1>c DEF IInv, TypeOK
<1>1. TypeOK'
  BY <1>a, <1>b, <1>c DEF IInv, TypeOK
<1>2. \A q \in Process : /\ state'[q].born = state[q].born
                         /\ state'[q].outcome = state[q].outcome
                         /\ state'[q].sequence = state[q].sequence
                         /\ state'[q].reported = state[q].reported
  BY <1>b, <1>d
<1>3. c \notin Holders(p) /\ Holders(p)' = Holders(p) \cup {c}
  BY <1>0, <1>a, <1>d DEF Holders, Holding
<1>4. \A q \in Process \ {p} : Holders(q)' = Holders(q)
  BY <1>0, <1>a, <1>d DEF Holders, Holding
<1>5. \A q \in Process : Owing(q)' = Owing(q)
  BY <1>0, <1>a, <1>d DEF Owing
<1>6. CallsRefer' /\ ListedLaunched' /\ OwedStaysListed' /\ EndedLaunched' /\ NumbersAreDense'
  BY <1>0, <1>a, <1>c, <1>d, <1>2 DEF IInv, TypeOK, CallsRefer, ListedLaunched,
     OwedStaysListed, EndedLaunched, NumbersAreDense, Numbered, Launched, Ended
<1>7. WaitersCounted'
  <2>1. state'[p].waiters = Cardinality(Holders(p)')
    BY <1>0, <1>3, <1>b, <1>d, HoldersGrow DEF IInv, WaitersCounted
  <2>2. \A q \in Process \ {p} : state'[q].waiters = Cardinality(Holders(q)')
    BY <1>4, <1>d DEF IInv, WaitersCounted
  <2> QED  BY <2>1, <2>2 DEF WaitersCounted
<1>8. NoEndingLost'
  BY <1>2, <1>3, <1>4, <1>5 DEF IInv, NoEndingLost, Ended, Numbered
<1> QED  BY <1>1, <1>6, <1>7, <1>8 DEF IInv

\* A call stops waiting: it has reported the ending, or it will hand it back.
LEMMA CountedOut ==
    ASSUME IInv, NEW c \in Call, NEW p \in Process,
           call[c].process = p, call[c].at \in Holding,
           NEW newCall \in CallState, NEW newState \in State,
           newCall.at \in {"idle", "owed"},
           newCall.at = "owed" => newCall.process = p,
           newState.waiters = state[p].waiters - 1,
           newState.born = state[p].born,
           newState.outcome = state[p].outcome,
           newState.sequence = state[p].sequence,
           state[p].reported => newState.reported,
           state[p].outcome => newState.reported \/ newCall.at = "owed",
           call' = [call EXCEPT ![c] = newCall],
           state' = [state EXCEPT ![p] = newState],
           UNCHANGED <<scope, entries, launches, sequence, stop, cursor, scan, shown>>
    PROVE  IInv'
<1>0. Launched(p)
  BY DEF IInv, CallsRefer, Holding
<1>1. /\ call'[c] = newCall /\ \A d \in Call \ {c} : call'[d] = call[d]
      /\ state'[p] = newState /\ \A q \in Process \ {p} : state'[q] = state[q]
  BY DEF IInv, TypeOK
<1>2. TypeOK'
  BY DEF IInv, TypeOK
<1>3. CallsRefer' /\ ListedLaunched' /\ OwedStaysListed' /\ EndedLaunched'
  BY <1>0, <1>1 DEF IInv, TypeOK, CallsRefer, ListedLaunched, OwedStaysListed, EndedLaunched,
     Launched, Ended
<1>9. NumbersAreDense'
  <2>1. \A q \in Process : /\ state'[q].sequence = state[q].sequence
                           /\ state'[q].outcome = state[q].outcome
    BY <1>1
  <2> QED  BY <2>1 DEF IInv, NumbersAreDense, Numbered, Ended
<1>4. c \in Holders(p) /\ Holders(p)' = Holders(p) \ {c}
  BY <1>1 DEF Holders, Holding
<1>5. \A q \in Process \ {p} : Holders(q)' = Holders(q)
  BY <1>1 DEF Holders, Holding
<1>6. \A q \in Process : Owing(q) \subseteq Owing(q)'
  BY <1>1 DEF Owing, Holding
<1>7. WaitersCounted'
  <2>1. state'[p].waiters = Cardinality(Holders(p)')
    BY <1>1, <1>4, HoldersShrink DEF IInv, WaitersCounted
  <2>2. \A q \in Process \ {p} : state'[q].waiters = Cardinality(Holders(q)')
    BY <1>1, <1>5 DEF IInv, WaitersCounted
  <2> QED  BY <2>1, <2>2 DEF WaitersCounted
<1>8. NoEndingLost'
  <2>1. \A q \in Process \ {p} :
           Ended(q)' => state'[q].reported \/ Numbered(q)' \/ Holders(q)' # {} \/ Owing(q)' # {}
    BY <1>1, <1>5, <1>6 DEF IInv, NoEndingLost, Ended, Numbered
  <2>2. newCall.at = "owed" => c \in Owing(p)'
    BY <1>1 DEF Owing
  <2>3. Ended(p)' => state'[p].reported \/ Owing(p)' # {}
    BY <1>1, <2>2 DEF Ended
  <2> QED  BY <2>1, <2>3 DEF NoEndingLost
<1> QED  BY <1>2, <1>3, <1>7, <1>8, <1>9 DEF IInv

\* Entry::transition numbers exactly the endings that nobody else accounts for:
\* with no waiter counted, no call is left that would report this one.
LEMMA TransitionPreserves ==
    ASSUME IInv, NEW p \in Process, NEW s \in State, Transition(p, s),
           s.born = state[p].born, s.waiters = state[p].waiters,
           s.sequence = state[p].sequence, s.reported = state[p].reported,
           \/ UNCHANGED call
           \/ \E c \in Call : /\ call[c].at = "owed" /\ call[c].process = p
                              /\ call' = [call EXCEPT ![c] = IdleCall],
           UNCHANGED <<scope, entries, launches, stop, cursor, scan, shown>>,
           state[p].outcome => s.outcome, Launched(p)
    PROVE  IInv'
<1> DEFINE numbered == [s EXCEPT !.sequence = sequence + 1]
           new == IF Unannounced(s) THEN numbered ELSE s
<1>a. /\ numbered \in State /\ numbered.sequence > 0
      /\ \A f \in {"born", "waiters", "outcome", "reported"} : numbered[f] = s[f]
  BY DEF IInv, TypeOK, State
<1>b. /\ state' = [state EXCEPT ![p] = new]
      /\ sequence' \in Nat
  BY DEF Transition, IInv, TypeOK
<1>c. /\ new \in State
      /\ new.born = s.born /\ new.waiters = s.waiters
      /\ new.outcome = s.outcome /\ new.reported = s.reported
      /\ \/ new.sequence > 0
         \/ new = s /\ ~Unannounced(s)
  <2>1. CASE Unannounced(s)
    <3>1. new = numbered  BY <2>1
    <3> HIDE DEF numbered, new
    <3> QED  BY <3>1, <1>a
  <2>2. CASE ~Unannounced(s)
    BY <2>2
  <2> QED  BY <2>1, <2>2
<1> HIDE DEF new
<1>1. /\ state'[p] = new /\ \A q \in Process \ {p} : state'[q] = state[q]
  BY <1>b, <1>c DEF IInv, TypeOK
<1>2. call' \in [Call -> CallState]
  <2>1. IdleCall \in CallState
    BY DEF IdleCall, Calling, CallState, Place
  <2> QED  BY <2>1 DEF IInv, TypeOK
<1>3. TypeOK'
  BY <1>b, <1>c, <1>2 DEF IInv, TypeOK
<1>4. \A d \in Call :
         \/ call'[d] = call[d]
         \/ call'[d].at = "idle" /\ call[d].at = "owed" /\ call[d].process = p
  <2>1. CASE UNCHANGED call
    BY <2>1
  <2>2. CASE \E c \in Call : /\ call[c].at = "owed" /\ call[c].process = p
                             /\ call' = [call EXCEPT ![c] = IdleCall]
    <3>1. IdleCall.at = "idle"
      BY DEF IdleCall, Calling
    <3> QED  BY <2>2, <3>1 DEF IInv, TypeOK
  <2> QED  BY <2>1, <2>2
<1>5. CallsRefer' /\ ListedLaunched' /\ OwedStaysListed' /\ EndedLaunched'
  BY <1>1, <1>c, <1>4 DEF IInv, TypeOK, CallsRefer, ListedLaunched, OwedStaysListed,
     EndedLaunched, Launched, Ended
<1>10. NumbersAreDense'
  <2>1. CASE Unannounced(s)
    <3>1. sequence' = sequence + 1 /\ new.sequence = sequence + 1 /\ new.outcome
      BY <2>1, <1>a, <1>c DEF Transition, Unannounced, new, State
    <3>2. state[p].sequence = 0
      BY <2>1 DEF Unannounced
    <3>3. \A q \in Process : state[q].sequence \in Nat /\ sequence \in Nat
                             /\ state[q].sequence <= sequence
      BY DEF IInv, TypeOK, State, NumbersAreDense, Numbered
    <3>4. \A q \in Process \ {p} :
             state'[q].sequence = state[q].sequence /\ state'[q].outcome = state[q].outcome
      BY <1>1
    <3>5. \A q, r \in Process : Numbered(q)' /\ state'[q].sequence = state'[r].sequence => q = r
      BY <3>1, <3>3, <3>4, <1>1 DEF IInv, NumbersAreDense, Numbered
    <3>6. \A q \in Process : Numbered(q)' => Ended(q)' /\ state'[q].sequence <= sequence'
      BY <3>1, <3>3, <3>4, <1>1 DEF IInv, NumbersAreDense, Numbered, Ended
    <3>7. ASSUME NEW n \in 1..sequence' PROVE \E q \in Process : state'[q].sequence = n
      <4>1. CASE n = sequence + 1
        BY <4>1, <3>1, <1>1
      <4>2. CASE n \in 1..sequence
        <5>1. PICK q \in Process : state[q].sequence = n
          BY <4>2 DEF IInv, NumbersAreDense
        <5>2. q # p
          BY <5>1, <4>2, <3>2, <3>3
        <5> QED  BY <5>1, <5>2, <3>4
      <4> QED  BY <4>1, <4>2, <3>1, <3>3
    <3> QED  BY <3>5, <3>6, <3>7 DEF NumbersAreDense
  <2>2. CASE ~Unannounced(s)
    <3>1. sequence' = sequence /\ new = s
      BY <2>2 DEF Transition, new
    <3>2. \A q \in Process : /\ state'[q].sequence = state[q].sequence
                             /\ state[q].outcome => state'[q].outcome
      BY <3>1, <1>1
    <3> QED  BY <3>1, <3>2 DEF IInv, NumbersAreDense, Numbered, Ended
  <2> QED  BY <2>1, <2>2
<1>6. \A q \in Process : Holders(q)' = Holders(q)
  BY <1>4 DEF Holders, Holding
<1>7. WaitersCounted'
  BY <1>1, <1>c, <1>6 DEF IInv, WaitersCounted
<1>8. \A q \in Process \ {p} : Owing(q)' = Owing(q)
  BY <1>4 DEF Owing
<1>9. NoEndingLost'
  <2>1. \A q \in Process \ {p} :
           Ended(q)' => state'[q].reported \/ Numbered(q)' \/ Holders(q)' # {} \/ Owing(q)' # {}
    BY <1>1, <1>6, <1>8 DEF IInv, NoEndingLost, Ended, Numbered
  <2>2. s.waiters # 0 => Holders(p)' # {}
    BY <1>6, FS_EmptySet DEF IInv, WaitersCounted
  <2>3. Ended(p)' => state'[p].reported \/ Numbered(p)' \/ Holders(p)' # {}
    BY <1>1, <1>c, <2>2 DEF Ended, Numbered, Unannounced, State
  <2> QED  BY <2>1, <2>3 DEF NoEndingLost
<1> QED  BY <1>3, <1>5, <1>7, <1>9, <1>10 DEF IInv

-----------------------------------------------------------------------------
(* Every action. *)

\* What Calling builds, and when it is a call.
LEMMA CallingTyped ==
    ASSUME NEW at \in Place, NEW action \in Launch \cup Polling \cup {"none"},
           NEW p \in Process \cup {NoProcess}
    PROVE  /\ Calling(at, action, p) \in CallState
           /\ Calling(at, action, p).at = at
           /\ Calling(at, action, p).process = p
BY DEF Calling, CallState

\* The actions of a call that leave every count alone.
LEMMA QuietCallSteps ==
    ASSUME IInv, NEW c \in Call, NEW p \in Process, call[c].process = p, Launched(p),
           \/ CallStop(c) \/ CallInput(c) \/ WaitOver(c) \/ Cancel(c) \/ WaitElapsed(c)
           \/ StopForeground(c) \/ StopWaitOver(c) \/ (FinalOutcome(c) /\ ~Ended(p))
    PROVE  IInv'
<1> DEFINE a == call[c].action
<1>0. call[c] \in CallState /\ a \in Launch \cup Polling \cup {"none"} /\ stop \subseteq Process
  BY DEF IInv, TypeOK, CallState
<1>1. CASE CallStop(c)
  <2> DEFINE new == Calling("ready", "wait", p)
  <2>1. new \in CallState /\ new.at = "ready" /\ new.process = p
    BY CallingTyped DEF Place, Polling
  <2>2. call' = [call EXCEPT ![c] = new] /\ call[c].at = "found" /\ stop' \in SUBSET Process
    BY <1>0, <1>1 DEF CallStop
  <2> HIDE DEF new
  <2> QED  BY <1>1, <2>1, <2>2, CallMoves DEF CallStop, Holding
<1>2. CASE CallInput(c)
  <2>1. PICK new \in {Calling("ready", "wait", p), IdleCall} : call' = [call EXCEPT ![c] = new]
    BY <1>2 DEF CallInput
  <2>2. /\ new \in CallState /\ new.at \in {"ready", "idle"}
        /\ new.at # "idle" => new.process = p
    <3>1. CASE new = Calling("ready", "wait", p)
      BY <3>1, CallingTyped DEF Place, Polling
    <3>2. CASE new = IdleCall
      BY <3>2 DEF Place, IdleCall, Calling, CallState
    <3> QED  BY <3>1, <3>2
  <2>3. call[c].at = "found" /\ stop' \in SUBSET Process
    BY <1>0, <1>2 DEF CallInput
  <2> HIDE <2>1
  <2> QED  BY <1>2, <2>1, <2>2, <2>3, CallMoves DEF CallInput, Holding
<1>3. CASE WaitOver(c) \/ WaitElapsed(c)
  <2>1. PICK at \in {"ended", "cancelled"} : Leave(c, at)
    BY <1>3 DEF WaitOver, WaitElapsed
  <2> DEFINE new == Calling(at, a, p)
  <2>2. new \in CallState /\ new.at = at /\ new.process = p
    BY <1>0, CallingTyped DEF Place, Holding
  <2>3. call' = [call EXCEPT ![c] = new]
    BY <2>1 DEF Leave
  <2>4. call[c].at = "waiting" /\ stop' \in SUBSET Process
        /\ UNCHANGED <<scope, entries, launches, sequence, state, cursor, scan, shown>>
    BY <1>0, <1>3 DEF WaitOver, WaitElapsed
  <2> HIDE DEF new
  <2> QED  BY <2>2, <2>3, <2>4, CallMoves DEF Holding
<1>4. CASE Cancel(c)
  <2> DEFINE new == [call[c] EXCEPT !.cancel = TRUE]
  <2>1. new \in CallState /\ new.at = call[c].at /\ new.process = p
    BY <1>0 DEF CallState
  <2>2. call' = [call EXCEPT ![c] = new] /\ call[c].at = "waiting" /\ stop' \in SUBSET Process
    BY <1>0, <1>4 DEF Cancel
  <2> HIDE DEF new
  <2> QED  BY <1>4, <2>1, <2>2, CallMoves DEF Cancel, Holding
<1>5. CASE StopForeground(c) \/ StopWaitOver(c) \/ (FinalOutcome(c) /\ ~Ended(p))
  <2>1. PICK at \in Holding : call' = [call EXCEPT ![c].at = at]
    BY <1>5 DEF StopForeground, StopWaitOver, FinalOutcome, Holding
  <2> DEFINE new == [call[c] EXCEPT !.at = at]
  <2>2. new \in CallState /\ new.at = at /\ new.process = p
    BY <1>0 DEF CallState, Place
  <2>3. call' = [call EXCEPT ![c] = new]
    BY <2>1
  <2>4. call[c].at \in Holding /\ stop' \in SUBSET Process
        /\ UNCHANGED <<scope, entries, launches, sequence, state, cursor, scan, shown>>
    BY <1>0, <1>5 DEF StopForeground, StopWaitOver, FinalOutcome, Holding
  <2> HIDE DEF new
  <2> QED  BY <2>2, <2>3, <2>4, CallMoves DEF Holding
<1> QED  BY <1>1, <1>2, <1>3, <1>4, <1>5

\* What ending a wait leaves of an entry.
LEMMA CountOutTyped ==
    ASSUME NEW s \in State, s.waiters # 0,
           NEW new \in {AfterFinal(s), AfterReport(s), AfterFailure(s)}
    PROVE  /\ new \in State
           /\ new.waiters = s.waiters - 1
           /\ new.born = s.born
           /\ new.outcome = s.outcome
           /\ new.sequence = s.sequence
<1> DEFINE out == [s EXCEPT !.waiters = @ - 1]
<1>1. /\ out \in State /\ out.waiters = s.waiters - 1 /\ out.born = s.born
      /\ out.outcome = s.outcome /\ out.sequence = s.sequence /\ out.reported = s.reported
  BY DEF State
<1>2. AfterFinal(s) = [out EXCEPT !.reported = TRUE]
  BY DEF AfterFinal
<1>3. AfterFailure(s) = [out EXCEPT !.returned = TRUE]
  BY DEF AfterFailure
<1> DEFINE back == [out EXCEPT !.returned = TRUE]
<1>4. AfterReport(s) = [back EXCEPT !.reported = s.reported \/ s.outcome]
  BY DEF AfterReport, State
<1> HIDE DEF out
<1>5. /\ back \in State /\ back.waiters = s.waiters - 1 /\ back.born = s.born
      /\ back.outcome = s.outcome /\ back.sequence = s.sequence
  BY <1>1 DEF State
<1> HIDE DEF back
<1>6. CASE new = AfterFinal(s)
  BY <1>1, <1>2, <1>6 DEF State
<1>7. CASE new = AfterFailure(s)
  BY <1>1, <1>3, <1>7 DEF State
<1>8. CASE new = AfterReport(s)
  BY <1>5, <1>4, <1>8 DEF State
<1> QED  BY <1>6, <1>7, <1>8

\* Which of them say that the model has seen the ending.
LEMMA CountOutMarks ==
    ASSUME NEW s \in State
    PROVE  /\ AfterFinal(s).reported
           /\ s.reported => AfterReport(s).reported
           /\ s.outcome => AfterReport(s).reported
           /\ AfterReport(s).reported => s.reported \/ s.outcome
           /\ AfterFailure(s).reported = s.reported
BY DEF AfterFinal, AfterReport, AfterFailure, State

\* The actions of a call that end its wait or hand an ending back.
LEMMA ClosingCallSteps ==
    ASSUME IInv, NEW c \in Call, NEW p \in Process, call[c].process = p,
           (FinalOutcome(c) /\ Ended(p)) \/ Report(c) \/ ReportFails(c) \/ Owe(c)
    PROVE  IInv'
<1>0. /\ call[c] \in CallState /\ state[p] \in State
      /\ IdleCall \in CallState /\ IdleCall.at = "idle"
  BY CallingTyped DEF IInv, TypeOK, IdleCall, Place
<1>1. CASE FinalOutcome(c) /\ Ended(p)
  <2>1. call[c].at \in Holding
    BY <1>1 DEF FinalOutcome, Holding
  <2> DEFINE new == AfterFinal(state[p])
  <2>2. state[p].waiters \in Nat \ {0}
    BY <2>1, HeldIsCounted DEF IInv
  <2>3. /\ new \in State /\ new.waiters = state[p].waiters - 1 /\ new.reported
        /\ new.born = state[p].born /\ new.outcome = state[p].outcome
        /\ new.sequence = state[p].sequence
    BY <1>0, <2>2, CountOutTyped, CountOutMarks
  <2>4. state' = [state EXCEPT ![p] = new] /\ call' = [call EXCEPT ![c] = IdleCall]
    BY <1>1 DEF FinalOutcome
  <2> HIDE DEF new
  <2> QED  BY <1>0, <1>1, <2>1, <2>3, <2>4, CountedOut DEF FinalOutcome
<1>2. CASE Report(c)
  <2>1. call[c].at \in Holding
    BY <1>2 DEF Report, Reports, Holding
  <2> DEFINE new == AfterReport(state[p])
  <2>2. state[p].waiters \in Nat \ {0}
    BY <2>1, HeldIsCounted DEF IInv
  <2>3. /\ new \in State /\ new.waiters = state[p].waiters - 1
        /\ state[p].reported => new.reported
        /\ state[p].outcome => new.reported
        /\ new.born = state[p].born /\ new.outcome = state[p].outcome
        /\ new.sequence = state[p].sequence
    BY <1>0, <2>2, CountOutTyped, CountOutMarks
  <2>4. /\ state' = [state EXCEPT ![p] = new] /\ call' = [call EXCEPT ![c] = IdleCall]
        /\ UNCHANGED <<scope, entries, launches, sequence, stop, cursor, scan, shown>>
    BY <1>2 DEF Report
  <2>5. state[p].outcome => new.reported \/ IdleCall.at = "owed"
    BY <2>3
  <2> HIDE DEF new
  <2> QED  BY <1>0, <2>1, <2>3, <2>4, <2>5, CountedOut
<1>3. CASE ReportFails(c)
  <2>1. call[c].at \in Holding
    BY <1>3 DEF ReportFails, Reports, Holding
  <2> DEFINE new == AfterFailure(state[p])
             owing == Calling("owed", call[c].action, p)
  <2>2. state[p].waiters \in Nat \ {0}
    BY <2>1, HeldIsCounted DEF IInv
  <2>3. /\ new \in State /\ new.waiters = state[p].waiters - 1
        /\ new.reported = state[p].reported
        /\ new.born = state[p].born /\ new.outcome = state[p].outcome
        /\ new.sequence = state[p].sequence
    BY <1>0, <2>2, CountOutTyped, CountOutMarks
  <2>4. owing \in CallState /\ owing.at = "owed" /\ owing.process = p
    BY <1>0, CallingTyped DEF Place, CallState
  <2>5. state' = [state EXCEPT ![p] = new] /\ call' = [call EXCEPT ![c] = owing]
    BY <1>3 DEF ReportFails, Leave
  <2> HIDE DEF new, owing
  <2> QED  BY <1>3, <2>1, <2>3, <2>4, <2>5, CountedOut DEF ReportFails
<1>4. CASE Owe(c)
  <2>1. Launched(p) /\ call[c].at = "owed"
    BY <1>4 DEF Owe, IInv, CallsRefer
  <2> QED  BY <1>0, <1>4, <2>1, TransitionPreserves DEF Owe
<1> QED  BY <1>1, <1>2, <1>3, <1>4

\* Numbers are bounded by the counter, so a scan's result has a highest one.
LEMMA LatestIsNumber ==
    ASSUME TypeOK, NumbersAreDense, NEW found \in SUBSET Process, NEW from \in Nat
    PROVE  /\ Latest(found, from) \in Nat
           /\ found # {} => /\ \E p \in found : state[p].sequence = Latest(found, from)
                            /\ \A p \in found : state[p].sequence <= Latest(found, from)
<1> SUFFICES ASSUME found # {} PROVE \E n \in {state[p].sequence : p \in found} :
                                        /\ n \in Nat
                                        /\ \A p \in found : state[p].sequence <= n
  BY DEF Latest, TypeOK, State
<1>1. \A p \in Process : state[p].sequence \in Nat /\ sequence \in Nat
                         /\ state[p].sequence <= sequence
  BY DEF TypeOK, State, NumbersAreDense, Numbered
<1> DEFINE Bounds == {n \in Nat : \A p \in found : state[p].sequence <= n}
<1>2. sequence \in Bounds
  BY <1>1
<1>3. PICK m \in Bounds : \A n \in Bounds : ~(<<n, m>> \in OpToRel(<, Nat))
  BY <1>2, NatLessThanWellFounded, WFMin
<1>4. \A n \in Bounds : ~(n < m)
  BY <1>3 DEF OpToRel
<1>5. ASSUME \A p \in found : state[p].sequence # m PROVE FALSE
  <2>1. PICK q \in found : TRUE
    OBVIOUS
  <2>2. m - 1 \in Bounds
    BY <1>1, <1>5, <2>1
  <2> QED  BY <1>4, <2>2
<1> QED  BY <1>5

\* Scans only move the reader's own cursor, result and lock.
LEMMA ScanTyped ==
    ASSUME TypeOK, NumbersAreDense, NEW r \in Reader, ReaderStep(r)
    PROVE  TypeOK'
<1>1. CASE ScanBegin(r)
  BY <1>1 DEF ScanBegin, TypeOK, Scan
<1>2. ASSUME NEW p \in Process, ScanEntry(r, p) PROVE TypeOK'
  <2>1. scan[r].left \in SUBSET Process /\ scan[r].found \in SUBSET Process /\ scan[r] \in Scan
    BY DEF TypeOK, Scan
  <2> DEFINE found == IF state[p].sequence > cursor[r] THEN scan[r].found \cup {p} ELSE scan[r].found
             new == [on |-> TRUE, left |-> scan[r].left \ {p}, found |-> found]
  <2>2. new \in Scan
    BY <2>1 DEF Scan
  <2>3. scan' = [scan EXCEPT ![r] = new]
    BY <1>2 DEF ScanEntry
  <2> HIDE DEF new
  <2> QED  BY <1>2, <2>2, <2>3 DEF ScanEntry, TypeOK
<1>3. CASE ScanEnd(r)
  <2>1. Latest(scan[r].found, cursor[r]) \in Nat
    BY LatestIsNumber DEF TypeOK, Scan
  <2>2. shown' \in [Reader -> SUBSET Process]
    BY <1>3 DEF ScanEnd, TypeOK, Scan
  <2> QED  BY <1>3, <2>1, <2>2 DEF ScanEnd, TypeOK, Scan, NoScan
<1> QED  BY <1>1, <1>2, <1>3 DEF ReaderStep

\* The steps of monitors, interfaces, the agent and the conversation's owner.
LEMMA OtherSteps ==
    ASSUME IInv,
           \/ \E p \in Process : End(p) \/ InterfaceStep(p)
           \/ \E r \in Reader : ReaderStep(r)
           \/ AgentStep \/ StopAll \/ MonitorsJoined
           \/ \E c \in Call : List(c)
    PROVE  IInv'
<1>0. state \in [Process -> State] /\ entries \subseteq Process
  BY DEF IInv, TypeOK
<1>1. ASSUME NEW p \in Process, End(p) PROVE IInv'
  <2> DEFINE s == [state[p] EXCEPT !.outcome = TRUE]
  <2>1. /\ s \in State /\ s.outcome
        /\ \A f \in {"born", "waiters", "sequence", "reported"} : s[f] = state[p][f]
    BY <1>0 DEF State
  <2>2. /\ Transition(p, s) /\ Launched(p)
        /\ UNCHANGED <<scope, entries, launches, stop, call, cursor, scan, shown>>
    BY <1>1 DEF End
  <2> HIDE DEF s
  <2> QED  BY <2>1, <2>2, TransitionPreserves
<1>2. ASSUME NEW p \in Process, RequestStop(p) PROVE IInv'
  BY <1>2, CallsAndStateKept DEF RequestStop, IInv, TypeOK
<1>3. ASSUME NEW p \in Process, MoveToBackground(p) PROVE IInv'
  <2>1. state' = [state EXCEPT ![p] = [state[p] EXCEPT !.released = @ + 1]]
    BY <1>3 DEF MoveToBackground
  <2>2. \A q \in Process :
          /\ state'[q] \in State
          /\ \A f \in {"born", "outcome", "waiters", "sequence", "reported"} :
                 state'[q][f] = state[q][f]
    BY <1>0, <2>1 DEF State
  <2>3. state' \in [Process -> State]
    BY <1>0, <2>1, <2>2
  <2> QED  BY <1>3, <2>2, <2>3, StateMarks DEF MoveToBackground
<1>4. ASSUME NEW r \in Reader, ReaderStep(r) PROVE IInv'
  <2>1. TypeOK'
    BY <1>4, ScanTyped DEF IInv
  <2> QED  BY <1>4, <2>1, CallsAndStateKept DEF ReaderStep, ScanBegin, ScanEntry, ScanEnd
<1>5. ASSUME NEW ids, MarkReported(ids) PROVE IInv'
  <2>1. \A q \in Process :
          /\ state'[q] \in State
          /\ \A f \in {"born", "outcome", "waiters", "sequence"} : state'[q][f] = state[q][f]
          /\ state[q].reported => state'[q].reported
    BY <1>0, <1>5 DEF State, MarkReported
  <2>2. state' \in [Process -> State]
    BY <1>5, <2>1 DEF MarkReported
  <2> QED  BY <1>5, <2>1, <2>2, StateMarks DEF MarkReported
<1>6. ASSUME NEW c \in Call, List(c) PROVE IInv'
  <2>1. \A q \in Process :
          /\ state'[q] \in State
          /\ \A f \in {"born", "outcome", "waiters", "sequence"} : state'[q][f] = state[q][f]
          /\ state[q].reported => state'[q].reported
    BY <1>0, <1>6 DEF State, List
  <2>2. state' \in [Process -> State]
    BY <1>6, <2>1 DEF List
  <2> QED  BY <1>6, <2>1, <2>2, StateMarks DEF List
<1>7. CASE StopAll
  BY <1>7, CallsAndStateKept DEF StopAll, IInv, TypeOK
<1>8. CASE MonitorsJoined
  BY <1>8, CallsAndStateKept DEF MonitorsJoined, IInv, TypeOK
<1> QED  BY <1>1, <1>2, <1>3, <1>4, <1>5, <1>6, <1>7, <1>8 DEF InterfaceStep, AgentStep

-----------------------------------------------------------------------------
(* The theorems. *)

LEMMA StepPreserves == IInv /\ [Next]_vars => IInv'
<1> SUFFICES ASSUME IInv, [Next]_vars PROVE IInv'  OBVIOUS
<1>1. CASE UNCHANGED vars
  <2>1. TypeOK'
    BY <1>1 DEF IInv, TypeOK, vars
  <2> QED  BY <1>1, <2>1, CallsAndStateKept DEF vars
<1>2. ASSUME NEW c \in Call, CallBegins(c) PROVE IInv'
  <2>1. ASSUME NEW p \in Process, NEW action \in Launch, Adopt(c, p, action) PROVE IInv'
    BY <2>1, AdoptPreserves
  <2>2. ASSUME NEW p \in Process, NEW action \in Polling, Find(c, p, action) PROVE IInv'
    <3>1. PICK at \in {"ready", "found"} : call' = [call EXCEPT ![c] = Calling(at, action, p)]
      BY <2>2 DEF Find
    <3> DEFINE new == Calling(at, action, p)
    <3>2. new \in CallState /\ new.at = at /\ new.process = p
      BY CallingTyped DEF Place
    <3>3. Launched(p) /\ stop' \in SUBSET Process
      BY <2>2 DEF Find, IInv, ListedLaunched, TypeOK
    <3>4. call' = [call EXCEPT ![c] = new]
      BY <3>1
    <3> HIDE DEF new
    <3> QED  BY <2>2, <3>2, <3>3, <3>4, CallMoves DEF Find, Holding
  <2> QED  BY <1>2, <2>1, <2>2, OtherSteps DEF CallBegins
<1>3. ASSUME NEW c \in Call, CallStep(c) \/ Cancel(c) \/ WaitElapsed(c) PROVE IInv'
  <2>1. call[c].at # "idle"
    BY <1>3 DEF CallStep, Cancel, WaitElapsed, CallStop, CallInput, BeginWait, WaitOver,
       StopForeground, StopWaitOver, FinalOutcome, Report, ReportFails, Reports, Owe
  <2>2. PICK p \in Process : call[c].process = p /\ Launched(p)
    BY <2>1 DEF IInv, CallsRefer
  <2> QED  BY <1>3, <2>2, QuietCallSteps, ClosingCallSteps, BeginWaitPreserves DEF CallStep
<1> QED  BY <1>1, <1>2, <1>3, OtherSteps DEF Next

LEMMA Invariance == Spec => []IInv
BY InitHolds, StepPreserves, PTL DEF Spec

\* Type correctness of the registry.
THEOREM TypeCorrect == Spec => []TypeOK
<1>1. IInv => TypeOK  BY DEF IInv
<1> QED  BY <1>1, Invariance, PTL

\* Entry.waiters is, in every reachable state, the number of calls that will
\* still report the process.
THEOREM WaitersAreCounted == Spec => []WaitersCounted
<1>1. IInv => WaitersCounted  BY DEF IInv
<1> QED  BY <1>1, Invariance, PTL

\* No interleaving of calls, monitors and readers drops an ending.
THEOREM EndingsAreKept == Spec => []NoEndingLost
<1>1. IInv => NoEndingLost  BY DEF IInv
<1> QED  BY <1>1, Invariance, PTL

\* Retention forgets only what the model has seen, for every Retained.
THEOREM OwedIsListed == Spec => []OwedStaysListed
<1>1. IInv => OwedStaysListed  BY DEF IInv
<1> QED  BY <1>1, Invariance, PTL

\* Completion numbers are dense and belong to one ended process each.
THEOREM DenseNumbers == Spec => []NumbersAreDense
<1>1. IInv => NumbersAreDense  BY DEF IInv
<1> QED  BY <1>1, Invariance, PTL

-----------------------------------------------------------------------------
(***************************************************************************)
(* Readers and announcements.  What the counts of IInv say of a step that  *)
(* numbers an ending, and what the list lock says of a scan.               *)
(***************************************************************************)

\* Readers scan one at a time, and a scan has found, of the entries it looked
\* at, those with a number beyond the reader's cursor.
ScanSound ==
    /\ \A r, q \in Reader : scan[r].on /\ scan[q].on => r = q
    /\ \A r \in Reader : scan[r].on =>
          /\ scan[r].left \subseteq entries
          /\ scan[r].found = {p \in entries \ scan[r].left : state[p].sequence > cursor[r]}

\* No reader is ahead of the numbers given.
ShownNumbered ==
    \A r \in Reader : cursor[r] <= sequence /\ \A p \in shown[r] : Numbered(p)

\* A foreground call reports its command itself: while it is counted, the
\* command is not numbered.
ForegroundUnnumbered ==
    \A c \in Call : call[c].action = "foreground" =>
        /\ call[c].at \notin {"found", "ready"}
        /\ call[c].at \in Holding => ~Numbered(call[c].process)

\* Only a foreground call stops its command when its wait is interrupted.
CancelledForeground ==
    \A c \in Call : call[c].at = "cancelled" => call[c].action = "foreground"

\* The model is told of endings only.
ReportedEnded == \A p \in Process : state[p].reported => Ended(p)

ReaderInv ==
    /\ IInv
    /\ ScanSound
    /\ ShownNumbered
    /\ CursorSeparates
    /\ ForegroundUnnumbered
    /\ CancelledForeground
    /\ ReportedEnded

\* A step that changes no number.
NumbersKept ==
    /\ sequence' = sequence
    /\ \A p \in Process : state'[p].sequence = state[p].sequence

\* A step that numbers the ending of p.
Numbers(p) ==
    /\ ListFree
    /\ sequence' = sequence + 1
    /\ ~Numbered(p) /\ state'[p].sequence = sequence + 1
    /\ \A q \in Process \ {p} : state'[q].sequence = state[q].sequence
    /\ Ended(p)' /\ ~state[p].reported /\ Holders(p)' = {}
    /\ UNCHANGED entries

\* Entry::transition numbers an ending that no counted call will report.
LEMMA TransitionNumbers ==
    ASSUME IInv, IInv', NEW p \in Process, NEW s \in State, Transition(p, s),
           s.sequence = state[p].sequence, s.reported = state[p].reported,
           UNCHANGED entries
    PROVE  NumbersKept \/ Numbers(p)
<1> DEFINE numbered == [s EXCEPT !.sequence = sequence + 1]
<1>1. CASE Unannounced(s)
  <2>1. /\ ListFree /\ sequence' = sequence + 1
        /\ state' = [state EXCEPT ![p] = numbered]
    BY <1>1 DEF Transition
  <2>2. /\ numbered.sequence = sequence + 1
        /\ numbered.outcome = s.outcome /\ numbered.waiters = s.waiters
    BY DEF State
  <2> HIDE DEF numbered
  <2>3. state'[p] = numbered /\ \A q \in Process \ {p} : state'[q] = state[q]
    BY <2>1 DEF IInv, TypeOK
  <2>4. s.outcome /\ s.waiters = 0 /\ ~state[p].reported /\ ~Numbered(p)
    BY <1>1 DEF Unannounced, Numbered
  <2>5. Holders(p)' = {}
    <3>1. Cardinality(Holders(p)') = 0
      BY <2>2, <2>3, <2>4 DEF IInv, WaitersCounted
    <3>2. IsFiniteSet(Holders(p)')
      <4>1. Holders(p)' \subseteq Call
        BY DEF Holders
      <4> QED  BY <4>1, CallAssumption, FS_Subset
    <3> QED  BY <3>1, <3>2, FS_EmptySet
  <2> QED  BY <2>1, <2>2, <2>3, <2>4, <2>5 DEF Numbers, Ended
<1>2. CASE ~Unannounced(s)
  <2>1. sequence' = sequence /\ state' = [state EXCEPT ![p] = s]
    BY <1>2 DEF Transition
  <2> QED  BY <2>1 DEF NumbersKept, IInv, TypeOK
<1> QED  BY <1>1, <1>2

\* Only endings and failed reports number anything.
LEMMA NumberingSteps ==
    ASSUME IInv, IInv', [Next]_vars
    PROVE  NumbersKept \/ \E p \in Process : Numbers(p)
<1>0. state \in [Process -> State] /\ \A c \in Call : call[c] \in CallState
  BY DEF IInv, TypeOK
<1>1. CASE UNCHANGED vars
  BY <1>1 DEF vars, NumbersKept
<1>2. ASSUME NEW c \in Call, NEW p \in Process, NEW action \in Launch, Adopt(c, p, action)
      PROVE  NumbersKept
  <2>1. ~Launched(p) /\ sequence' = sequence
        /\ state' = [state EXCEPT ![p] = Registered(launches + 1, 1)]
    BY <1>2 DEF Adopt
  <2>2. state[p].sequence = 0
    BY <1>0, <2>1 DEF IInv, EndedLaunched, NumbersAreDense, Numbered, State
  <2> QED  BY <1>0, <2>1, <2>2 DEF NumbersKept, Registered
<1>3. ASSUME NEW p \in Process, End(p) PROVE NumbersKept \/ Numbers(p)
  <2> DEFINE s == [state[p] EXCEPT !.outcome = TRUE]
  <2>1. s \in State /\ s.sequence = state[p].sequence /\ s.reported = state[p].reported
    BY <1>0 DEF State
  <2>2. Transition(p, s) /\ UNCHANGED entries
    BY <1>3 DEF End
  <2> HIDE DEF s
  <2> QED  BY <2>1, <2>2, TransitionNumbers
<1>4. ASSUME NEW c \in Call, Owe(c) PROVE NumbersKept \/ \E p \in Process : Numbers(p)
  <2>1. call[c].process \in Process /\ Transition(call[c].process, state[call[c].process])
        /\ UNCHANGED entries
    BY <1>4 DEF Owe, IInv, CallsRefer
  <2> QED  BY <1>0, <2>1, TransitionNumbers
<1>5. ASSUME NEW c \in Call, CallStep(c), ~Owe(c) PROVE NumbersKept
  <2>1. CASE CallStop(c) \/ CallInput(c) \/ WaitOver(c) \/ StopForeground(c) \/ StopWaitOver(c)
             \/ (FinalOutcome(c) /\ ~Ended(call[c].process))
    BY <2>1 DEF CallStop, CallInput, WaitOver, StopForeground, StopWaitOver, FinalOutcome,
       NumbersKept
  <2>2. CASE BeginWait(c)
    BY <1>0, <2>2 DEF BeginWait, NumbersKept, State
  <2>3. CASE FinalOutcome(c) /\ Ended(call[c].process)
    <3>1. PICK p \in Process : call[c].process = p
      BY <2>3 DEF FinalOutcome, IInv, CallsRefer
    <3>2. state[p].waiters # 0
      BY <2>3, <3>1, HeldIsCounted DEF FinalOutcome, IInv, Holding
    <3>3. AfterFinal(state[p]).sequence = state[p].sequence
      BY <1>0, <3>2, CountOutTyped
    <3>4. sequence' = sequence /\ state' = [state EXCEPT ![p] = AfterFinal(state[p])]
      BY <2>3, <3>1 DEF FinalOutcome
    <3> QED  BY <1>0, <3>3, <3>4 DEF NumbersKept
  <2>4. CASE Report(c)
    BY <1>0, <2>4 DEF Report, AfterReport, NumbersKept, State
  <2>5. CASE ReportFails(c)
    BY <1>0, <2>5 DEF ReportFails, AfterFailure, NumbersKept, State
  <2> QED  BY <1>5, <2>1, <2>2, <2>3, <2>4, <2>5 DEF CallStep
<1>6. ASSUME NEW c \in Call, Cancel(c) \/ WaitElapsed(c) \/ List(c)
                             \/ \E p \in Process, action \in Polling : Find(c, p, action)
      PROVE  NumbersKept
  BY <1>0, <1>6 DEF Cancel, WaitElapsed, List, Find, NumbersKept, State
<1>7. ASSUME NEW p \in Process, InterfaceStep(p) PROVE NumbersKept
  BY <1>0, <1>7 DEF InterfaceStep, RequestStop, MoveToBackground, NumbersKept, State
<1>8. ASSUME NEW r \in Reader, ReaderStep(r) PROVE NumbersKept
  BY <1>8 DEF ReaderStep, ScanBegin, ScanEntry, ScanEnd, NumbersKept
<1>9. CASE AgentStep
  BY <1>0, <1>9 DEF AgentStep, MarkReported, NumbersKept, State
<1>10. CASE StopAll \/ MonitorsJoined
  BY <1>10 DEF StopAll, MonitorsJoined, NumbersKept
<1> QED  BY <1>1, <1>2, <1>3, <1>4, <1>5, <1>6, <1>7, <1>8, <1>9, <1>10 DEF Next, CallBegins

\* What a reader is shown and what it has found stay what its cursor says, in a
\* step that leaves the readers alone.
LEMMA ReadersUndisturbed ==
    ASSUME IInv, ScanSound, ShownNumbered, CursorSeparates, IInv',
           UNCHANGED <<cursor, scan, shown>>,
           NumbersKept \/ \E p \in Process : Numbers(p),
           \A p \in entries' \ entries : p \in Process /\ ~Numbered(p),
           entries' # entries => ListFree
    PROVE  ScanSound' /\ ShownNumbered' /\ CursorSeparates'
<1>0. /\ sequence \in Nat /\ sequence' \in Nat
      /\ \A p \in Process : state[p].sequence \in Nat /\ state[p].sequence <= sequence
      /\ \A r \in Reader : cursor[r] \in Nat
  BY DEF IInv, TypeOK, State, NumbersAreDense, Numbered
<1>1. ScanSound'
  <2>1. ASSUME NEW r \in Reader, scan[r].on
        PROVE  entries' = entries /\ \A p \in Process : state'[p].sequence = state[p].sequence
    BY <2>1 DEF ListFree, Numbers, NumbersKept
  <2> QED  BY <2>1 DEF ScanSound, IInv, TypeOK
<1>2. \A p \in Process : Numbered(p) => Numbered(p)' /\ state'[p].sequence = state[p].sequence
  BY DEF Numbers, NumbersKept, Numbered
<1>3. ShownNumbered'
  <2>1. sequence <= sequence'
    BY <1>0 DEF Numbers, NumbersKept
  <2>2. \A r \in Reader : shown[r] \subseteq Process
    BY DEF IInv, TypeOK
  <2> QED  BY <1>0, <1>2, <2>1, <2>2 DEF ShownNumbered
<1>4. CursorSeparates'
  <2> SUFFICES ASSUME NEW r \in Reader, NEW p \in entries'
               PROVE  p \in shown[r] <=> Numbered(p)' /\ state'[p].sequence <= cursor[r]
    BY DEF CursorSeparates
  <2>0. p \in Process
    BY DEF IInv, TypeOK
  <2>1. CASE p \in entries /\ Numbered(p)
    BY <1>2, <2>0, <2>1 DEF CursorSeparates
  <2>2. CASE ~Numbered(p)
    <3>1. p \notin shown[r]
      BY <2>2 DEF ShownNumbered
    <3>2. Numbered(p)' => state'[p].sequence = sequence + 1
      BY <2>0, <2>2 DEF Numbers, NumbersKept, Numbered
    <3> QED  BY <1>0, <3>1, <3>2 DEF ShownNumbered
  <2> QED  BY <2>1, <2>2
<1> QED  BY <1>1, <1>3, <1>4

\* A reader's own steps: its cursor moves to the last number of what it found,
\* and what it found is all that was listed beyond it.
LEMMA ReaderMoves ==
    ASSUME IInv, ScanSound, ShownNumbered, CursorSeparates, NEW r \in Reader, ReaderStep(r)
    PROVE  ScanSound' /\ ShownNumbered' /\ CursorSeparates'
<1>0. /\ entries \subseteq Process /\ sequence \in Nat
      /\ \A p \in Process : state[p].sequence \in Nat /\ state[p].sequence <= sequence
      /\ \A q \in Reader : cursor[q] \in Nat /\ scan[q] \in Scan
      /\ DOMAIN scan = Reader /\ DOMAIN cursor = Reader /\ DOMAIN shown = Reader
      /\ UNCHANGED <<entries, state, sequence>>
  BY DEF IInv, TypeOK, State, NumbersAreDense, Numbered, ReaderStep, ScanBegin, ScanEntry, ScanEnd
<1>1. CASE ScanBegin(r)
  <2>1. ShownNumbered' /\ CursorSeparates'
    BY <1>1 DEF ScanBegin, ShownNumbered, CursorSeparates, Numbered
  <2> DEFINE new == [on |-> TRUE, left |-> entries, found |-> {}]
  <2>2. scan'[r] = new /\ \A q \in Reader \ {r} : scan'[q] = scan[q] /\ ~scan[q].on
    BY <1>0, <1>1 DEF ScanBegin, ListFree
  <2>3. UNCHANGED <<entries, state, cursor>>
    BY <1>1 DEF ScanBegin
  <2>4. new.on /\ new.left = entries /\ new.found = {}
    OBVIOUS
  <2> HIDE DEF new
  <2> QED  BY <2>1, <2>2, <2>3, <2>4 DEF ScanSound
<1>2. ASSUME NEW p \in Process, ScanEntry(r, p) PROVE ScanSound' /\ ShownNumbered' /\ CursorSeparates'
  <2>1. ShownNumbered' /\ CursorSeparates'
    BY <1>2 DEF ScanEntry, ShownNumbered, CursorSeparates, Numbered
  <2> DEFINE left == scan[r].left \ {p}
             found == IF state[p].sequence > cursor[r] THEN scan[r].found \cup {p}
                                                       ELSE scan[r].found
             new == [on |-> TRUE, left |-> left, found |-> found]
  <2>2. scan'[r] = new /\ \A q \in Reader \ {r} : scan'[q] = scan[q]
    BY <1>0, <1>2 DEF ScanEntry
  <2>3. UNCHANGED <<entries, state, cursor>> /\ scan[r].on /\ p \in scan[r].left
    BY <1>2 DEF ScanEntry
  <2>4. left \subseteq entries /\ found = {q \in entries \ left : state[q].sequence > cursor[r]}
    BY <2>3 DEF ScanSound
  <2>5. new.on /\ new.left = left /\ new.found = found
    OBVIOUS
  <2> HIDE DEF new, left, found
  <2> QED  BY <2>1, <2>2, <2>3, <2>4, <2>5 DEF ScanSound
<1>3. CASE ScanEnd(r)
  <2> DEFINE found == scan[r].found
             last == Latest(found, cursor[r])
  <2>1. /\ cursor'[r] = last /\ shown'[r] = shown[r] \cup found /\ scan'[r] = NoScan
        /\ \A q \in Reader \ {r} :
              scan'[q] = scan[q] /\ cursor'[q] = cursor[q] /\ shown'[q] = shown[q]
    BY <1>0, <1>3 DEF ScanEnd
  <2>2. ScanSound'
    BY <1>0, <2>1 DEF ScanSound, NoScan
  <2>3. found = {p \in entries : state[p].sequence > cursor[r]}
    BY <1>3 DEF ScanEnd, ScanSound
  <2>4. /\ last \in Nat
        /\ found = {} => last = cursor[r]
        /\ found # {} => /\ \E p \in found : state[p].sequence = last
                         /\ \A p \in found : state[p].sequence <= last
    <3>1. found \in SUBSET Process
      BY <1>0, <2>3
    <3>2. found = {} => last = cursor[r]
      BY DEF Latest
    <3> HIDE DEF found
    <3> QED  BY <1>0, <3>1, <3>2, LatestIsNumber DEF IInv
  <2> HIDE DEF last, found
  <2>5. last >= cursor[r] /\ last <= sequence
    BY <1>0, <2>3, <2>4 DEF ShownNumbered
  <2>6. ShownNumbered'
    <3>1. \A p \in found : Numbered(p)
      BY <1>0, <2>3 DEF Numbered
    <3> QED  BY <1>0, <2>1, <2>5, <3>1 DEF ShownNumbered, Numbered
  <2>7. CursorSeparates'
    <3>1. ASSUME NEW p \in entries
          PROVE  p \in shown[r] \cup found <=> Numbered(p) /\ state[p].sequence <= last
      BY <1>0, <2>3, <2>4, <2>5 DEF CursorSeparates, Numbered
    <3> QED  BY <1>0, <2>1, <3>1 DEF CursorSeparates, Numbered
  <2> QED  BY <2>2, <2>6, <2>7
<1> QED  BY <1>1, <1>2, <1>3 DEF ReaderStep

\* What a step may do to a process: it stays launched and ended and what the
\* model has seen stays seen, only its monitor ends it, and the model sees only
\* endings.
LEMMA MarksGrow ==
    ASSUME IInv, ReportedEnded, [Next]_vars, NEW p \in Process
    PROVE  /\ Launched(p) => Launched(p)'
           /\ Ended(p) => Ended(p)'
           /\ ~Ended(p) /\ Ended(p)' => End(p)
           /\ state[p].reported => state'[p].reported
           /\ state'[p].reported => state[p].reported \/ Ended(p)
<1>0. state \in [Process -> State]
  BY DEF IInv, TypeOK
<1> DEFINE Grows == /\ Launched(p) => Launched(p)'
                    /\ Ended(p)' <=> Ended(p)
                    /\ state[p].reported => state'[p].reported
                    /\ state'[p].reported => state[p].reported \/ Ended(p)
<1>1. ASSUME UNCHANGED state PROVE Grows
  BY <1>1 DEF Launched, Ended
<1>2. ASSUME NEW c \in Call, NEW q \in Process, NEW action \in Launch, Adopt(c, q, action)
      PROVE  Grows
  <2>1. /\ ~Launched(q) /\ state' = [state EXCEPT ![q] = Registered(launches + 1, 1)]
    BY <1>2 DEF Adopt
  <2>2. ~Ended(q) /\ ~state[q].reported
    BY <2>1 DEF IInv, EndedLaunched, ReportedEnded
  <2>3. CASE p = q
    BY <1>0, <2>1, <2>2, <2>3 DEF Registered, Launched, Ended
  <2>4. CASE p # q
    BY <1>0, <2>1, <2>4 DEF Launched, Ended
  <2> QED  BY <2>3, <2>4
\* A step that gives q another state, numbered or not.
<1>3. ASSUME NEW q \in Process, NEW s \in State, s.born = state[q].born,
             s.reported => state[q].reported \/ state[q].outcome,
             state[q].reported => s.reported,
             Transition(q, s) \/ state' = [state EXCEPT ![q] = s]
      PROVE  /\ Launched(p) => Launched(p)'
             /\ p # q => (Ended(p)' <=> Ended(p))
             /\ Ended(q)' <=> s.outcome
             /\ state[p].reported => state'[p].reported
             /\ state'[p].reported => state[p].reported \/ Ended(p)
  <2> DEFINE numbered == [s EXCEPT !.sequence = sequence + 1]
  <2>1. numbered.born = s.born /\ numbered.outcome = s.outcome /\ numbered.reported = s.reported
    BY DEF State
  <2>2. state' = [state EXCEPT ![q] = s] \/ state' = [state EXCEPT ![q] = numbered]
    BY <1>3 DEF Transition
  <2> HIDE DEF numbered
  <2> QED  BY <1>0, <1>3, <2>1, <2>2 DEF Launched, Ended
<1>4. ASSUME NEW q \in Process, End(q)
      PROVE  /\ Launched(p) => Launched(p)'
             /\ p # q => (Ended(p)' <=> Ended(p))
             /\ Ended(q)'
             /\ state[p].reported => state'[p].reported
             /\ state'[p].reported => state[p].reported \/ Ended(p)
  <2> DEFINE s == [state[q] EXCEPT !.outcome = TRUE]
  <2>1. s \in State /\ s.born = state[q].born /\ s.outcome /\ s.reported = state[q].reported
    BY <1>0 DEF State
  <2>2. Transition(q, s)
    BY <1>4 DEF End
  <2> HIDE DEF s
  <2> QED  BY <1>3, <2>1, <2>2
<1>5. ASSUME NEW c \in Call, CallStep(c) PROVE Grows
  <2> DEFINE q == call[c].process
  <2>1. CASE CallStop(c) \/ CallInput(c) \/ WaitOver(c) \/ StopForeground(c) \/ StopWaitOver(c)
             \/ (FinalOutcome(c) /\ ~Ended(q))
    <3>1. UNCHANGED state
      BY <2>1 DEF CallStop, CallInput, WaitOver, StopForeground, StopWaitOver, FinalOutcome
    <3> QED  BY <1>1, <3>1
  <2>2. CASE BeginWait(c)
    <3> DEFINE s == [state[q] EXCEPT !.waiters = @ + 1]
    <3>1. q \in Process /\ state[q] \in State
      BY <1>0, <2>2 DEF BeginWait, IInv, CallsRefer
    <3>2. /\ s \in State /\ s.born = state[q].born /\ s.outcome = state[q].outcome
          /\ s.reported = state[q].reported
      BY <3>1 DEF State
    <3>3. state' = [state EXCEPT ![q] = s]
      BY <2>2 DEF BeginWait
    <3> HIDE DEF s
    <3> QED  BY <1>3, <3>1, <3>2, <3>3 DEF Ended
  <2>3. CASE Owe(c)
    <3>1. q \in Process /\ state[q] \in State /\ Transition(q, state[q])
      BY <1>0, <2>3 DEF Owe, IInv, CallsRefer
    <3> QED  BY <1>3, <3>1 DEF Ended
  <2>4. CASE (FinalOutcome(c) /\ Ended(q)) \/ Report(c) \/ ReportFails(c)
    <3>1. q \in Process /\ state[q] \in State /\ call[c].at \in Holding
      BY <1>0, <2>4 DEF FinalOutcome, Report, ReportFails, Reports, IInv, CallsRefer, Holding
    <3>2. state[q].waiters # 0
      BY <3>1, HeldIsCounted DEF IInv
    <3>3. PICK s \in {AfterFinal(state[q]), AfterReport(state[q]), AfterFailure(state[q])} :
              /\ state' = [state EXCEPT ![q] = s]
              /\ s.reported => state[q].reported \/ state[q].outcome
      <4>1. CASE FinalOutcome(c) /\ Ended(q)
        BY <4>1 DEF FinalOutcome, Ended
      <4>2. CASE Report(c) \/ ReportFails(c)
        BY <3>1, <4>2, CountOutMarks DEF Report, ReportFails
      <4> QED  BY <2>4, <4>1, <4>2
    <3>4. s \in State /\ s.born = state[q].born /\ s.outcome = state[q].outcome
          /\ (state[q].reported => s.reported)
      BY <3>1, <3>2, CountOutTyped, CountOutMarks
    <3> QED  BY <1>3, <3>1, <3>3, <3>4 DEF Ended
  <2> QED  BY <1>5, <2>1, <2>2, <2>3, <2>4 DEF CallStep
<1>6. ASSUME NEW c \in Call, Cancel(c) \/ WaitElapsed(c)
                             \/ \E q \in Process, action \in Polling : Find(c, q, action)
      PROVE  UNCHANGED state
  BY <1>6 DEF Cancel, WaitElapsed, Find
<1>7. ASSUME (\E c \in Call : List(c)) \/ \E q \in Process : InterfaceStep(q)
      PROVE  Grows
  BY <1>0, <1>7 DEF List, InterfaceStep, RequestStop, MoveToBackground, State, Launched, Ended
<1>8. CASE AgentStep
  BY <1>0, <1>8 DEF AgentStep, MarkReported, State, Launched, Ended, IInv, NumbersAreDense
<1>9. CASE UNCHANGED vars \/ (\E r \in Reader : ReaderStep(r)) \/ StopAll \/ MonitorsJoined
  BY <1>1, <1>9 DEF vars, ReaderStep, ScanBegin, ScanEntry, ScanEnd, StopAll, MonitorsJoined
<1> HIDE DEF Grows
<1>10. Grows \/ \E q \in Process : End(q)
  BY <1>1, <1>2, <1>5, <1>6, <1>7, <1>8, <1>9 DEF Next, CallBegins, Grows
<1> QED  BY <1>4, <1>10 DEF Grows

\* Foreground calls stay responsible for their commands.
LEMMA ForegroundStays ==
    ASSUME IInv, IInv', ForegroundUnnumbered, [Next]_vars
    PROVE  ForegroundUnnumbered'
<1> SUFFICES ASSUME NEW c \in Call, call'[c].action = "foreground"
             PROVE  /\ call'[c].at \notin {"found", "ready"}
                    /\ call'[c].at \in Holding => ~(state'[call'[c].process].sequence > 0)
  BY DEF ForegroundUnnumbered, Numbered
<1>0. state \in [Process -> State] /\ call \in [Call -> CallState]
  BY DEF IInv, TypeOK
<1>1. ASSUME NEW p \in Process, NEW action \in Launch, Adopt(c, p, action)
      PROVE  call'[c].at = "waiting" /\ call'[c].process = p /\ ~(state'[p].sequence > 0)
  <2>1. ~Launched(p) /\ sequence' = sequence
        /\ state' = [state EXCEPT ![p] = Registered(launches + 1, 1)]
        /\ call' = [call EXCEPT ![c] = Calling("waiting", action, p)]
    BY <1>1 DEF Adopt
  <2> QED  BY <1>0, <2>1 DEF Registered, Calling, Numbered
\* Otherwise the call was a foreground call before, with the same process.
<1>2. ASSUME ~\E p \in Process, action \in Launch : Adopt(c, p, action)
      PROVE  /\ call[c].action = "foreground"
             /\ call'[c].process = call[c].process
             /\ call'[c].at \in Holding => call[c].at \in Holding
             /\ call'[c].at \in {"found", "ready"} => call[c].at \in {"found", "ready"}
  <2>1. CASE call'[c] = call[c]
    BY <2>1
  <2>2. CASE \E p \in Process, action \in Polling : Find(c, p, action)
    BY <1>0, <2>2 DEF Find, Calling, Polling
  <2>3. CASE CallStop(c) \/ CallInput(c)
    BY <1>0, <2>3 DEF CallStop, CallInput, Calling, IdleCall
  <2>4. CASE BeginWait(c)
    <3>1. call'[c].action = call[c].action /\ call[c].at = "ready"
      BY <1>0, <2>4 DEF BeginWait, Calling
    <3> QED  BY <3>1 DEF ForegroundUnnumbered
  <2>5. CASE WaitOver(c) \/ WaitElapsed(c) \/ ReportFails(c)
    <3>1. PICK at \in {"ended", "cancelled", "owed"} : Leave(c, at)
      BY <2>5 DEF WaitOver, WaitElapsed, ReportFails
    <3>2. call[c].at \in Holding
      BY <2>5 DEF WaitOver, WaitElapsed, ReportFails, Reports, Holding
    <3> QED  BY <1>0, <3>1, <3>2 DEF Leave, Calling
  <2>6. CASE FinalOutcome(c) \/ StopForeground(c) \/ StopWaitOver(c) \/ Cancel(c)
    BY <1>0, <2>6 DEF FinalOutcome, StopForeground, StopWaitOver, Cancel, Holding, IdleCall,
       Calling, CallState
  <2>7. CASE Report(c) \/ Owe(c)
    BY <1>0, <2>7 DEF Report, Owe, IdleCall, Calling
  <2>8. ASSUME NEW d \in Call \ {c}, CallBegins(d) \/ CallStep(d) \/ Cancel(d) \/ WaitElapsed(d)
        PROVE  call'[c] = call[c]
    <3>1. CASE CallBegins(d)
      BY <1>0, <2>8, <3>1 DEF CallBegins, Adopt, Find, List
    <3>2. CASE CallStep(d)
      BY <1>0, <2>8, <3>2 DEF CallStep, CallStop, CallInput, BeginWait, WaitOver, StopForeground,
         StopWaitOver, FinalOutcome, Report, ReportFails, Owe, Leave
    <3>3. CASE Cancel(d) \/ WaitElapsed(d)
      BY <1>0, <2>8, <3>3 DEF Cancel, WaitElapsed, Leave
    <3> QED  BY <2>8, <3>1, <3>2, <3>3
  <2>9. CASE UNCHANGED call
    BY <2>9
  <2>10. CASE List(c)
    BY <2>10 DEF List
  <2>11. ASSUME ~\E d \in Call : CallBegins(d) \/ CallStep(d) \/ Cancel(d) \/ WaitElapsed(d)
         PROVE  UNCHANGED call
    BY <2>11 DEF Next, vars, End, InterfaceStep, RequestStop, MoveToBackground, ReaderStep,
       ScanBegin, ScanEntry, ScanEnd, AgentStep, MarkReported, StopAll, MonitorsJoined
  <2> QED  BY <1>2, <2>1, <2>2, <2>3, <2>4, <2>5, <2>6, <2>7, <2>8, <2>9, <2>10, <2>11
           DEF CallBegins, CallStep
<1>3. ASSUME call[c].action = "foreground", call[c].at \in Holding,
             call'[c].process = call[c].process, call'[c].at \in Holding
      PROVE  ~(state'[call'[c].process].sequence > 0)
  <2> DEFINE p == call[c].process
  <2>1. p \in Process /\ ~Numbered(p)
    BY <1>3 DEF ForegroundUnnumbered, IInv, CallsRefer, Holding
  <2>2. c \in Holders(p)'
    BY <1>3 DEF Holders
  <2>3. ~Numbers(p) /\ \A q \in Process \ {p} : Numbers(q) => state'[p].sequence = state[p].sequence
    BY <2>1, <2>2 DEF Numbers
  <2>4. state'[p].sequence = state[p].sequence
    BY <2>1, <2>3, NumberingSteps DEF NumbersKept
  <2> QED  BY <1>3, <2>1, <2>4 DEF Numbered
<1> QED  BY <1>1, <1>2, <1>3 DEF ForegroundUnnumbered

LEMMA CancelledStaysForeground ==
    ASSUME IInv, CancelledForeground, [Next]_vars
    PROVE  CancelledForeground'
<1> SUFFICES ASSUME NEW c \in Call, call'[c].at = "cancelled"
             PROVE  call'[c].action = "foreground"
  BY DEF CancelledForeground
<1>0. call \in [Call -> CallState]
  BY DEF IInv, TypeOK
<1>1. CASE call'[c] = call[c]
  BY <1>1 DEF CancelledForeground
<1>2. ASSUME NEW d \in Call, CallBegins(d) PROVE call'[c] = call[c]
  BY <1>0, <1>2 DEF CallBegins, Adopt, Find, List, Calling
<1>3. ASSUME NEW d \in Call, WaitOver(d)
      PROVE  call'[c] = call[c] \/ call'[c].action = "foreground"
  BY <1>0, <1>3 DEF WaitOver, Leave, Calling
<1>4. ASSUME NEW d \in Call, CallStep(d), ~WaitOver(d) PROVE call'[c] = call[c]
  <2>1. CASE CallStop(d) \/ CallInput(d) \/ BeginWait(d) \/ Report(d) \/ ReportFails(d) \/ Owe(d)
    BY <1>0, <2>1 DEF CallStop, CallInput, BeginWait, Report, ReportFails, Owe, Leave, Calling,
       IdleCall
  <2>2. CASE StopForeground(d) \/ StopWaitOver(d) \/ FinalOutcome(d)
    BY <1>0, <2>2 DEF StopForeground, StopWaitOver, FinalOutcome, Calling, IdleCall, CallState
  <2> QED  BY <1>4, <2>1, <2>2 DEF CallStep
<1>5. ASSUME NEW d \in Call, Cancel(d) \/ WaitElapsed(d) PROVE call'[c] = call[c]
  BY <1>0, <1>5 DEF Cancel, WaitElapsed, Leave, Calling, CallState
<1>6. ASSUME ~\E d \in Call : CallBegins(d) \/ CallStep(d) \/ Cancel(d) \/ WaitElapsed(d)
      PROVE  UNCHANGED call
  BY <1>6 DEF Next, vars, End, InterfaceStep, RequestStop, MoveToBackground, ReaderStep,
     ScanBegin, ScanEntry, ScanEnd, AgentStep, MarkReported, StopAll, MonitorsJoined
<1> QED  BY <1>1, <1>2, <1>3, <1>4, <1>5, <1>6

LEMMA ReaderInvInitial == Init => ReaderInv
<1> SUFFICES ASSUME Init PROVE ReaderInv  OBVIOUS
<1>1. IInv  BY InitHolds
<1>2. ScanSound /\ ShownNumbered /\ CursorSeparates /\ ForegroundUnnumbered /\ CancelledForeground
      /\ ReportedEnded
  BY DEF Init, ScanSound, NoScan, ShownNumbered, CursorSeparates, ForegroundUnnumbered,
     CancelledForeground, ReportedEnded, IdleCall, Calling, NewState, Registered
<1> QED  BY <1>1, <1>2 DEF ReaderInv

LEMMA ReaderInvStep == ReaderInv /\ [Next]_vars => ReaderInv'
<1> SUFFICES ASSUME ReaderInv, [Next]_vars PROVE ReaderInv'  OBVIOUS
<1>1. IInv /\ IInv'
  BY StepPreserves DEF ReaderInv
<1>2. ForegroundUnnumbered' /\ CancelledForeground'
  BY <1>1, ForegroundStays, CancelledStaysForeground DEF ReaderInv
<1>5. ReportedEnded'
  BY <1>1, MarksGrow DEF ReaderInv, ReportedEnded
<1>3. ASSUME NEW r \in Reader, ReaderStep(r) PROVE ScanSound' /\ ShownNumbered' /\ CursorSeparates'
  BY <1>3, ReaderMoves DEF ReaderInv
<1>4. ASSUME ~\E r \in Reader : ReaderStep(r)
      PROVE  ScanSound' /\ ShownNumbered' /\ CursorSeparates'
  <2>1. UNCHANGED <<cursor, scan, shown>>
    BY <1>4 DEF Next, vars, CallBegins, CallStep, Adopt, Find, List, CallStop, CallInput,
       BeginWait, WaitOver, StopForeground, StopWaitOver, FinalOutcome, Report, ReportFails, Owe,
       Cancel, WaitElapsed, End, InterfaceStep, RequestStop, MoveToBackground, AgentStep,
       MarkReported, StopAll, MonitorsJoined
  <2>2. ASSUME NEW c \in Call, NEW p \in Process, NEW action \in Launch, Adopt(c, p, action)
        PROVE  ListFree /\ \A q \in entries' \ entries : q \in Process /\ ~Numbered(q)
    BY <1>1, <2>2 DEF Adopt, IInv, TypeOK, EndedLaunched, NumbersAreDense
  <2>3. CASE ~\E c \in Call, p \in Process, action \in Launch : Adopt(c, p, action)
    <3>1. entries' = entries \/ StopAll
      BY <1>4, <2>3 DEF Next, vars, CallBegins, CallStep, Find, List, CallStop, CallInput,
         BeginWait, WaitOver, StopForeground, StopWaitOver, FinalOutcome, Report, ReportFails, Owe,
         Cancel, WaitElapsed, End, InterfaceStep, RequestStop, MoveToBackground, AgentStep,
         MarkReported, MonitorsJoined
    <3>2. StopAll => ListFree /\ entries' = {}
      BY DEF StopAll
    <3>3. (\A q \in entries' \ entries : q \in Process /\ ~Numbered(q))
          /\ (entries' # entries => ListFree)
      BY <3>1, <3>2
    <3> QED  BY <1>1, <2>1, <3>3, NumberingSteps, ReadersUndisturbed DEF ReaderInv
  <2> QED  BY <1>1, <2>1, <2>2, <2>3, NumberingSteps, ReadersUndisturbed DEF ReaderInv
<1> QED  BY <1>1, <1>2, <1>3, <1>4, <1>5 DEF ReaderInv

LEMMA ReaderInvariance == Spec => []ReaderInv
BY ReaderInvInitial, ReaderInvStep, PTL DEF Spec

\* Every interface sees each listed completion once, whatever numbers are given
\* and entries forgotten while it scans.
THEOREM CursorsSeparate == Spec => []CursorSeparates
<1>1. ReaderInv => CursorSeparates  BY DEF ReaderInv
<1> QED  BY <1>1, ReaderInvariance, PTL

\* Stops are requested of processes that have not ended, except for the command
\* of an interrupted foreground call, which no number can have been given to.
LEMMA StopsSpareTheEnded ==
    ASSUME ReaderInv, [Next]_vars, NEW p \in entries, Numbered(p), scope' = "open"
    PROVE  p \in stop' <=> p \in stop
<1>1. p \in Process /\ Ended(p)
  BY DEF ReaderInv, IInv, TypeOK, NumbersAreDense
<1>2. CASE UNCHANGED stop
  BY <1>2
<1>3. ASSUME NEW c \in Call, StopForeground(c) PROVE p # call[c].process
  <2>1. call[c].at = "cancelled" /\ call[c].action = "foreground"
    BY <1>3 DEF StopForeground, ReaderInv, CancelledForeground
  <2> QED  BY <2>1 DEF Holding, ReaderInv, ForegroundUnnumbered
<1>4. ASSUME NEW c \in Call, CallStop(c) PROVE p \in stop' <=> p \in stop
  BY <1>1, <1>4 DEF CallStop
<1>5. ASSUME NEW q \in Process, InterfaceStep(q) PROVE p \in stop' <=> p \in stop
  BY <1>1, <1>5 DEF InterfaceStep, RequestStop, MoveToBackground
<1>6. ASSUME NEW c \in Call, CallStep(c), ~CallStop(c) PROVE p \in stop' <=> p \in stop
  BY <1>3, <1>6 DEF CallStep, CallInput, BeginWait, WaitOver, StopForeground, StopWaitOver,
     FinalOutcome, Report, ReportFails, Owe
<1>7. ASSUME \/ \E c \in Call : CallBegins(c) \/ Cancel(c) \/ WaitElapsed(c)
             \/ \E q \in Process : End(q)
             \/ \E r \in Reader : ReaderStep(r)
             \/ AgentStep
             \/ MonitorsJoined
             \/ UNCHANGED vars
      PROVE  UNCHANGED stop
  BY <1>7 DEF CallBegins, Adopt, Find, List, Cancel, WaitElapsed, End, ReaderStep, ScanBegin,
     ScanEntry, ScanEnd, AgentStep, MarkReported, MonitorsJoined, vars
<1>8. ~StopAll
  BY DEF StopAll
<1> QED  BY <1>2, <1>4, <1>5, <1>6, <1>7, <1>8 DEF Next

\* A number is given to an ending that no call reports, and from then on what
\* the ending says is settled.
THEOREM EndingsAreSettled == Spec => EndingsStay
<1>1. ASSUME ReaderInv, ReaderInv', [Next]_vars, NEW p \in Process
      PROVE  /\ ~Numbered(p) /\ Numbered(p)' =>
                    Ended(p)' /\ ~state[p].reported /\ Holders(p)' = {}
             /\ Numbered(p) /\ p \in entries /\ scope' = "open" =>
                    /\ state'[p].sequence = state[p].sequence
                    /\ state[p].reported => state'[p].reported
                    /\ p \in stop' <=> p \in stop
  <2>1. NumbersKept \/ \E q \in Process : Numbers(q)
    BY <1>1, NumberingSteps DEF ReaderInv
  <2>2. ASSUME ~Numbered(p), Numbered(p)' PROVE Numbers(p)
    BY <2>1, <2>2 DEF NumbersKept, Numbers, Numbered
  <2>3. ASSUME Numbered(p) PROVE state'[p].sequence = state[p].sequence
    BY <2>1, <2>3 DEF NumbersKept, Numbers
  <2>4. Numbered(p) => Launched(p)
    BY <1>1 DEF ReaderInv, IInv, NumbersAreDense, EndedLaunched
  <2>5. Numbered(p) /\ state[p].reported => state'[p].reported
    BY <1>1, <2>4, MarksGrow DEF ReaderInv
  <2>6. Numbered(p) /\ p \in entries /\ scope' = "open" => (p \in stop' <=> p \in stop)
    BY <1>1, StopsSpareTheEnded
  <2> QED  BY <2>2, <2>3, <2>5, <2>6 DEF Numbers
<1>2. ReaderInv /\ ReaderInv' /\ [Next]_vars =>
          [\A p \in Process :
              ~Numbered(p) /\ Numbered(p)' =>
                  Ended(p)' /\ ~state[p].reported /\ Holders(p)' = {}]_vars
  BY <1>1
<1>3. ReaderInv /\ ReaderInv' /\ [Next]_vars =>
          [\A p \in Process :
              Numbered(p) /\ p \in entries /\ scope' = "open" =>
                  /\ state'[p].sequence = state[p].sequence
                  /\ state[p].reported => state'[p].reported
                  /\ p \in stop' <=> p \in stop]_vars
  BY <1>1
<1>4. Spec => AnnouncedAlone
  BY <1>2, ReaderInvariance, PTL DEF Spec, AnnouncedAlone
<1>5. Spec => CompletionIsStable
  BY <1>3, ReaderInvariance, PTL DEF Spec, CompletionIsStable
<1> QED  BY <1>4, <1>5 DEF EndingsStay

-----------------------------------------------------------------------------
(* The turn loop. *)

\* No call runs outside a wave.
TurnQuiet == phase # "tools" => \A c \in Call : call[c].at = "idle"

\* A request under way names completions that are still listed and unseen.
AskedSound ==
    IF phase \in {"sent", "saving", "emitting"} THEN asked \subseteq Completions ELSE asked = {}

\* What is delivered was saved before.
SavedFirst == phase = "emitting" => asked \subseteq saved

\* A turn that continues by itself keeps its reason until it is sent.
AutomaticNews ==
    automatic => \/ phase = "request" /\ CompletionWaiting
                 \/ phase = "sent" /\ \E p \in asked : p \notin stop

\* The conversation stays open while a turn runs.
TurnOpen == phase # "idle" => scope = "open"

DeliveryInv ==
    /\ ReaderInv
    /\ DeliveryTypeOK
    /\ TurnQuiet
    /\ AskedSound
    /\ SavedFirst
    /\ AnnouncedIsSaved
    /\ AutomaticNews
    /\ TurnOpen

-----------------------------------------------------------------------------
(* The turn loop takes the registry's steps. *)

\* What the loop does by itself leaves the registry alone, but for a delivery.
TurnStep ==
    \/ Prompt \/ Continue \/ Send \/ Retry \/ Accept \/ SaveCompletions
    \/ CallTools \/ ToolsDone \/ SkipCalls \/ Answer \/ FailTurn \/ StopTurn

LEMMA TurnStepsKeepRegistry == TurnStep => UNCHANGED vars
BY DEF TurnStep, Prompt, Continue, Send, Retry, Accept, SaveCompletions, CallTools, ToolsDone,
   SkipCalls, Answer, FailTurn, StopTurn

LEMMA StepsAreRegistrySteps ==
    ASSUME DeliveryInv, [DeliveryNext]_allVars
    PROVE  [Next]_vars
<1>1. CASE TurnStep
  BY <1>1, TurnStepsKeepRegistry
<1>2. CASE Deliver
  <2>1. asked \in SUBSET {p \in Process : Numbered(p)}
    BY <1>2 DEF Deliver, DeliveryInv, AskedSound, Completions, DeliveryTypeOK
  <2> QED  BY <1>2, <2>1 DEF Deliver, Next, AgentStep
<1>3. ASSUME NEW c \in Call, BeginCall(c) \/ RunCall(c) PROVE [Next]_vars
  BY <1>3 DEF BeginCall, RunCall, Next
<1>4. ASSUME NEW r \in Reader, ShowCompletions(r) PROVE [Next]_vars
  BY <1>4 DEF ShowCompletions, Next, ReaderStep
<1>5. CASE Elsewhere
  BY <1>5 DEF Elsewhere, Next, ReaderStep
<1>6. CASE UNCHANGED allVars
  BY <1>6 DEF allVars
<1> QED  BY <1>1, <1>2, <1>3, <1>4, <1>5, <1>6 DEF DeliveryNext, TurnStep
\* Processes end, interfaces act and scans go on without changing what a
\* request names or hides.
LEMMA NewsStays ==
    ASSUME DeliveryInv, [Next]_vars,
           \/ \E q \in Process : End(q) \/ InterfaceStep(q)
           \/ \E r \in Reader : ReaderStep(r)
           \/ MonitorsJoined,
           NEW p \in Completions
    PROVE  p \in Completions' /\ (p \notin stop => p \notin stop')
<1>0. /\ p \in Process /\ p \in entries /\ Numbered(p) /\ Ended(p) /\ ~state[p].reported
      /\ state \in [Process -> State]
  BY DEF Completions, DeliveryInv, ReaderInv, IInv, TypeOK, NumbersAreDense
<1>1. UNCHANGED entries
  BY DEF End, InterfaceStep, RequestStop, MoveToBackground, ReaderStep, ScanBegin, ScanEntry,
     ScanEnd, MonitorsJoined
<1>2. p \notin stop => p \notin stop'
  BY <1>0 DEF End, InterfaceStep, RequestStop, MoveToBackground, ReaderStep, ScanBegin, ScanEntry,
     ScanEnd, MonitorsJoined
<1>3. state'[p].sequence = state[p].sequence
  <2>1. NumbersKept \/ \E q \in Process : Numbers(q)
    BY ReaderInvStep, NumberingSteps DEF DeliveryInv, ReaderInv
  <2> QED  BY <1>0, <2>1 DEF NumbersKept, Numbers
<1>4. state'[p].reported = state[p].reported
  <2>1. ASSUME NEW q \in Process, End(q) PROVE p # q
    BY <1>0, <2>1 DEF End
  <2>2. ASSUME NEW q \in Process, End(q) PROVE state'[p] = state[p]
    BY <1>0, <2>1, <2>2 DEF End, Transition
  <2>3. ASSUME NEW q \in Process, InterfaceStep(q) PROVE state'[p].reported = state[p].reported
    BY <1>0, <2>3 DEF InterfaceStep, RequestStop, MoveToBackground, State
  <2>4. CASE (\E r \in Reader : ReaderStep(r)) \/ MonitorsJoined
    BY <2>4 DEF ReaderStep, ScanBegin, ScanEntry, ScanEnd, MonitorsJoined
  <2> QED  BY <2>2, <2>3, <2>4
<1> QED  BY <1>0, <1>1, <1>2, <1>3, <1>4 DEF Completions, Numbered

\* A call that runs is not idle: it runs in a wave.
LEMMA CallsRunInWaves ==
    ASSUME DeliveryInv, NEW c \in Call, BeginCall(c) \/ RunCall(c)
    PROVE  phase = "tools" /\ UNCHANGED <<phase, asked, cancelled, held, automatic, saved, announced>>
<1>1. CASE BeginCall(c)
  BY <1>1 DEF BeginCall
<1>2. CASE RunCall(c)
  <2>1. CallStep(c) \/ WaitElapsed(c) \/ Cancel(c)
    BY <1>2 DEF RunCall
  <2>2. call[c].at # "idle"
    BY <2>1 DEF CallStep, Cancel, WaitElapsed, CallStop, CallInput, BeginWait, WaitOver,
       StopForeground, StopWaitOver, FinalOutcome, Report, ReportFails, Reports, Owe
  <2> QED  BY <1>2, <2>2 DEF RunCall, agentVars, DeliveryInv, TurnQuiet
<1> QED  BY <1>1, <1>2

-----------------------------------------------------------------------------
(* The invariant of the turn loop. *)

LEMMA DeliveryInitial == DeliveryInit => DeliveryInv
<1> SUFFICES ASSUME DeliveryInit PROVE DeliveryInv  OBVIOUS
<1>1. ReaderInv /\ TypeOK
  BY ReaderInvInitial DEF DeliveryInit, ReaderInv, IInv
<1>2. TurnQuiet
  BY DEF DeliveryInit, Init, TurnQuiet, IdleCall, Calling
<1> QED  BY <1>1, <1>2 DEF DeliveryInit, DeliveryInv, DeliveryTypeOK, Phase, AskedSound,
         SavedFirst, AnnouncedIsSaved, AutomaticNews, TurnOpen

LEMMA DeliveryTyped ==
    ASSUME DeliveryInv, TypeOK', [DeliveryNext]_allVars
    PROVE  DeliveryTypeOK'
<1> USE DEF DeliveryInv, DeliveryTypeOK
<1>1. CASE Send
  BY <1>1 DEF Send, Phase, Completions, TypeOK
<1>2. CASE Prompt \/ Continue \/ Retry \/ Accept \/ SaveCompletions
  BY <1>2 DEF Prompt, Continue, Retry, Accept, SaveCompletions, Phase
<1>3. CASE CallTools \/ ToolsDone \/ SkipCalls \/ Answer \/ FailTurn \/ StopTurn \/ Deliver
  BY <1>3 DEF CallTools, ToolsDone, SkipCalls, Answer, FailTurn, StopTurn, Deliver, Phase
<1>4. ASSUME NEW c \in Call, BeginCall(c) \/ RunCall(c) PROVE DeliveryTypeOK'
  BY <1>4 DEF BeginCall, RunCall, agentVars
<1>5. ASSUME NEW r \in Reader, ShowCompletions(r) PROVE DeliveryTypeOK'
  <2>1. scan[r].found \subseteq Process
    BY DEF TypeOK, Scan
  <2> QED  BY <1>5, <2>1 DEF ShowCompletions
<1>6. CASE Elsewhere \/ UNCHANGED allVars
  BY <1>6 DEF Elsewhere, agentVars, allVars
<1> QED  BY <1>1, <1>2, <1>3, <1>4, <1>5, <1>6 DEF DeliveryNext

LEMMA DeliveryStep == DeliveryInv /\ [DeliveryNext]_allVars => DeliveryInv'
<1> SUFFICES ASSUME DeliveryInv, [DeliveryNext]_allVars PROVE DeliveryInv'
  OBVIOUS
<1>0. ReaderInv' /\ [Next]_vars
  BY StepsAreRegistrySteps, ReaderInvStep DEF DeliveryInv
<1>a. DeliveryTypeOK'
  BY <1>0, DeliveryTyped DEF ReaderInv, IInv
<1> DEFINE Rest == /\ TurnQuiet' /\ AskedSound' /\ SavedFirst' /\ AnnouncedIsSaved'
                   /\ AutomaticNews' /\ TurnOpen'
<1> SUFFICES Rest  BY <1>0, <1>a DEF DeliveryInv
<1> USE DEF DeliveryInv, TurnQuiet, AskedSound, SavedFirst, AnnouncedIsSaved, AutomaticNews,
            TurnOpen
\* The loop's own steps, which leave the registry alone.
<1>1. CASE TurnStep
  <2>0. UNCHANGED vars /\ Completions' = Completions /\ CompletionWaiting' = CompletionWaiting
    BY <1>1, TurnStepsKeepRegistry DEF vars, Completions, CompletionWaiting, Numbered
  <2>1. CASE Prompt \/ Continue
    BY <2>0, <2>1 DEF Prompt, Continue, CanContinue, vars
  <2>2. CASE Send
    <3>1. automatic => \E p \in Completions : p \notin stop
      BY <2>2 DEF Send, CompletionWaiting, Completions
    <3> QED  BY <2>0, <2>2, <3>1 DEF Send, vars
  <2>3. CASE Retry
    <3>1. automatic => CompletionWaiting
      BY <2>3 DEF Retry, CompletionWaiting, Completions
    <3> QED  BY <2>0, <2>3, <3>1 DEF Retry, vars
  <2>4. CASE Accept \/ SaveCompletions
    BY <2>0, <2>4 DEF Accept, SaveCompletions, vars
  <2>5. CASE CallTools \/ ToolsDone \/ SkipCalls \/ Answer
    BY <2>0, <2>5 DEF CallTools, ToolsDone, SkipCalls, Answer, vars
  <2>6. CASE FailTurn \/ StopTurn
    BY <2>0, <2>6 DEF FailTurn, StopTurn, vars
  <2> QED  BY <1>1, <2>1, <2>2, <2>3, <2>4, <2>5, <2>6 DEF TurnStep
<1>2. CASE Deliver
  BY <1>2 DEF Deliver, MarkReported
<1>3. ASSUME NEW c \in Call, BeginCall(c) \/ RunCall(c) PROVE Rest
  <2>1. phase = "tools" /\ UNCHANGED <<phase, asked, cancelled, held, automatic, saved, announced>>
    BY <1>3, CallsRunInWaves
  <2>2. scope' = scope
    BY <1>3 DEF BeginCall, RunCall, CallBegins, Adopt, Find, List, CallStep, CallStop, CallInput,
       BeginWait, WaitOver, StopForeground, StopWaitOver, FinalOutcome, Report, ReportFails, Owe,
       Cancel, WaitElapsed
  <2> QED  BY <2>1, <2>2
\* What others do meanwhile.
<1>4. ASSUME \/ \E q \in Process : End(q) \/ InterfaceStep(q)
             \/ \E r \in Reader : ReaderStep(r)
             \/ MonitorsJoined,
             UNCHANGED <<phase, asked, wave, cancelled, held, automatic, announced>>,
             saved \subseteq saved'
      PROVE  Rest
  <2>1. UNCHANGED call /\ (scope = "open" => scope' = "open")
    BY <1>4 DEF End, InterfaceStep, RequestStop, MoveToBackground, ReaderStep, ScanBegin,
       ScanEntry, ScanEnd, MonitorsJoined
  <2>2. \A p \in Completions : p \in Completions' /\ (p \notin stop => p \notin stop')
    BY <1>0, <1>4, NewsStays
  <2>3. CompletionWaiting => CompletionWaiting'
    BY <2>2 DEF CompletionWaiting, Completions
  <2> QED  BY <1>4, <2>1, <2>2, <2>3
<1>5. ASSUME NEW r \in Reader, ShowCompletions(r) PROVE Rest
  BY <1>4, <1>5 DEF ShowCompletions, ReaderStep
<1>6. CASE Elsewhere
  <2>1. CASE StopAll /\ phase = "idle"
    BY <1>6, <2>1 DEF Elsewhere, agentVars, StopAll
  <2>2. CASE ~(StopAll /\ phase = "idle")
    BY <1>4, <1>6, <2>2 DEF Elsewhere, agentVars, ReaderStep
  <2> QED  BY <2>1, <2>2
<1>7. CASE UNCHANGED allVars
  BY <1>7 DEF allVars, agentVars, vars, Completions, CompletionWaiting, Numbered
<1> QED  BY <1>1, <1>2, <1>3, <1>5, <1>6, <1>7 DEF DeliveryNext, TurnStep

LEMMA DeliveryInvariance == DeliverySpec => []DeliveryInv
BY DeliveryInitial, DeliveryStep, PTL DEF DeliverySpec

\* A request tells the model only of endings the transcript keeps, and a turn
\* nobody asked for has something to tell.
THEOREM NewsKept == DeliverySpec => []NewsIsKept
<1>1. DeliveryInv => NewsIsKept
  BY DEF DeliveryInv, NewsIsKept, ContinuationHasNews, AutomaticNews
<1> QED  BY <1>1, DeliveryInvariance, PTL

-----------------------------------------------------------------------------
(* Refinement. *)

\* The turn loop drives the registry and nothing else changes it, so whatever
\* ProcessRegistryProofs shows holds while an agent runs.
THEOREM LoopImplementsRegistry == DeliverySpec => Spec
<1>1. DeliveryInit => Init
  BY DEF DeliveryInit
<1>2. DeliveryInv /\ [DeliveryNext]_allVars => [Next]_vars
  BY StepsAreRegistrySteps
<1> QED  BY <1>1, <1>2, DeliveryInvariance, PTL DEF DeliverySpec, Spec

\* Only a delivery announces, and it announces what the request named.
LEMMA AnnouncingSteps ==
    ASSUME [DeliveryNext]_allVars
    PROVE  Deliver \/ UNCHANGED announced
BY DEF DeliveryNext, Prompt, Continue, Send, Retry, Accept, SaveCompletions, CallTools, ToolsDone,
   SkipCalls, Answer, FailTurn, StopTurn, BeginCall, RunCall, ShowCompletions, Elsewhere,
   agentVars, allVars

\* A step of the loop is a step of ProcessNews under the mapping of News.
LEMMA StepsAreNews ==
    ASSUME DeliveryInv, [DeliveryNext]_allVars
    PROVE  News!Next \/ UNCHANGED <<{p \in Process : Ended(p)},
                                    {p \in Process : state[p].reported}, announced>>
<1> DEFINE ended == {p \in Process : Ended(p)}
           ended2 == {p \in Process : Ended(p)'}
           known == {p \in Process : state[p].reported}
           known2 == {p \in Process : state'[p].reported}
<1>0. [Next]_vars
  BY StepsAreRegistrySteps
<1>1. \A p \in Process : /\ Ended(p) => Ended(p)'
                         /\ ~Ended(p) /\ Ended(p)' => End(p)
                         /\ state[p].reported => state'[p].reported
                         /\ state'[p].reported => state[p].reported \/ Ended(p)
  BY <1>0, MarksGrow DEF DeliveryInv, ReaderInv
<1>2. CASE Deliver
  <2>1. \A p \in asked : p \in entries /\ p \in Process /\ Ended(p) /\ ~state[p].reported
    BY <1>2 DEF Deliver, DeliveryInv, AskedSound, Completions, ReaderInv, IInv, TypeOK, NumbersAreDense
  <2>2. state' = [p \in Process |-> IF p \in asked \cap entries
                                    THEN [state[p] EXCEPT !.reported = TRUE] ELSE state[p]]
        /\ announced' = announced \cup asked
    BY <1>2 DEF Deliver, MarkReported
  <2>3. \A p \in Process : /\ state'[p].reported <=> state[p].reported \/ p \in asked
                           /\ Ended(p)' <=> Ended(p)
    BY <2>1, <2>2 DEF Ended, DeliveryInv, ReaderInv, IInv, TypeOK, State
  <2>4. ended2 = ended /\ known2 = known \cup asked /\ asked \subseteq ended \ known
    BY <2>1, <2>3
  <2>5. CASE asked = {}
    BY <2>2, <2>4, <2>5
  <2>6. CASE asked # {}
    <3>1. News!Announcement(asked)
      BY <2>2, <2>4, <2>6 DEF News!Announcement
    <3>2. asked \in SUBSET Process
      BY <2>1
    <3> QED  BY <3>1, <3>2 DEF News!Next, News!Announcement
  <2> QED  BY <2>5, <2>6
<1>3. CASE ~Deliver /\ \E p \in Process : ~Ended(p) /\ Ended(p)'
  <2>1. PICK p \in Process : ~Ended(p) /\ Ended(p)' /\ End(p)
    BY <1>1, <1>3
  <2>2. \A q \in Process \ {p} : state'[q] = state[q]
    BY <2>1 DEF End, Transition, DeliveryInv, ReaderInv, IInv, TypeOK
  <2>3. state'[p].reported => state[p].reported
    BY <1>1, <2>1
  <2>4. ended2 = ended \cup {p} /\ known2 = known
    BY <1>1, <2>1, <2>2, <2>3 DEF Ended
  <2>5. announced' = announced
    BY <1>3, AnnouncingSteps
  <2>6. News!Ending(p)
    BY <2>1, <2>4, <2>5 DEF News!Ending
  <2> QED  BY <2>6 DEF News!Next
<1>4. CASE ~Deliver /\ ~\E p \in Process : ~Ended(p) /\ Ended(p)'
  <2>1. ended2 = ended
    BY <1>1, <1>4
  <2>2. known \subseteq known2 /\ known2 \ known \subseteq ended
    BY <1>1
  <2>3. announced' = announced
    BY <1>4, AnnouncingSteps
  <2>4. News!Result(known2 \ known)
    BY <2>1, <2>2, <2>3 DEF News!Result
  <2>5. known2 \ known \in SUBSET Process
    OBVIOUS
  <2> QED  BY <2>4, <2>5 DEF News!Next, News!Result
<1> QED  BY <1>2, <1>3, <1>4

\* An ending reaches the model by a result or by one announcement, and never by
\* an announcement of what it already knows.
THEOREM DeliveryImplementsNews == DeliverySpec => NewsRefined
<1>1. DeliveryInit => News!Init
  BY DEF DeliveryInit, Init, News!Init, Ended, NewState, Registered
<1>2. DeliveryInv /\ [DeliveryNext]_allVars =>
          [News!Next]_<<{p \in Process : Ended(p)},
                        {p \in Process : state[p].reported}, announced>>
  BY StepsAreNews
<1> QED  BY <1>1, <1>2, DeliveryInvariance, PTL DEF DeliverySpec, NewsRefined, News!Spec
=============================================================================
