--------------------------- MODULE MCSessionJournal ---------------------------
(***************************************************************************)
(* An instance of SessionJournal for TLC, with states that are stored as   *)
(* JournalState stores them.  Differences are checked on more states than  *)
(* the journal is run with: a field that changes or appears, an object     *)
(* that appears, changes and is replaced, and partial text that grows and  *)
(* is replaced.                                                            *)
(***************************************************************************)
EXTENDS SessionJournal, TLC

CONSTANTS a, b, null, x, y

Items == {a, b}
Symmetry == Permutations(Items)

Atoms == {null, x, y}
Characters == {x, y}
Keys == {"first", "second"}

Saved ==
    {[fields |-> [first |-> null, second |-> null], partial |-> <<x>>],
     [fields |-> [first |-> x, second |-> [first |-> x, second |-> y]], partial |-> <<x, y>>]}

Fields ==
    [first : {null, x},
     second : {null, Missing} \cup [first : {x, y}, second : {y, Missing}]]
Texts == UNION {[1..n -> {x, y}] : n \in 0..2}

ASSUME DifferencesRestore ==
    LET Every == [fields : Fields, partial : Texts]
    IN  \A s \in Every \cup {NoState}, t \in Every :
            KeepsKeys(s, t) => StateMerge(s, StateDelta(s, t)) = t
=============================================================================
