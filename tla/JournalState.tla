----------------------------- MODULE JournalState -----------------------------
(***************************************************************************)
(* How a journal record stores a document's state                          *)
(* (src/sessions/journal/state.rs): as what changed since the record       *)
(* before it.                                                              *)
(*                                                                         *)
(* An object is a function from all keys, with Missing for those it lacks; *)
(* every other JSON value is an Atom.  A state is an object and the        *)
(* partial response, a sequence of characters (the code keeps to UTF-8     *)
(* boundaries).  What recurses into objects is a function of how deep they *)
(* may nest.                                                               *)
(***************************************************************************)
EXTENDS Naturals, Sequences, FiniteSetsExt

CONSTANTS
    Atom,       \* null, booleans, numbers, strings and arrays; and a routing, whose
                \* endpoint is not read where its mode is another (backend/mod.rs:184)
    Key,
    Missing,    \* what an object has at a key it lacks
    Character,
    Depth       \* bound on the nesting of objects

Object(values) == [Key -> values \cup {Missing}]

\* The values with at most n objects around what they hold.
Value[n \in 0..Depth] == IF n = 0 THEN Atom ELSE Atom \cup Object(Value[n - 1])

\* An object is told from an atom, and a value from none.
ASSUME ValueAssumption ==
    /\ Depth \in Nat \ {0}
    /\ \A n \in 0..Depth : Missing \notin Value[n] /\ \A atom \in Atom : atom \notin Object(Value[n])

IsObject(value) == value \notin Atom

\* The fields of next that differ, themselves as differences.
Delta[n \in 0..Depth] ==
    [previous \in Value[n] |-> [next \in Value[n] |->
        IF IsObject(previous) /\ IsObject(next)
        THEN [key \in Key |->
                  IF next[key] \in {previous[key], Missing} THEN Missing
                  ELSE IF previous[key] = Missing THEN next[key]
                  ELSE Delta[n - 1][previous[key]][next[key]]]
        ELSE next]]

\* Fields are added and replaced, never removed.
Merge[n \in 0..Depth] ==
    [previous \in Value[n] |-> [patch \in Value[n] |->
        IF IsObject(previous) /\ IsObject(patch)
        THEN [key \in Key |->
                  IF patch[key] = Missing THEN previous[key]
                  ELSE IF previous[key] = Missing THEN patch[key]
                  ELSE Merge[n - 1][previous[key]][patch[key]]]
        ELSE patch]]

\* The objects of previous that are still objects have kept their keys.
KeysKept[n \in 0..Depth] ==
    [previous \in Value[n] |-> [next \in Value[n] |->
        IsObject(previous) /\ IsObject(next) =>
            \A key \in Key : previous[key] # Missing =>
                next[key] # Missing /\ KeysKept[n - 1][previous[key]][next[key]]]]

\* The characters two texts share before they differ.
Common(previous, next) ==
    Max({n \in 0..Len(previous) : n <= Len(next) /\ SubSeq(previous, 1, n) = SubSeq(next, 1, n)})

DocumentState == [fields : Value[Depth] \ Atom, partial : Seq(Character)]

NoState == [fields |-> [key \in Key |-> Missing], partial |-> <<>>]

StateDelta(previous, next) ==
    LET keep == Common(previous.partial, next.partial)
    IN  [fields |-> Delta[Depth][previous.fields][next.fields],
         keep |-> keep,
         text |-> SubSeq(next.partial, keep + 1, Len(next.partial))]

StateMerge(previous, patch) ==
    [fields |-> Merge[Depth][previous.fields][patch.fields],
     partial |-> SubSeq(previous.partial, 1, patch.keep) \o patch.text]

KeepsKeys(previous, next) == KeysKept[Depth][previous.fields][next.fields]
=============================================================================
