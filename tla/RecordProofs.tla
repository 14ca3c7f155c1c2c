---------------------------- MODULE RecordProofs ----------------------------
(***************************************************************************)
(* Proofs about what the program keeps in files that a crash or another    *)
(* process may change: the journal of a session (SessionJournal), the      *)
(* record of an account (Credentials), and the connections to remote MCP   *)
(* servers (McpConnections).  The three machines share no state; the       *)
(* theorems about each stand on an invariant of its own.                   *)
(*                                                                         *)
(* SessionJournal, for any items, values, depth of nesting and bounds, and *)
(* states that keep their keys.  What a record stores restores the state   *)
(* it was made for, by induction on the depth (StatesRestored).  The       *)
(* invariant of the journal, JournalInv, says that the records always      *)
(* continue each other (Whole), that a process that knows a position knows *)
(* what the records before it make (PositionSound), and that a record on   *)
(* its way completes that to a document as long as the live one            *)
(* (SavingSound).  While no rollback has failed, what is acknowledged is   *)
(* what the synced records make, and it begins the live document however   *)
(* far a refused save is withdrawn (AckedSound), so that what a record     *)
(* completes is the document that was saved.                               *)
(*                                                                         *)
(* Credentials, for any workers, interfaces and sessions and any number of *)
(* answers.  Whoever changes the record's file holds its lock or finds it  *)
(* free, so that what the lock's holder read of it stays true (OneHolder,  *)
(* AsStored), and memory that is not known to be old agrees with it        *)
(* (MemoryAgrees).  And every refresh token is in one place: in the file,  *)
(* with the caller that was just given it, or with one that is about to    *)
(* revoke it (Apart).                                                      *)
(*                                                                         *)
(* McpConnections, for any calls, forms, processes, clients and any number *)
(* of answers of the authorization server.  The invariant, McpInv, has two *)
(* parts that change in different steps.  ClientInv is about the calls of  *)
(* the process and the clients they share: no two calls hold the same      *)
(* client (ClientsApart), the client of a call that talks was made for its *)
(* record, and the shared one for the record it is shared under            *)
(* (ClientSound, CurrentSound).  StoreInv is about the record, its lock    *)
(* and the forms: who renews holds the lock, and what it read is still on  *)
(* file (KeeperSound); and the tokens of a draft are those it was opened   *)
(* with, none, or those of a sign-in of its own that nobody else has       *)
(* (DraftsSound), so that no save brings tokens back.  A guard knows what  *)
(* its sign-in asked for (GuardsSound), so that what was not asked for     *)
(* stays pending.                                                          *)
(***************************************************************************)
EXTENDS SessionJournal, Credentials, McpConnections,
        FiniteSetTheorems, NaturalsInduction, SequenceTheorems, WellFoundedInduction, TLAPS

-----------------------------------------------------------------------------
(* Numbers.                                                                *)

\* A set of numbers has a least one.
LEMMA LeastNumber ==
    ASSUME NEW T, T \subseteq Nat, T # {}
    PROVE  \E n \in T : \A m \in T : n <= m
<1>1. PICK n \in T : \A m \in T : ~(<<m, n>> \in OpToRel(<, Nat))
  BY NatLessThanWellFounded, WFMin
<1>2. \A m \in T : ~(m < n)
  BY <1>1 DEF OpToRel
<1> QED  BY <1>2

\* Induction, for a set of numbers.
LEMMA EveryNumber ==
    ASSUME NEW T, 0 \in T, \A n \in Nat : n \in T => n + 1 \in T
    PROVE  Nat \subseteq T
<1> DEFINE Out == {n \in Nat : n \notin T}
<1>1. ASSUME Out # {}
      PROVE  FALSE
  <2>1. PICK n \in Out : \A m \in Out : n <= m
    BY <1>1, LeastNumber
  <2>2. n \in Nat /\ n # 0
    BY <2>1
  <2>3. n - 1 \in Nat /\ (n - 1) + 1 = n /\ ~(n <= n - 1)
    BY <2>2
  <2>4. n - 1 \in T
    BY <2>1, <2>3
  <2> QED  BY <2>1, <2>3, <2>4
<1> QED  BY <1>1

-----------------------------------------------------------------------------
(* States: the differences of JournalState restore.  A function of the     *)
(* depth of nesting exists to every depth, and what it is at one depth     *)
(* follows from the one below.                                             *)

\* A function of numbers up to n, with one more value.
OneMore(f, n, last) == [i \in 0..(n + 1) |-> IF i = n + 1 THEN last ELSE f[i]]

\* v is what Value defines to the depth n.
ValueMade(v, n) == v = [i \in 0..n |-> IF i = 0 THEN Atom ELSE Atom \cup Object(v[i - 1])]

\* Values exist to any depth.
LEMMA ValuesAreMade == \A n \in Nat : \E v : ValueMade(v, n)
<1> DEFINE T == {n \in Nat : \E v : ValueMade(v, n)}
<1>1. 0 \in T
  <2>1. [i \in 0..0 |-> Atom]
        = [i \in 0..0 |-> IF i = 0 THEN Atom ELSE Atom \cup Object([j \in 0..0 |-> Atom][i - 1])]
    <3>1. \A i \in 0..0 : i = 0
      OBVIOUS
    <3> QED  BY <3>1
  <2> QED  BY <2>1 DEF ValueMade
<1>2. ASSUME NEW n \in Nat, n \in T
      PROVE  n + 1 \in T
  <2>1. PICK v : ValueMade(v, n)
    BY <1>2
  <2> DEFINE e == OneMore(v, n, Atom \cup Object(v[n]))
  <2>2. \A i \in 0..n : v[i] = IF i = 0 THEN Atom ELSE Atom \cup Object(v[i - 1])
    BY <2>1 DEF ValueMade
  <2>3. /\ e = [i \in 0..(n + 1) |-> e[i]] /\ \A i \in 0..n : e[i] = v[i]
        /\ e[n + 1] = Atom \cup Object(v[n])
    BY DEF OneMore
  <2> HIDE DEF e
  <2>4. ASSUME NEW i \in 0..(n + 1)
        PROVE  e[i] = IF i = 0 THEN Atom ELSE Atom \cup Object(e[i - 1])
    <3>1. CASE i = n + 1
      <4>1. n \in 0..n /\ i # 0 /\ i - 1 = n
        BY <3>1
      <4> QED  BY <2>3, <3>1, <4>1
    <3>2. CASE i = 0
      <4>1. 0 \in 0..n
        OBVIOUS
      <4> QED  BY <2>2, <2>3, <3>2, <4>1
    <3>3. CASE i # 0 /\ i # n + 1
      <4>1. i \in 0..n /\ i - 1 \in 0..n
        BY <3>3
      <4> QED  BY <2>2, <2>3, <3>3, <4>1
    <3> QED  BY <3>1, <3>2, <3>3
  <2>5. ValueMade(e, n + 1)
    BY <2>3, <2>4 DEF ValueMade
  <2> QED  BY <2>5
<1> HIDE DEF T
<1>3. Nat \subseteq T
  BY <1>1, <1>2, EveryNumber
<1> QED  BY <1>3 DEF T

\* Value, depth by depth.
LEMMA ValuesAre ==
    /\ Value[0] = Atom
    /\ \A n \in 1..Depth : Value[n] = Atom \cup Object(Value[n - 1])
<1>1. Depth \in Nat
  BY ValueAssumption
<1>2. ValueMade(Value, Depth)
  <2>1. \E v : ValueMade(v, Depth)
    BY <1>1, ValuesAreMade
  <2> QED  BY <2>1 DEF ValueMade, Value
<1>3. Value = [i \in 0..Depth |-> IF i = 0 THEN Atom ELSE Atom \cup Object(Value[i - 1])]
  BY <1>2 DEF ValueMade
<1>4. ASSUME NEW i \in 0..Depth
      PROVE  Value[i] = IF i = 0 THEN Atom ELSE Atom \cup Object(Value[i - 1])
  BY <1>3, Zenon
<1>5. 0 \in 0..Depth /\ \A n \in 1..Depth : n \in 0..Depth /\ n # 0
  BY <1>1
<1> QED  BY <1>4, <1>5

\* One level of Delta: inner is Delta one level below.
DeltaAt(n, inner) ==
    [previous \in Value[n] |-> [next \in Value[n] |->
        IF IsObject(previous) /\ IsObject(next)
        THEN [key \in Key |->
                  IF next[key] \in {previous[key], Missing} THEN Missing
                  ELSE IF previous[key] = Missing THEN next[key]
                  ELSE inner[previous[key]][next[key]]]
        ELSE next]]

\* d is what Delta defines to the depth n.
DeltaMade(d, n) == d = [i \in 0..n |-> DeltaAt(i, d[i - 1])]

\* Without nesting nothing is asked of the level below.
LEMMA DeltaAtZero == \A inner, other : DeltaAt(0, inner) = DeltaAt(0, other)
<1> SUFFICES ASSUME NEW inner, NEW other
             PROVE  DeltaAt(0, inner) = DeltaAt(0, other)
  OBVIOUS
<1>1. \A value \in Value[0] : ~IsObject(value)
  BY ValuesAre DEF IsObject
<1> QED  BY <1>1 DEF DeltaAt

\* Delta exists to any depth.
LEMMA DeltaIsMade == \A n \in Nat : \E d : DeltaMade(d, n)
<1> DEFINE T == {n \in Nat : \E d : DeltaMade(d, n)}
<1>1. 0 \in T
  <2> DEFINE e == [i \in 0..0 |-> DeltaAt(0, 0)]
  <2>1. e = [i \in 0..0 |-> DeltaAt(i, e[i - 1])]
    <3>1. \A i \in 0..0 : i = 0
      OBVIOUS
    <3>2. \A i \in 0..0 : DeltaAt(i, e[i - 1]) = DeltaAt(0, 0)
      BY <3>1, DeltaAtZero
    <3> QED  BY <3>2
  <2> QED  BY <2>1 DEF DeltaMade
<1>2. ASSUME NEW n \in Nat, n \in T
      PROVE  n + 1 \in T
  <2>1. PICK d : DeltaMade(d, n)
    BY <1>2
  <2> DEFINE e == OneMore(d, n, DeltaAt(n + 1, d[n]))
  <2>2. \A i \in 0..n : d[i] = DeltaAt(i, d[i - 1])
    BY <2>1 DEF DeltaMade
  <2>3. /\ e = [i \in 0..(n + 1) |-> e[i]] /\ \A i \in 0..n : e[i] = d[i]
        /\ e[n + 1] = DeltaAt(n + 1, d[n])
    BY DEF OneMore
  <2> HIDE DEF e
  <2>4. ASSUME NEW i \in 0..(n + 1)
        PROVE  e[i] = DeltaAt(i, e[i - 1])
    <3>1. CASE i = n + 1
      <4>1. n \in 0..n /\ i - 1 = n
        BY <3>1
      <4> QED  BY <2>3, <3>1, <4>1
    <3>2. CASE i = 0
      <4>1. 0 \in 0..n
        OBVIOUS
      <4>2. e[0] = DeltaAt(0, d[0 - 1])
        BY <2>2, <2>3, <4>1
      <4>3. DeltaAt(0, d[0 - 1]) = DeltaAt(0, e[0 - 1])
        BY DeltaAtZero
      <4> QED  BY <3>2, <4>2, <4>3
    <3>3. CASE i # 0 /\ i # n + 1
      <4>1. i \in 0..n /\ i - 1 \in 0..n
        BY <3>3
      <4> QED  BY <2>2, <2>3, <3>3, <4>1
    <3> QED  BY <3>1, <3>2, <3>3
  <2>5. DeltaMade(e, n + 1)
    BY <2>3, <2>4 DEF DeltaMade
  <2> QED  BY <2>5
<1> HIDE DEF T
<1>3. Nat \subseteq T
  BY <1>1, <1>2, EveryNumber
<1> QED  BY <1>3 DEF T

\* Delta, depth by depth.
LEMMA DeltaIs == \A n \in 0..Depth : Delta[n] = DeltaAt(n, Delta[n - 1])
<1>1. Depth \in Nat
  BY ValueAssumption
<1>2. DeltaMade(Delta, Depth)
  <2>1. \E d : DeltaMade(d, Depth)
    BY <1>1, DeltaIsMade
  <2> QED  BY <2>1 DEF DeltaMade, Delta, DeltaAt
<1>3. Delta = [i \in 0..Depth |-> DeltaAt(i, Delta[i - 1])]
  BY <1>2 DEF DeltaMade
<1>4. ASSUME NEW i \in 0..Depth
      PROVE  Delta[i] = DeltaAt(i, Delta[i - 1])
  BY <1>3, Zenon
<1> QED  BY <1>4

\* One level of Merge: inner is Merge one level below.
MergeAt(n, inner) ==
    [previous \in Value[n] |-> [patch \in Value[n] |->
        IF IsObject(previous) /\ IsObject(patch)
        THEN [key \in Key |->
                  IF patch[key] = Missing THEN previous[key]
                  ELSE IF previous[key] = Missing THEN patch[key]
                  ELSE inner[previous[key]][patch[key]]]
        ELSE patch]]

\* m is what Merge defines to the depth n.
MergeMade(m, n) == m = [i \in 0..n |-> MergeAt(i, m[i - 1])]

\* Without nesting nothing is asked of the level below.
LEMMA MergeAtZero == \A inner, other : MergeAt(0, inner) = MergeAt(0, other)
<1> SUFFICES ASSUME NEW inner, NEW other
             PROVE  MergeAt(0, inner) = MergeAt(0, other)
  OBVIOUS
<1>1. \A value \in Value[0] : ~IsObject(value)
  BY ValuesAre DEF IsObject
<1> QED  BY <1>1 DEF MergeAt

\* Merge exists to any depth.
LEMMA MergeIsMade == \A n \in Nat : \E m : MergeMade(m, n)
<1> DEFINE T == {n \in Nat : \E m : MergeMade(m, n)}
<1>1. 0 \in T
  <2> DEFINE e == [i \in 0..0 |-> MergeAt(0, 0)]
  <2>1. e = [i \in 0..0 |-> MergeAt(i, e[i - 1])]
    <3>1. \A i \in 0..0 : i = 0
      OBVIOUS
    <3>2. \A i \in 0..0 : MergeAt(i, e[i - 1]) = MergeAt(0, 0)
      BY <3>1, MergeAtZero
    <3> QED  BY <3>2
  <2> QED  BY <2>1 DEF MergeMade
<1>2. ASSUME NEW n \in Nat, n \in T
      PROVE  n + 1 \in T
  <2>1. PICK m : MergeMade(m, n)
    BY <1>2
  <2> DEFINE e == OneMore(m, n, MergeAt(n + 1, m[n]))
  <2>2. \A i \in 0..n : m[i] = MergeAt(i, m[i - 1])
    BY <2>1 DEF MergeMade
  <2>3. /\ e = [i \in 0..(n + 1) |-> e[i]] /\ \A i \in 0..n : e[i] = m[i]
        /\ e[n + 1] = MergeAt(n + 1, m[n])
    BY DEF OneMore
  <2> HIDE DEF e
  <2>4. ASSUME NEW i \in 0..(n + 1)
        PROVE  e[i] = MergeAt(i, e[i - 1])
    <3>1. CASE i = n + 1
      <4>1. n \in 0..n /\ i - 1 = n
        BY <3>1
      <4> QED  BY <2>3, <3>1, <4>1
    <3>2. CASE i = 0
      <4>1. 0 \in 0..n
        OBVIOUS
      <4>2. e[0] = MergeAt(0, m[0 - 1])
        BY <2>2, <2>3, <4>1
      <4>3. MergeAt(0, m[0 - 1]) = MergeAt(0, e[0 - 1])
        BY MergeAtZero
      <4> QED  BY <3>2, <4>2, <4>3
    <3>3. CASE i # 0 /\ i # n + 1
      <4>1. i \in 0..n /\ i - 1 \in 0..n
        BY <3>3
      <4> QED  BY <2>2, <2>3, <3>3, <4>1
    <3> QED  BY <3>1, <3>2, <3>3
  <2>5. MergeMade(e, n + 1)
    BY <2>3, <2>4 DEF MergeMade
  <2> QED  BY <2>5
<1> HIDE DEF T
<1>3. Nat \subseteq T
  BY <1>1, <1>2, EveryNumber
<1> QED  BY <1>3 DEF T

\* Merge, depth by depth.
LEMMA MergeIs == \A n \in 0..Depth : Merge[n] = MergeAt(n, Merge[n - 1])
<1>1. Depth \in Nat
  BY ValueAssumption
<1>2. MergeMade(Merge, Depth)
  <2>1. \E m : MergeMade(m, Depth)
    BY <1>1, MergeIsMade
  <2> QED  BY <2>1 DEF MergeMade, Merge, MergeAt
<1>3. Merge = [i \in 0..Depth |-> MergeAt(i, Merge[i - 1])]
  BY <1>2 DEF MergeMade
<1>4. ASSUME NEW i \in 0..Depth
      PROVE  Merge[i] = MergeAt(i, Merge[i - 1])
  BY <1>3, Zenon
<1> QED  BY <1>4

\* One level of KeysKept: inner is KeysKept one level below.
KeptAt(n, inner) ==
    [previous \in Value[n] |-> [next \in Value[n] |->
        IsObject(previous) /\ IsObject(next) =>
            \A key \in Key : previous[key] # Missing =>
                next[key] # Missing /\ inner[previous[key]][next[key]]]]

\* k is what KeysKept defines to the depth n.
KeptMade(k, n) == k = [i \in 0..n |-> KeptAt(i, k[i - 1])]

\* Without nesting nothing is asked of the level below.
LEMMA KeptAtZero == \A inner, other : KeptAt(0, inner) = KeptAt(0, other)
<1> SUFFICES ASSUME NEW inner, NEW other
             PROVE  KeptAt(0, inner) = KeptAt(0, other)
  OBVIOUS
<1>1. \A value \in Value[0] : ~IsObject(value)
  BY ValuesAre DEF IsObject
<1> QED  BY <1>1 DEF KeptAt

\* KeysKept exists to any depth.
LEMMA KeptIsMade == \A n \in Nat : \E k : KeptMade(k, n)
<1> DEFINE T == {n \in Nat : \E k : KeptMade(k, n)}
<1>1. 0 \in T
  <2> DEFINE e == [i \in 0..0 |-> KeptAt(0, 0)]
  <2>1. e = [i \in 0..0 |-> KeptAt(i, e[i - 1])]
    <3>1. \A i \in 0..0 : i = 0
      OBVIOUS
    <3>2. \A i \in 0..0 : KeptAt(i, e[i - 1]) = KeptAt(0, 0)
      BY <3>1, KeptAtZero
    <3> QED  BY <3>2
  <2> QED  BY <2>1 DEF KeptMade
<1>2. ASSUME NEW n \in Nat, n \in T
      PROVE  n + 1 \in T
  <2>1. PICK k : KeptMade(k, n)
    BY <1>2
  <2> DEFINE e == OneMore(k, n, KeptAt(n + 1, k[n]))
  <2>2. \A i \in 0..n : k[i] = KeptAt(i, k[i - 1])
    BY <2>1 DEF KeptMade
  <2>3. /\ e = [i \in 0..(n + 1) |-> e[i]] /\ \A i \in 0..n : e[i] = k[i]
        /\ e[n + 1] = KeptAt(n + 1, k[n])
    BY DEF OneMore
  <2> HIDE DEF e
  <2>4. ASSUME NEW i \in 0..(n + 1)
        PROVE  e[i] = KeptAt(i, e[i - 1])
    <3>1. CASE i = n + 1
      <4>1. n \in 0..n /\ i - 1 = n
        BY <3>1
      <4> QED  BY <2>3, <3>1, <4>1
    <3>2. CASE i = 0
      <4>1. 0 \in 0..n
        OBVIOUS
      <4>2. e[0] = KeptAt(0, k[0 - 1])
        BY <2>2, <2>3, <4>1
      <4>3. KeptAt(0, k[0 - 1]) = KeptAt(0, e[0 - 1])
        BY KeptAtZero
      <4> QED  BY <3>2, <4>2, <4>3
    <3>3. CASE i # 0 /\ i # n + 1
      <4>1. i \in 0..n /\ i - 1 \in 0..n
        BY <3>3
      <4> QED  BY <2>2, <2>3, <3>3, <4>1
    <3> QED  BY <3>1, <3>2, <3>3
  <2>5. KeptMade(e, n + 1)
    BY <2>3, <2>4 DEF KeptMade
  <2> QED  BY <2>5
<1> HIDE DEF T
<1>3. Nat \subseteq T
  BY <1>1, <1>2, EveryNumber
<1> QED  BY <1>3 DEF T

\* KeysKept, depth by depth.
LEMMA KeptIs == \A n \in 0..Depth : KeysKept[n] = KeptAt(n, KeysKept[n - 1])
<1>1. Depth \in Nat
  BY ValueAssumption
<1>2. KeptMade(KeysKept, Depth)
  <2>1. \E k : KeptMade(k, Depth)
    BY <1>1, KeptIsMade
  <2> QED  BY <2>1 DEF KeptMade, KeysKept, KeptAt
<1>3. KeysKept = [i \in 0..Depth |-> KeptAt(i, KeysKept[i - 1])]
  BY <1>2 DEF KeptMade
<1>4. ASSUME NEW i \in 0..Depth
      PROVE  KeysKept[i] = KeptAt(i, KeysKept[i - 1])
  BY <1>3, Zenon
<1> QED  BY <1>4

\* Delta of two values.
LEMMA DeltaOf ==
    ASSUME NEW n \in 0..Depth, NEW previous \in Value[n], NEW next \in Value[n]
    PROVE  Delta[n][previous][next] =
           IF IsObject(previous) /\ IsObject(next)
           THEN [key \in Key |->
                     IF next[key] \in {previous[key], Missing} THEN Missing
                     ELSE IF previous[key] = Missing THEN next[key]
                     ELSE Delta[n - 1][previous[key]][next[key]]]
           ELSE next
<1>1. Delta[n] = DeltaAt(n, Delta[n - 1])
  BY DeltaIs
<1> DEFINE inner == Delta[n - 1]
<1> HIDE DEF inner
<1>2. DeltaAt(n, inner)[previous][next] =
           IF IsObject(previous) /\ IsObject(next)
           THEN [key \in Key |->
                     IF next[key] \in {previous[key], Missing} THEN Missing
                     ELSE IF previous[key] = Missing THEN next[key]
                     ELSE inner[previous[key]][next[key]]]
           ELSE next
  BY Zenon DEF DeltaAt
<1> QED  BY <1>1, <1>2 DEF inner

\* Merge of two values.
LEMMA MergeOf ==
    ASSUME NEW n \in 0..Depth, NEW previous \in Value[n], NEW patch \in Value[n]
    PROVE  Merge[n][previous][patch] =
           IF IsObject(previous) /\ IsObject(patch)
           THEN [key \in Key |->
                     IF patch[key] = Missing THEN previous[key]
                     ELSE IF previous[key] = Missing THEN patch[key]
                     ELSE Merge[n - 1][previous[key]][patch[key]]]
           ELSE patch
<1>1. Merge[n] = MergeAt(n, Merge[n - 1])
  BY MergeIs
<1> DEFINE inner == Merge[n - 1]
<1> HIDE DEF inner
<1>2. MergeAt(n, inner)[previous][patch] =
           IF IsObject(previous) /\ IsObject(patch)
           THEN [key \in Key |->
                     IF patch[key] = Missing THEN previous[key]
                     ELSE IF previous[key] = Missing THEN patch[key]
                     ELSE inner[previous[key]][patch[key]]]
           ELSE patch
  BY Zenon DEF MergeAt
<1> QED  BY <1>1, <1>2 DEF inner

\* KeysKept of two values.
LEMMA KeptOf ==
    ASSUME NEW n \in 0..Depth, NEW previous \in Value[n], NEW next \in Value[n]
    PROVE  KeysKept[n][previous][next] =
           (IsObject(previous) /\ IsObject(next) =>
               \A key \in Key : previous[key] # Missing =>
                   next[key] # Missing /\ KeysKept[n - 1][previous[key]][next[key]])
<1>1. KeysKept[n] = KeptAt(n, KeysKept[n - 1])
  BY KeptIs
<1> DEFINE inner == KeysKept[n - 1]
<1> HIDE DEF inner
<1>2. KeptAt(n, inner)[previous][next] =
           (IsObject(previous) /\ IsObject(next) =>
               \A key \in Key : previous[key] # Missing =>
                   next[key] # Missing /\ inner[previous[key]][next[key]])
  BY Zenon DEF KeptAt
<1> QED  BY <1>1, <1>2 DEF inner

\* The values in an object are of the depth below.
LEMMA Within ==
    ASSUME NEW n \in 1..Depth, NEW value \in Value[n], IsObject(value)
    PROVE  /\ value = [key \in Key |-> value[key]]
           /\ \A key \in Key : value[key] # Missing => value[key] \in Value[n - 1]
<1>1. value \in Object(Value[n - 1])
  BY ValuesAre DEF IsObject
<1> QED  BY <1>1 DEF Object

\* What holds values of a depth at keys is an object of the next.
LEMMA MakesObject ==
    ASSUME NEW n \in 1..Depth, NEW value, value = [key \in Key |-> value[key]],
           \A key \in Key : value[key] \in Value[n - 1] \cup {Missing}
    PROVE  value \in Value[n] /\ IsObject(value)
<1>1. value \in Object(Value[n - 1])
  BY DEF Object
<1>2. n - 1 \in 0..Depth /\ Depth \in Nat
  BY ValueAssumption
<1>3. value \notin Atom
  BY <1>1, <1>2, ValueAssumption
<1> QED  BY <1>1, <1>3, ValuesAre DEF IsObject

\* The difference of two values of a depth is one, and restores the second.
Restored(n) ==
    \A v, w \in Value[n] : KeysKept[n][v][w] =>
        Delta[n][v][w] \in Value[n] /\ Merge[n][v][Delta[n][v][w]] = w

\* Where one of them is no object, the difference is the second.
LEMMA AtomRestored ==
    ASSUME NEW n \in 0..Depth, NEW v \in Value[n], NEW w \in Value[n],
           ~(IsObject(v) /\ IsObject(w))
    PROVE  Delta[n][v][w] = w /\ Merge[n][v][w] = w
<1>1. Delta[n][v][w] = w
  <2>1. Delta[n][v][w] =
            IF IsObject(v) /\ IsObject(w)
            THEN [key \in Key |->
                      IF w[key] \in {v[key], Missing} THEN Missing
                      ELSE IF v[key] = Missing THEN w[key]
                      ELSE Delta[n - 1][v[key]][w[key]]]
            ELSE w
    BY DeltaOf
  <2> QED  BY <2>1, Zenon
<1>2. Merge[n][v][w] = w
  <2>1. Merge[n][v][w] =
            IF IsObject(v) /\ IsObject(w)
            THEN [key \in Key |->
                      IF w[key] = Missing THEN v[key]
                      ELSE IF v[key] = Missing THEN w[key]
                      ELSE Merge[n - 1][v[key]][w[key]]]
            ELSE w
    BY MergeOf
  <2> QED  BY <2>1, Zenon
<1> QED  BY <1>1, <1>2

\* Two objects: what restores the values in them restores them.
LEMMA ObjectRestored ==
    ASSUME NEW n \in 1..Depth, Restored(n - 1), NEW v \in Value[n], NEW w \in Value[n],
           IsObject(v), IsObject(w), KeysKept[n][v][w]
    PROVE  Delta[n][v][w] \in Value[n] /\ Merge[n][v][Delta[n][v][w]] = w
<1>1. n \in 0..Depth /\ n - 1 \in 0..Depth /\ Depth \in Nat
  BY ValueAssumption
<1>2. Missing \notin Value[n - 1]
  BY <1>1, ValueAssumption
<1>3. /\ \A key \in Key : v[key] # Missing => v[key] \in Value[n - 1]
      /\ \A key \in Key : w[key] # Missing => w[key] \in Value[n - 1]
      /\ w = [key \in Key |-> w[key]]
  BY Within
<1>4. \A key \in Key : v[key] # Missing =>
          w[key] # Missing /\ KeysKept[n - 1][v[key]][w[key]]
  BY <1>1, KeptOf
<1> DEFINE d == Delta[n][v][w]
<1>5. d = [key \in Key |->
              IF w[key] \in {v[key], Missing} THEN Missing
              ELSE IF v[key] = Missing THEN w[key]
              ELSE Delta[n - 1][v[key]][w[key]]]
  BY <1>1, DeltaOf
<1> HIDE DEF d
<1>6. ASSUME NEW key \in Key
      PROVE  /\ d[key] \in Value[n - 1] \cup {Missing}
             /\ d[key] = Missing => v[key] = w[key]
             /\ d[key] # Missing /\ v[key] = Missing => d[key] = w[key]
             /\ d[key] # Missing /\ v[key] # Missing => Merge[n - 1][v[key]][d[key]] = w[key]
  <2>1. CASE w[key] \in {v[key], Missing}
    BY <1>4, <1>5, <2>1
  <2>2. CASE w[key] \notin {v[key], Missing} /\ v[key] = Missing
    BY <1>2, <1>3, <1>5, <2>2
  <2>3. CASE w[key] \notin {v[key], Missing} /\ v[key] # Missing
    <3>1. d[key] = Delta[n - 1][v[key]][w[key]]
      BY <1>5, <2>3
    <3>2. v[key] \in Value[n - 1] /\ w[key] \in Value[n - 1] /\ KeysKept[n - 1][v[key]][w[key]]
      BY <1>3, <1>4, <2>3
    <3>3. /\ d[key] \in Value[n - 1]
          /\ Merge[n - 1][v[key]][d[key]] = w[key]
      BY <3>1, <3>2 DEF Restored
    <3> QED  BY <1>2, <2>3, <3>3
  <2> QED  BY <2>1, <2>2, <2>3
<1>7. d = [key \in Key |-> d[key]]
  BY <1>5
<1>8. d \in Value[n] /\ IsObject(d)
  BY <1>6, <1>7, MakesObject
<1>9. Merge[n][v][d] = [key \in Key |->
          IF d[key] = Missing THEN v[key]
          ELSE IF v[key] = Missing THEN d[key]
          ELSE Merge[n - 1][v[key]][d[key]]]
  BY <1>1, <1>8, MergeOf
<1>10. Merge[n][v][d] = [key \in Key |-> w[key]]
  BY <1>6, <1>9
<1> QED  BY <1>3, <1>8, <1>10 DEF d

\* By induction on the depth, every difference restores.
LEMMA ValuesRestored == \A n \in 0..Depth : Restored(n)
<1> DEFINE T == {n \in Nat : n <= Depth => Restored(n)}
<1>1. Depth \in Nat
  BY ValueAssumption
<1>2. 0 \in T
  <2>1. 0 \in 0..Depth /\ \A v \in Value[0] : ~IsObject(v)
    BY <1>1, ValuesAre DEF IsObject
  <2>2. Restored(0)
    BY <2>1, AtomRestored DEF Restored
  <2> QED  BY <2>2
<1>3. ASSUME NEW n \in Nat, n \in T
      PROVE  n + 1 \in T
  <2>1. CASE n + 1 <= Depth
    <3>1. n + 1 \in 1..Depth /\ n + 1 \in 0..Depth /\ (n + 1) - 1 = n /\ Restored(n)
      BY <1>1, <1>3, <2>1
    <3>2. ASSUME NEW v \in Value[n + 1], NEW w \in Value[n + 1], KeysKept[n + 1][v][w]
          PROVE  /\ Delta[n + 1][v][w] \in Value[n + 1]
                 /\ Merge[n + 1][v][Delta[n + 1][v][w]] = w
      <4>1. CASE IsObject(v) /\ IsObject(w)
        BY <3>1, <3>2, <4>1, ObjectRestored
      <4>2. CASE ~(IsObject(v) /\ IsObject(w))
        BY <3>1, <4>2, AtomRestored
      <4> QED  BY <4>1, <4>2
    <3> QED  BY <3>2 DEF Restored
  <2> QED  BY <2>1
<1> HIDE DEF T
<1>4. Nat \subseteq T
  BY <1>2, <1>3, EveryNumber
<1> QED  BY <1>1, <1>4 DEF T

\* What two texts share begins both.
LEMMA CommonIs ==
    ASSUME NEW p \in Seq(Character), NEW q \in Seq(Character)
    PROVE  /\ Common(p, q) \in 0..Len(p) /\ Common(p, q) <= Len(q)
           /\ SubSeq(p, 1, Common(p, q)) = SubSeq(q, 1, Common(p, q))
<1> DEFINE T == {n \in 0..Len(p) : n <= Len(q) /\ SubSeq(p, 1, n) = SubSeq(q, 1, n)}
           Left == {Len(p) - n : n \in T}
<1>1. Len(p) \in Nat /\ Len(q) \in Nat
  OBVIOUS
<1>2. SubSeq(p, 1, 0) = SubSeq(q, 1, 0)
  BY <1>1
<1>3. 0 \in T
  BY <1>1, <1>2
<1>4. Left \subseteq Nat /\ Left # {}
  <2>1. \A n \in T : n \in 0..Len(p)
    OBVIOUS
  <2> HIDE DEF T
  <2> QED  BY <1>1, <1>3, <2>1
<1>5. PICK least \in Left : \A m \in Left : least <= m
  BY <1>4, LeastNumber
<1>6. PICK most \in T : least = Len(p) - most
  BY <1>5
<1>7. \A n \in T : most >= n
  <2>1. \A n \in T : n \in 0..Len(p) /\ Len(p) - n \in Left
    OBVIOUS
  <2> HIDE DEF T, Left
  <2> QED  BY <1>1, <1>5, <1>6, <2>1
<1>8. Max(T) \in T
  <2> HIDE DEF T
  <2> QED  BY <1>6, <1>7 DEF Max
<1>9. Common(p, q) = Max(T)
  BY DEF Common
<1> HIDE DEF T
<1>10. Common(p, q) \in T
  BY <1>8, <1>9
<1> QED  BY <1>10 DEF T

\* What two texts share and the rest of the second are the second.
LEMMA TextRestored ==
    ASSUME NEW p \in Seq(Character), NEW q \in Seq(Character)
    PROVE  SubSeq(p, 1, Common(p, q)) \o SubSeq(q, Common(p, q) + 1, Len(q)) = q
<1> DEFINE k == Common(p, q)
<1>1. k \in Nat /\ k <= Len(q) /\ SubSeq(p, 1, k) = SubSeq(q, 1, k) /\ Len(q) \in Nat
  BY CommonIs
<1> HIDE DEF k
<1> DEFINE s == SubSeq(q, 1, k)
           t == SubSeq(q, k + 1, Len(q))
<1>2. /\ s \in Seq(Character) /\ t \in Seq(Character)
      /\ Len(s) = k /\ Len(t) = Len(q) - k
      /\ \A i \in 1..k : s[i] = q[i]
      /\ \A i \in 1..(Len(q) - k) : t[i] = q[k + i]
  BY <1>1, SubSeqProperties
<1> HIDE DEF s, t
<1>3. /\ s \o t \in Seq(Character) /\ Len(s \o t) = Len(q)
      /\ \A i \in 1..Len(q) : (s \o t)[i] = IF i <= k THEN s[i] ELSE t[i - k]
  BY <1>1, <1>2, ConcatProperties
<1>4. \A i \in 1..Len(q) : (s \o t)[i] = q[i]
  BY <1>1, <1>2, <1>3
<1>5. s \o t = q
  BY <1>1, <1>3, <1>4, SeqEqual
<1> QED  BY <1>1, <1>5 DEF s, t, k

\* NoState is a state whose object has no keys to lose.
LEMMA NoStateIs ==
    /\ NoState \in DocumentState
    /\ \A t \in DocumentState : KeepsKeys(NoState, t)
<1> DEFINE none == [key \in Key |-> Missing]
<1>1. Depth \in 1..Depth /\ Depth \in 0..Depth
  BY ValueAssumption
<1>2. none \in Value[Depth] /\ IsObject(none)
  BY <1>1, MakesObject
<1>3. \A key \in Key : none[key] = Missing
  OBVIOUS
<1>4. NoState.fields = none /\ NoState.partial = <<>>
  BY DEF NoState
<1> HIDE DEF none
<1>5. NoState \in DocumentState
  BY <1>2, <1>4, EmptySeq DEF DocumentState, NoState, IsObject, none
<1>6. ASSUME NEW t \in DocumentState
      PROVE  KeepsKeys(NoState, t)
  <2>1. t.fields \in Value[Depth]
    BY DEF DocumentState
  <2>2. KeysKept[Depth][none][t.fields] =
            (IsObject(none) /\ IsObject(t.fields) =>
                \A key \in Key : none[key] # Missing =>
                    t.fields[key] # Missing /\ KeysKept[Depth - 1][none[key]][t.fields[key]])
    BY <1>1, <1>2, <2>1, KeptOf
  <2> QED  BY <1>3, <1>4, <2>2 DEF KeepsKeys
<1> QED  BY <1>5, <1>6

\* StateDelta and StateMerge (state.rs): for any two states of a document of which
\* the second keeps the keys of the first's objects, however deep they nest, what
\* a record stores restores the second.
THEOREM StatesRestored ==
    \A s, t \in DocumentState : KeepsKeys(s, t) => StateMerge(s, StateDelta(s, t)) = t
<1> SUFFICES ASSUME NEW s \in DocumentState, NEW t \in DocumentState, KeepsKeys(s, t)
             PROVE  StateMerge(s, StateDelta(s, t)) = t
  OBVIOUS
<1>1. /\ s.fields \in Value[Depth] /\ s.partial \in Seq(Character)
      /\ t.fields \in Value[Depth] /\ t.partial \in Seq(Character)
      /\ t = [fields |-> t.fields, partial |-> t.partial]
  BY DEF DocumentState
<1>2. Merge[Depth][s.fields][Delta[Depth][s.fields][t.fields]] = t.fields
  <2>1. Depth \in 0..Depth
    BY ValueAssumption
  <2> QED  BY <1>1, <2>1, ValuesRestored DEF Restored, KeepsKeys
<1>3. SubSeq(s.partial, 1, Common(s.partial, t.partial))
      \o SubSeq(t.partial, Common(s.partial, t.partial) + 1, Len(t.partial)) = t.partial
  BY <1>1, TextRestored
<1> QED  BY <1>1, <1>2, <1>3 DEF StateMerge, StateDelta

\* A record restores the state it was made for, whether there was one before.
LEMMA RecordRestores ==
    \A s \in State \cup {NoState}, t \in State : StateMerge(s, StateDelta(s, t)) = t
<1>1. \A s \in State \cup {NoState}, t \in State :
          s \in DocumentState /\ t \in DocumentState /\ KeepsKeys(s, t)
  BY StateAssumption, NoStateIs
<1> QED  BY <1>1, StatesRestored

-----------------------------------------------------------------------------
(* The documents that records make.                                        *)

Continued(before, record) ==
    [history |-> HistoryOf(before) \o record.items,
     state |-> StateMerge(StateOf(before), record.state)]

\* d is what Documents defines for the first n records.
Made(d, records, n) ==
    d = [i \in 0..n |-> IF i = 0 THEN NoDocument ELSE Continued(d[i - 1], records[i])]

\* Documents of n records give those of one more.
LEMMA OneMoreMade ==
    ASSUME NEW records, NEW n \in Nat, NEW d, Made(d, records, n)
    PROVE  \E e : Made(e, records, n + 1)
<1> DEFINE e == [i \in 0..(n + 1) |->
                    IF i = n + 1 THEN Continued(d[n], records[n + 1]) ELSE d[i]]
<1>1. \A i \in 0..n : d[i] = IF i = 0 THEN NoDocument ELSE Continued(d[i - 1], records[i])
  BY DEF Made
<1>2. \A i \in 0..n : e[i] = d[i]
  OBVIOUS
<1>3. ASSUME NEW i \in 0..(n + 1)
      PROVE  e[i] = IF i = 0 THEN NoDocument ELSE Continued(e[i - 1], records[i])
  <2>1. CASE i = 0
    BY <1>1, <1>2, <2>1
  <2>2. CASE i # 0 /\ i # n + 1
    <3>1. i \in 0..n /\ i - 1 \in 0..n
      BY <2>2
    <3> QED  BY <1>1, <1>2, <2>2, <3>1
  <2>3. CASE i = n + 1
    <3>1. n \in 0..n /\ i - 1 = n /\ i # 0
      BY <2>3
    <3> QED  BY <1>2, <2>3, <3>1
  <2> QED  BY <2>1, <2>2, <2>3
<1>4. e = [i \in 0..(n + 1) |->
              IF i = 0 THEN NoDocument ELSE Continued(e[i - 1], records[i])]
  <2>1. e = [i \in 0..(n + 1) |-> e[i]]
    OBVIOUS
  <2> HIDE DEF e
  <2> QED  BY <1>3, <2>1
<1> HIDE DEF e
<1> QED  BY <1>4 DEF Made

\* Any number of records makes documents.
LEMMA DocumentsAreMade ==
    ASSUME NEW records, Len(records) \in Nat
    PROVE  Made(Documents(records), records, Len(records))
<1> DEFINE T == {n \in Nat : \E d : Made(d, records, n)}
<1>1. 0 \in T
  <2> DEFINE d == [i \in 0..0 |-> NoDocument]
  <2>1. Made(d, records, 0)
    BY DEF Made
  <2> QED  BY <2>1
<1>2. ASSUME NEW n \in Nat, n \in T
      PROVE  n + 1 \in T
  BY <1>2, OneMoreMade
<1> HIDE DEF T
<1>3. \E d : Made(d, records, Len(records))
  <2>1. Nat \subseteq T
    BY <1>1, <1>2, EveryNumber
  <2> QED  BY <2>1 DEF T
<1>4. (\E d : Made(d, records, Len(records))) => Made(Documents(records), records, Len(records))
  BY DEF Documents, Made, Continued
<1> QED  BY <1>3, <1>4

\* Documents, record by record.
LEMMA DocumentsAre ==
    ASSUME NEW records, Len(records) \in Nat
    PROVE  /\ Documents(records)[0] = NoDocument
           /\ \A i \in 1..Len(records) :
                  Documents(records)[i] = Continued(Documents(records)[i - 1], records[i])
<1> DEFINE d == Documents(records)
           n == Len(records)
<1>1. d = [i \in 0..n |-> IF i = 0 THEN NoDocument ELSE Continued(d[i - 1], records[i])]
  BY DocumentsAreMade DEF Made
<1>2. n \in Nat
  OBVIOUS
<1> HIDE DEF d, n
<1>3. d[0] = NoDocument
  BY <1>1, <1>2
<1>4. \A i \in 1..n : d[i] = Continued(d[i - 1], records[i])
  BY <1>1, <1>2
<1> QED  BY <1>3, <1>4 DEF d, n

\* Records that begin alike make the same documents there.
LEMMA SameDocuments ==
    ASSUME NEW r, Len(r) \in Nat, NEW s, Len(s) \in Nat, NEW n \in Nat,
           n <= Len(r), n <= Len(s), \A i \in 1..n : r[i] = s[i]
    PROVE  \A i \in 0..n : Documents(r)[i] = Documents(s)[i]
<1> DEFINE Differ == {i \in 0..n : Documents(r)[i] # Documents(s)[i]}
<1>1. ASSUME Differ # {}
      PROVE  FALSE
  <2>0. Differ \subseteq Nat
    OBVIOUS
  <2>1. PICK i \in Differ : \A j \in Differ : i <= j
    <3> HIDE DEF Differ
    <3> QED  BY <1>1, <2>0, LeastNumber
  <2>2. i # 0
    BY <2>1, DocumentsAre
  <2>3. i - 1 \in 0..n /\ i - 1 \notin Differ /\ i \in 1..n
    BY <2>1, <2>2
  <2>4. Documents(r)[i - 1] = Documents(s)[i - 1]
    BY <2>3
  <2>5. i \in 1..Len(r) /\ i \in 1..Len(s)
    BY <2>3
  <2>6. Documents(r)[i] = Continued(Documents(r)[i - 1], r[i])
    BY <2>5, DocumentsAre
  <2>7. Documents(s)[i] = Continued(Documents(s)[i - 1], s[i])
    BY <2>5, DocumentsAre
  <2>8. r[i] = s[i]
    BY <2>3
  <2> QED  BY <2>1, <2>4, <2>6, <2>7, <2>8
<1> QED  BY <1>1

-----------------------------------------------------------------------------
(* The inductive invariant.                                                *)

Begins(s, t) == Len(s) <= Len(t) /\ \A i \in 1..Len(s) : s[i] = t[i]

\* The records make documents, and each knows where it continues.
Whole(records) ==
    /\ records \in Seq(Record) /\ Len(records) <= MaxRecords
    /\ \A i \in 1..Len(records) :
           /\ Documents(records)[i] \in Document
           /\ records[i].from = Len(HistoryOf(Documents(records)[i - 1]))

\* A record is on its way.
Appending == {"write", "sync", "rollback"}

\* The records without it, and the document they make.
Base == IF step \in Appending THEN position.sequence ELSE Len(file)
Stored == Documents(file)[Base]

\* What this process knows of the journal.
PositionSound ==
    position # NoPosition =>
        /\ position.sequence <= Len(file) /\ synced <= position.sequence
        /\ position.history = Len(HistoryOf(Documents(file)[position.sequence]))
        /\ position.state = StateOf(Documents(file)[position.sequence])

\* Where a save, a repair or the process stands.
StepSound ==
    /\ step \in Appending => position # NoPosition
    /\ step = "copied" => position = NoPosition /\ copied
    /\ step = "down" => position = NoPosition /\ synced = Len(file)
    /\ step = "write" => Len(file) = position.sequence /\ Len(file) < MaxRecords
    /\ step = "sync" => Len(file) = position.sequence + 1
    /\ step \in {"write", "sync"} => ~torn
    /\ step = "rollback" => Len(file) <= position.sequence + 1

\* The record on its way completes the live document.
SavingSound ==
    /\ step \in Appending =>
           /\ snapshot = live /\ saving = NewRecord /\ position.history <= Len(live.history)
           /\ Len(file) = position.sequence + 1 => file[Len(file)] = saving
    /\ step \notin Appending => snapshot = NoDocument

LiveSound ==
    /\ step = "down" <=> live = NoDocument
    /\ step # "down" => keep <= Len(live.history)

\* While no rollback has failed, the records that count are synced, make the
\* acknowledged document, and begin the live one, which no refusal cuts deeper.
AckedSound ==
    ~unsure =>
        /\ synced = Base
        /\ step # "down" =>
               /\ acked = Stored
               /\ Len(HistoryOf(Stored)) <= keep /\ Begins(HistoryOf(Stored), live.history)

JournalInv ==
    /\ TypeOK /\ Whole(file) /\ PositionSound /\ StepSound /\ SavingSound /\ LiveSound
    /\ AckedSound

-----------------------------------------------------------------------------
(* Histories and documents.                                                *)

\* Histories are the sequences of items within the bound.
LEMMA HistoryIs ==
    ASSUME NEW h
    PROVE  h \in History <=> h \in Seq(Item) /\ Len(h) <= MaxHistory
<1>1. MaxHistory \in Nat
  BY BoundsAssumption
<1>2. ASSUME h \in History
      PROVE  h \in Seq(Item) /\ Len(h) <= MaxHistory
  <2>1. PICK n \in 0..MaxHistory : h \in [1..n -> Item]
    BY <1>2 DEF History
  <2>2. n \in Nat /\ n <= MaxHistory
    BY <1>1, <2>1
  <2>3. h \in Seq(Item)
    BY <2>1, <2>2, SeqDef
  <2>4. Len(h) = n
    BY <2>1, <2>2, <2>3, LenProperties
  <2> QED  BY <2>2, <2>3, <2>4
<1>3. ASSUME h \in Seq(Item), Len(h) <= MaxHistory
      PROVE  h \in History
  <2>1. Len(h) \in 0..MaxHistory /\ h \in [1..Len(h) -> Item]
    BY <1>1, <1>3, LenProperties
  <2> QED  BY <2>1 DEF History
<1> QED  BY <1>2, <1>3

\* The first n of a history.
LEMMA CutHistory ==
    ASSUME NEW h \in History, NEW n \in Nat, n <= Len(h)
    PROVE  /\ SubSeq(h, 1, n) \in History /\ Len(SubSeq(h, 1, n)) = n
           /\ \A i \in 1..n : SubSeq(h, 1, n)[i] = h[i]
<1>1. h \in Seq(Item) /\ Len(h) \in Nat /\ Len(h) <= MaxHistory /\ MaxHistory \in Nat
  BY HistoryIs, LenProperties, BoundsAssumption
<1>2. /\ SubSeq(h, 1, n) \in Seq(Item) /\ Len(SubSeq(h, 1, n)) = n
      /\ \A i \in 1..n : SubSeq(h, 1, n)[i] = h[i]
  BY <1>1, SubSeqProperties
<1>3. SubSeq(h, 1, n) \in History
  <2> DEFINE g == SubSeq(h, 1, n)
  <2>1. g \in Seq(Item) /\ Len(g) <= MaxHistory
    BY <1>1, <1>2
  <2> HIDE DEF g
  <2>2. g \in History
    BY <2>1, HistoryIs
  <2> QED  BY <2>2 DEF g
<1> QED  BY <1>2, <1>3

\* What a history has beyond the first n.
LEMMA RestOfHistory ==
    ASSUME NEW h \in History, NEW n \in Nat, n <= Len(h)
    PROVE  /\ SubSeq(h, n + 1, Len(h)) \in History /\ Len(SubSeq(h, n + 1, Len(h))) = Len(h) - n
           /\ \A i \in 1..(Len(h) - n) : SubSeq(h, n + 1, Len(h))[i] = h[n + i]
<1>1. h \in Seq(Item) /\ Len(h) \in Nat /\ Len(h) <= MaxHistory /\ MaxHistory \in Nat
  BY HistoryIs, LenProperties, BoundsAssumption
<1>2. /\ SubSeq(h, n + 1, Len(h)) \in Seq(Item) /\ Len(SubSeq(h, n + 1, Len(h))) = Len(h) - n
      /\ \A i \in 1..(Len(h) - n) : SubSeq(h, n + 1, Len(h))[i] = h[n + i]
  BY <1>1, SubSeqProperties
<1>3. SubSeq(h, n + 1, Len(h)) \in History
  <2> DEFINE g == SubSeq(h, n + 1, Len(h))
  <2>1. g \in Seq(Item) /\ Len(g) <= MaxHistory
    BY <1>1, <1>2
  <2> HIDE DEF g
  <2>2. g \in History
    BY <2>1, HistoryIs
  <2> QED  BY <2>2 DEF g
<1> QED  BY <1>2, <1>3

\* The journal's history, followed by what the document has beyond its length.
LEMMA JoinedHistory ==
    ASSUME NEW g \in History, NEW h \in History, Len(g) <= Len(h)
    PROVE  /\ g \o SubSeq(h, Len(g) + 1, Len(h)) \in History
           /\ Len(g \o SubSeq(h, Len(g) + 1, Len(h))) = Len(h)
           /\ Begins(g, h) => g \o SubSeq(h, Len(g) + 1, Len(h)) = h
<1> DEFINE rest == SubSeq(h, Len(g) + 1, Len(h))
<1>1. /\ g \in Seq(Item) /\ h \in Seq(Item) /\ Len(g) \in Nat /\ Len(h) \in Nat
      /\ Len(h) <= MaxHistory
  BY HistoryIs, LenProperties
<1>2. /\ rest \in Seq(Item) /\ Len(rest) = Len(h) - Len(g)
      /\ \A i \in 1..(Len(h) - Len(g)) : rest[i] = h[Len(g) + i]
  BY <1>1, RestOfHistory, HistoryIs
<1> HIDE DEF rest
<1>3. /\ g \o rest \in Seq(Item) /\ Len(g \o rest) = Len(h)
      /\ \A i \in 1..Len(h) : (g \o rest)[i] = IF i <= Len(g) THEN g[i] ELSE rest[i - Len(g)]
  BY <1>1, <1>2, ConcatProperties
<1>4. g \o rest \in History
  BY <1>1, <1>3, HistoryIs
<1>5. ASSUME Begins(g, h)
      PROVE  g \o rest = h
  <2>1. ASSUME NEW i \in 1..Len(h)
        PROVE  (g \o rest)[i] = h[i]
    <3>1. CASE i <= Len(g)
      BY <1>1, <1>3, <1>5, <3>1 DEF Begins
    <3>2. CASE ~(i <= Len(g))
      <4>1. i - Len(g) \in 1..(Len(h) - Len(g)) /\ Len(g) + (i - Len(g)) = i
        BY <1>1, <3>2
      <4> QED  BY <1>2, <1>3, <3>2, <4>1
    <3> QED  BY <3>1, <3>2
  <2> QED  BY <1>1, <1>3, <2>1, SeqEqual
<1> QED  BY <1>3, <1>4, <1>5 DEF rest

\* The history and the state of a document, and of none.
LEMMA DocumentParts ==
    ASSUME NEW doc \in Document \cup {NoDocument}
    PROVE  HistoryOf(doc) \in History /\ StateOf(doc) \in State \cup {NoState}
<1>1. <<>> \in History
  <2>1. <<>> \in Seq(Item) /\ Len(<<>>) = 0 /\ MaxHistory \in Nat
    BY EmptySeq, BoundsAssumption
  <2>2. <<>> \in History <=> <<>> \in Seq(Item) /\ Len(<<>>) <= MaxHistory
    BY HistoryIs
  <2> QED  BY <2>1, <2>2
<1> QED  BY <1>1 DEF HistoryOf, StateOf, Document

\* The length of a history is within the bound.
LEMMA HistoryLength ==
    ASSUME NEW h \in History
    PROVE  Len(h) \in Nat /\ Len(h) <= MaxHistory /\ Len(h) \in 0..MaxHistory
<1>1. Len(h) \in Nat /\ Len(h) <= MaxHistory /\ MaxHistory \in Nat
  BY HistoryIs, LenProperties, BoundsAssumption
<1> QED  BY <1>1

-----------------------------------------------------------------------------
(* Whole journals.                                                         *)

\* The documents of a whole journal.
LEMMA WholeDocuments ==
    ASSUME NEW records, Whole(records), NEW i \in 0..Len(records)
    PROVE  /\ Documents(records)[i] \in Document \cup {NoDocument}
           /\ i # 0 => Documents(records)[i] \in Document
           /\ i = 0 => Documents(records)[i] = NoDocument
<1>1. Len(records) \in Nat
  BY LenProperties DEF Whole
<1>2. Documents(records)[0] = NoDocument
  BY <1>1, DocumentsAre
<1>3. i # 0 => i \in 1..Len(records)
  BY <1>1
<1> QED  BY <1>2, <1>3 DEF Whole

\* A journal that is cut is whole, and makes the same documents.
LEMMA CutWhole ==
    ASSUME NEW records, Whole(records), NEW n \in Nat, n <= Len(records)
    PROVE  /\ Whole(SubSeq(records, 1, n)) /\ Len(SubSeq(records, 1, n)) = n
           /\ \A i \in 0..n : Documents(SubSeq(records, 1, n))[i] = Documents(records)[i]
<1>1. records \in Seq(Record) /\ Len(records) \in Nat /\ Len(records) <= MaxRecords
  BY LenProperties DEF Whole
<1>2. MaxRecords \in Nat
  BY BoundsAssumption
<1>3. /\ SubSeq(records, 1, n) \in Seq(Record) /\ Len(SubSeq(records, 1, n)) = n
      /\ \A i \in 1..n : SubSeq(records, 1, n)[i] = records[i]
  BY <1>1, SubSeqProperties
<1>4. \A i \in 0..n : Documents(SubSeq(records, 1, n))[i] = Documents(records)[i]
  <2> DEFINE less == SubSeq(records, 1, n)
  <2>1. /\ Len(records) \in Nat /\ Len(less) \in Nat /\ n <= Len(less)
        /\ \A i \in 1..n : less[i] = records[i]
    BY <1>1, <1>3
  <2> HIDE DEF less
  <2>2. \A i \in 0..n : Documents(less)[i] = Documents(records)[i]
    BY <2>1, SameDocuments
  <2> QED  BY <2>2 DEF less
<1>5. ASSUME NEW i \in 1..n
      PROVE  /\ Documents(SubSeq(records, 1, n))[i] \in Document
             /\ SubSeq(records, 1, n)[i].from
                  = Len(HistoryOf(Documents(SubSeq(records, 1, n))[i - 1]))
  <2>1. i \in 1..Len(records) /\ i \in 0..n /\ i - 1 \in 0..n
    BY <1>1
  <2>2. /\ Documents(records)[i] \in Document
        /\ records[i].from = Len(HistoryOf(Documents(records)[i - 1]))
    BY <2>1 DEF Whole
  <2> QED  BY <1>3, <1>4, <2>1, <2>2
<1> QED  BY <1>1, <1>2, <1>3, <1>4, <1>5 DEF Whole

\* A journal with one record more: the documents before it stay, and the new
\* one continues the last.
LEMMA AppendWhole ==
    ASSUME NEW records, Whole(records), Len(records) < MaxRecords, NEW r \in Record,
           r.from = Len(HistoryOf(Replay(records))), Continued(Replay(records), r) \in Document
    PROVE  /\ Whole(Append(records, r)) /\ Len(Append(records, r)) = Len(records) + 1
           /\ \A i \in 0..Len(records) : Documents(Append(records, r))[i] = Documents(records)[i]
           /\ Replay(Append(records, r)) = Continued(Replay(records), r)
<1> DEFINE more == Append(records, r)
           n == Len(records)
<1>1. records \in Seq(Record) /\ n \in Nat /\ MaxRecords \in Nat
  BY LenProperties, BoundsAssumption DEF Whole
<1>2. /\ more \in Seq(Record) /\ Len(more) = n + 1
      /\ \A i \in 1..n : more[i] = records[i]
      /\ more[n + 1] = r
  BY <1>1, AppendProperties
<1> HIDE DEF more
<1>3. \A i \in 0..n : Documents(more)[i] = Documents(records)[i]
  <2>1. Len(records) \in Nat /\ Len(more) \in Nat /\ n <= Len(more) /\ n <= Len(records)
    BY <1>1, <1>2
  <2> HIDE DEF n
  <2> QED  BY <1>1, <1>2, <2>1, SameDocuments
<1>4. Documents(more)[n] = Replay(records)
  BY <1>1, <1>3 DEF Replay
<1>5. Documents(more)[n + 1] = Continued(Documents(more)[n], more[n + 1])
  <2>1. Len(more) \in Nat /\ n + 1 \in 1..Len(more) /\ (n + 1) - 1 = n
    BY <1>1, <1>2
  <2>2. Documents(more)[n + 1] = Continued(Documents(more)[(n + 1) - 1], more[n + 1])
    BY <2>1, DocumentsAre
  <2> QED  BY <2>1, <2>2
<1>6. Documents(more)[n + 1] = Continued(Replay(records), r)
  BY <1>2, <1>4, <1>5
<1>7. ASSUME NEW i \in 1..Len(more)
      PROVE  /\ Documents(more)[i] \in Document
             /\ more[i].from = Len(HistoryOf(Documents(more)[i - 1]))
  <2>1. CASE i \in 1..n
    <3>1. i \in 0..n /\ i - 1 \in 0..n
      BY <1>1, <2>1
    <3>2. /\ Documents(records)[i] \in Document
          /\ records[i].from = Len(HistoryOf(Documents(records)[i - 1]))
      BY <2>1 DEF Whole
    <3> QED  BY <1>2, <1>3, <2>1, <3>1, <3>2
  <2>2. CASE i = n + 1
    <3>1. i - 1 = n
      BY <1>1, <2>2
    <3> QED  BY <1>2, <1>4, <1>6, <2>2, <3>1
  <2> QED  BY <1>1, <1>2, <2>1, <2>2
<1>8. Whole(more)
  BY <1>1, <1>2, <1>7 DEF Whole
<1> QED  BY <1>2, <1>3, <1>6, <1>8 DEF more, Replay

-----------------------------------------------------------------------------
(* The steps keep the invariant.                                           *)

\* The type invariant, one variable at a time.
LEMMA JournalTypes ==
    TypeOK <=> /\ file \in Seq(Record) /\ Len(file) <= MaxRecords
               /\ torn \in BOOLEAN /\ copied \in BOOLEAN /\ unsure \in BOOLEAN
               /\ synced \in 0..Len(file) /\ position \in Position \cup {NoPosition}
               /\ live \in Document \cup {NoDocument} /\ keep \in 0..MaxHistory
               /\ saving \in Record \cup {NoRecord} /\ snapshot \in Document \cup {NoDocument}
               /\ acked \in Document \cup {NoDocument} /\ step \in Step
BY DEF TypeOK

\* The same of the next state.
LEMMA NextJournalTypes ==
    TypeOK' <=> /\ file' \in Seq(Record) /\ Len(file') <= MaxRecords
                /\ torn' \in BOOLEAN /\ copied' \in BOOLEAN /\ unsure' \in BOOLEAN
                /\ synced' \in 0..Len(file') /\ position' \in Position \cup {NoPosition}
                /\ live' \in Document \cup {NoDocument} /\ keep' \in 0..MaxHistory
                /\ saving' \in Record \cup {NoRecord}
                /\ snapshot' \in Document \cup {NoDocument}
                /\ acked' \in Document \cup {NoDocument} /\ step' \in Step
BY DEF TypeOK

\* The lengths of the journal, and of what it knows.
LEMMA JournalNumbers ==
    ASSUME TypeOK
    PROVE  /\ Len(file) \in Nat /\ MaxRecords \in Nat /\ MaxHistory \in Nat
           /\ synced \in Nat /\ synced <= Len(file) /\ keep \in Nat
           /\ position # NoPosition => /\ position \in Position
                                       /\ position.sequence \in Nat
                                       /\ position.history \in Nat
                                       /\ position.state \in State \cup {NoState}
<1>1. Len(file) \in Nat /\ MaxRecords \in Nat /\ MaxHistory \in Nat
  BY JournalTypes, LenProperties, BoundsAssumption
<1>2. /\ synced \in 0..Len(file) /\ keep \in 0..MaxHistory
      /\ position # NoPosition => position \in Position
  BY JournalTypes
<1> QED  BY <1>1, <1>2 DEF Position

\* The document in memory.
LEMMA LivePart ==
    ASSUME TypeOK, LiveSound, step # "down"
    PROVE  live \in Document /\ live.history \in History /\ live.state \in State
<1>1. live \in Document
  BY JournalTypes DEF LiveSound
<1> QED  BY <1>1 DEF Document

\* The position that read returns at the end of a whole journal.
LEMMA PositionRead ==
    ASSUME TypeOK, Whole(file)
    PROVE  /\ PositionAt(file) \in Position /\ PositionAt(file).sequence = Len(file)
           /\ PositionAt(file).history = Len(HistoryOf(Documents(file)[Len(file)]))
           /\ PositionAt(file).state = StateOf(Documents(file)[Len(file)])
<1> DEFINE doc == Documents(file)[Len(file)]
<1>1. Len(file) \in Nat /\ Len(file) <= MaxRecords /\ MaxRecords \in Nat
  BY JournalNumbers, JournalTypes
<1>2. doc \in Document \cup {NoDocument}
  BY <1>1, WholeDocuments
<1>3. HistoryOf(doc) \in History /\ StateOf(doc) \in State \cup {NoState}
  BY <1>2, DocumentParts
<1>4. Len(HistoryOf(doc)) \in 0..MaxHistory
  BY <1>3, HistoryLength
<1>5. PositionAt(file) =
        [sequence |-> Len(file), history |-> Len(HistoryOf(doc)), state |-> StateOf(doc)]
  BY DEF PositionAt, Replay
<1> HIDE DEF doc
<1>6. Len(file) \in 0..MaxRecords
  BY <1>1
<1> QED  BY <1>3, <1>4, <1>5, <1>6 DEF Position, doc

\* A reader at the end knows the journal.
LEMMA ReadKnows ==
    ASSUME TypeOK, Whole(file), UNCHANGED file, position' = PositionAt(file),
           synced' \in 0..Len(file)
    PROVE  PositionSound' /\ position' \in Position
<1>1. /\ position' \in Position /\ position'.sequence = Len(file')
      /\ position'.history = Len(HistoryOf(Documents(file')[Len(file')]))
      /\ position'.state = StateOf(Documents(file')[Len(file')])
  BY PositionRead
<1>2. Len(file') \in Nat /\ synced' <= Len(file')
  BY JournalNumbers
<1> QED  BY <1>1, <1>2 DEF PositionSound

\* Copy, Cut, RepairFails, ReadEnd: the records and the document stay.
LEMMA RepairKeeps ==
    ASSUME JournalInv, Copy \/ Cut \/ RepairFails \/ ReadEnd
    PROVE  JournalInv'
<1>1. /\ TypeOK /\ Whole(file) /\ PositionSound /\ StepSound /\ SavingSound /\ LiveSound
      /\ AckedSound
  BY DEF JournalInv
<1>2. /\ UNCHANGED <<file, live, keep, saving, snapshot, acked, unsure>>
      /\ step \in {"idle", "copied"} /\ step' \in {"idle", "copied"}
      /\ torn' \in BOOLEAN /\ copied' \in BOOLEAN
      /\ synced' \in {synced, Len(file)}
      /\ step' = "copied" => position' = NoPosition /\ copied'
      /\ (position' = position /\ synced' = synced) \/ position' = PositionAt(file)
  BY <1>1, JournalTypes DEF Copy, Cut, RepairFails, ReadEnd, disk, StepSound
<1>3. synced' \in 0..Len(file)
  BY <1>1, <1>2, JournalNumbers
<1>4. PositionSound' /\ position' \in Position \cup {NoPosition}
  <2>1. CASE position' = position /\ synced' = synced
    BY <1>1, <1>2, <2>1, JournalTypes DEF PositionSound
  <2>2. CASE position' = PositionAt(file)
    BY <1>1, <1>2, <1>3, <2>2, ReadKnows
  <2> QED  BY <1>2, <2>1, <2>2
<1>5. TypeOK'
  BY <1>1, <1>2, <1>3, <1>4, JournalTypes, NextJournalTypes DEF Step
<1>6. Whole(file)'
  BY <1>1, <1>2 DEF Whole
<1>7. StepSound' /\ SavingSound' /\ LiveSound'
  BY <1>1, <1>2 DEF StepSound, SavingSound, LiveSound, Appending
<1>8. AckedSound'
  <2>1. Base = Len(file) /\ Base' = Len(file)
    BY <1>2 DEF Base, Appending
  <2>2. Stored' = Stored
    BY <1>2, <2>1 DEF Stored
  <2>3. ~unsure => synced' = Len(file)
    BY <1>1, <1>2, <2>1 DEF AckedSound
  <2> QED  BY <1>1, <1>2, <2>1, <2>2, <2>3 DEF AckedSound
<1> QED  BY <1>4, <1>5, <1>6, <1>7, <1>8 DEF JournalInv

\* The document the journal holds without the record on its way.
LEMMA StoredIs ==
    ASSUME TypeOK, Whole(file), PositionSound, StepSound
    PROVE  /\ Base \in 0..Len(file) /\ Stored \in Document \cup {NoDocument}
           /\ HistoryOf(Stored) \in History /\ Len(HistoryOf(Stored)) \in Nat
<1>1. Base \in 0..Len(file)
  BY JournalNumbers DEF Base, PositionSound, StepSound
<1>2. Stored \in Document \cup {NoDocument}
  BY <1>1, WholeDocuments DEF Stored
<1> QED  BY <1>1, <1>2, DocumentParts, HistoryLength

\* Edit: the history grows, or not.
LEMMA EditKeeps ==
    ASSUME JournalInv, Edit
    PROVE  JournalInv'
<1>1. /\ TypeOK /\ Whole(file) /\ PositionSound /\ StepSound /\ SavingSound /\ LiveSound
      /\ AckedSound
  BY DEF JournalInv
<1>2. PICK items \in {<<>>} \cup {<<i>> : i \in Item}, state \in State :
        /\ Len(live.history) + Len(items) <= MaxHistory
        /\ live' = [history |-> live.history \o items, state |-> state]
  BY DEF Edit
<1>3. /\ step = "idle" /\ keep' \in {Len(live.history), Len(live'.history)}
      /\ UNCHANGED <<file, torn, synced, copied, position, saving, snapshot, step, acked, unsure>>
  BY DEF Edit, disk
<1>4. /\ live.history \in Seq(Item) /\ Len(live.history) \in Nat /\ MaxHistory \in Nat
      /\ live.history \in History
  BY <1>1, <1>3, LivePart, HistoryIs, HistoryLength, JournalNumbers
<1>5. items \in Seq(Item) /\ Len(items) \in Nat
  <2>1. ASSUME NEW i \in Item
        PROVE  <<i>> \in Seq(Item)
    <3>1. <<i>> \in [1..1 -> Item]
      OBVIOUS
    <3> QED  BY <3>1, SeqDef
  <2> QED  BY <2>1, LenProperties, EmptySeq
<1>6. /\ live'.history \in Seq(Item) /\ Len(live'.history) = Len(live.history) + Len(items)
      /\ \A i \in 1..Len(live.history) : live'.history[i] = live.history[i]
  BY <1>2, <1>4, <1>5, ConcatProperties
<1>7. live'.history \in History
  <2>1. Len(live'.history) <= MaxHistory
    BY <1>2, <1>6
  <2> QED  BY <1>6, <2>1, HistoryIs
<1>8. live' \in Document /\ live' # NoDocument
  <2>1. live' \in Document
    <3>1. live'.history = live.history \o items
      BY <1>2
    <3> QED  BY <1>2, <1>7, <3>1 DEF Document
  <2> QED  BY <2>1, NoDocumentAssumption
<1>9. /\ Len(live.history) <= Len(live'.history)
      /\ keep' \in 0..MaxHistory /\ Len(live.history) <= keep' /\ keep' <= Len(live'.history)
  <2>1. Len(live'.history) \in 0..MaxHistory /\ Len(live.history) \in 0..MaxHistory
    BY <1>4, <1>7, HistoryLength
  <2> QED  BY <1>3, <1>4, <1>5, <1>6, <2>1
<1>10. TypeOK'
  BY <1>1, <1>3, <1>8, <1>9, JournalTypes, NextJournalTypes
<1>11. Whole(file)' /\ PositionSound' /\ StepSound'
  BY <1>1, <1>3 DEF Whole, PositionSound, StepSound
<1>12. SavingSound' /\ LiveSound'
  BY <1>1, <1>3, <1>8, <1>9 DEF SavingSound, LiveSound, Appending
<1>13. AckedSound'
  <2>1. Base' = Base /\ Stored' = Stored
    BY <1>3 DEF Base, Stored
  <2>2. ~unsure => /\ synced = Base /\ acked = Stored
                   /\ Len(HistoryOf(Stored)) <= keep /\ Begins(HistoryOf(Stored), live.history)
    BY <1>1, <1>3 DEF AckedSound
  <2>3. keep <= Len(live.history) /\ Len(HistoryOf(Stored)) \in Nat /\ keep \in Nat
    BY <1>1, <1>3, StoredIs, JournalNumbers DEF LiveSound
  <2>4. ASSUME ~unsure
        PROVE  Len(HistoryOf(Stored)) <= keep' /\ Begins(HistoryOf(Stored), live'.history)
    <3> DEFINE known == Len(HistoryOf(Stored))
    <3>1. known \in Nat /\ known <= keep /\ Begins(HistoryOf(Stored), live.history)
      BY <2>2, <2>3, <2>4
    <3>2. known <= Len(live.history)
      BY <3>1 DEF Begins
    <3>3. known <= keep' /\ known <= Len(live'.history)
      <4> HIDE DEF known
      <4>1. Len(live'.history) \in Nat /\ keep' \in Nat
        BY <1>4, <1>5, <1>6, <1>9
      <4> QED  BY <1>4, <1>9, <3>1, <3>2, <4>1
    <3>4. \A i \in 1..known : HistoryOf(Stored)[i] = live'.history[i]
      <4>1. \A i \in 1..known : HistoryOf(Stored)[i] = live.history[i]
        BY <3>1 DEF Begins
      <4> HIDE DEF known
      <4>2. Len(live.history) \in Nat /\ known \in Nat
        BY <1>4, <3>1
      <4>3. ASSUME NEW i \in 1..known
            PROVE  i \in 1..Len(live.history)
        BY <3>2, <4>2
      <4>4. ASSUME NEW i \in 1..known
            PROVE  HistoryOf(Stored)[i] = live'.history[i]
        BY <1>6, <4>1, <4>3
      <4> QED  BY <4>4
    <3> QED  BY <3>3, <3>4 DEF Begins
  <2>5. HistoryOf(Stored)' = HistoryOf(Stored)
    BY <2>1 DEF HistoryOf
  <2> QED  BY <1>3, <2>1, <2>2, <2>4, <2>5 DEF AckedSound
<1> QED  BY <1>1, <1>10, <1>11, <1>12, <1>13 DEF JournalInv

\* Failed: the document returns to what it was when the save was prepared, and
\* still begins with what the journal holds.
LEMMA FailedKeeps ==
    ASSUME TypeOK, Whole(file), PositionSound, StepSound, LiveSound, AckedSound, Failed,
           step # "down"
    PROVE  /\ live' \in Document /\ live' # NoDocument /\ keep <= Len(live'.history)
           /\ saving' \in {NoRecord} /\ snapshot' = NoDocument /\ step' = "idle"
           /\ ~unsure => /\ acked = Stored /\ Len(HistoryOf(Stored)) <= keep
                         /\ Begins(HistoryOf(Stored), live'.history)
<1>1. /\ live \in Document /\ live.history \in History /\ live.state \in State
      /\ keep \in Nat /\ keep <= Len(live.history)
  BY LivePart, JournalNumbers DEF LiveSound
<1> DEFINE cut == SubSeq(live.history, 1, keep)
<1>2. /\ cut \in History /\ Len(cut) = keep
      /\ \A i \in 1..keep : cut[i] = live.history[i]
  BY <1>1, CutHistory
<1>3. live' = [live EXCEPT !.history = cut]
  BY DEF Failed
<1> HIDE DEF cut
<1>4. live' \in Document /\ live'.history = cut
  BY <1>1, <1>2, <1>3 DEF Document
<1>5. live' # NoDocument
  BY <1>4, NoDocumentAssumption
<1>6. ~unsure => /\ acked = Stored /\ Len(HistoryOf(Stored)) <= keep
                 /\ Begins(HistoryOf(Stored), live'.history)
  <2>1. Len(HistoryOf(Stored)) \in Nat
    BY StoredIs
  <2> QED  BY <1>1, <1>2, <1>4, <2>1 DEF AckedSound, Begins
<1> QED  BY <1>1, <1>2, <1>4, <1>5, <1>6 DEF Failed

\* Refuse: nothing is written.
LEMMA RefuseKeeps ==
    ASSUME JournalInv, Refuse
    PROVE  JournalInv'
<1>1. /\ TypeOK /\ Whole(file) /\ PositionSound /\ StepSound /\ SavingSound /\ LiveSound
      /\ AckedSound
  BY DEF JournalInv
<1>2. /\ step = "idle" /\ Failed
      /\ UNCHANGED <<file, torn, synced, copied, position, keep, acked, unsure>>
  BY DEF Refuse, disk
<1>3. /\ live' \in Document /\ live' # NoDocument /\ keep <= Len(live'.history)
      /\ saving' \in {NoRecord} /\ snapshot' = NoDocument /\ step' = "idle"
      /\ ~unsure => /\ acked = Stored /\ Len(HistoryOf(Stored)) <= keep
                    /\ Begins(HistoryOf(Stored), live'.history)
  BY <1>1, <1>2, FailedKeeps
<1>4. TypeOK'
  BY <1>1, <1>2, <1>3, JournalTypes, NextJournalTypes
<1>5. Whole(file)' /\ PositionSound' /\ StepSound' /\ SavingSound' /\ LiveSound'
  BY <1>1, <1>2, <1>3 DEF Whole, PositionSound, StepSound, SavingSound, LiveSound, Appending
<1>6. AckedSound'
  <2>1. Base' = Base /\ Stored' = Stored /\ HistoryOf(Stored)' = HistoryOf(Stored)
    BY <1>2, <1>3 DEF Base, Stored, HistoryOf
  <2> QED  BY <1>1, <1>2, <1>3, <2>1 DEF AckedSound
<1> QED  BY <1>4, <1>5, <1>6 DEF JournalInv

\* The record of a save: what the journal lacks.
LEMMA NewRecordIs ==
    ASSUME TypeOK, Whole(file), PositionSound, position # NoPosition, live \in Document,
           position.history <= Len(live.history)
    PROVE  NewRecord \in Record
<1>1. /\ position.history \in Nat /\ position.state \in State \cup {NoState}
      /\ position.history \in 0..MaxHistory
  BY JournalNumbers, JournalTypes DEF Position
<1>2. live.history \in History /\ live.state \in State
  BY DEF Document
<1>3. SubSeq(live.history, position.history + 1, Len(live.history)) \in History
  BY <1>1, <1>2, RestOfHistory
<1>4. StateDelta(position.state, live.state) \in Change
  <2>1. \A s \in State \cup {NoState}, t \in State : StateDelta(s, t) \in Change
    BY DEF Change
  <2> QED  BY <1>1, <1>2, <2>1
<1> QED  BY <1>1, <1>3, <1>4 DEF NewRecord, Record

\* BeginAppend: the record continues what the journal holds.
LEMMA BeginAppendKeeps ==
    ASSUME JournalInv, BeginAppend
    PROVE  JournalInv'
<1>1. /\ TypeOK /\ Whole(file) /\ PositionSound /\ StepSound /\ SavingSound /\ LiveSound
      /\ AckedSound
  BY DEF JournalInv
<1>2. /\ step = "idle" /\ position # NoPosition /\ ~Refused /\ Len(file) < MaxRecords
      /\ saving' = NewRecord /\ snapshot' = live /\ step' = "write"
      /\ UNCHANGED <<file, torn, synced, copied, position, live, keep, acked, unsure>>
  BY DEF BeginAppend, disk
<1>3. live \in Document /\ Len(live.history) \in Nat /\ position.history \in Nat
  BY <1>1, <1>2, LivePart, HistoryLength, JournalNumbers
<1>4. position.history <= Len(live.history) /\ Len(file) = position.sequence /\ ~torn
  BY <1>2, <1>3 DEF Refused
<1>5. saving' \in Record
  BY <1>1, <1>2, <1>3, <1>4, NewRecordIs
<1>6. TypeOK'
  BY <1>1, <1>2, <1>3, <1>5, JournalTypes, NextJournalTypes DEF Step
<1>7. Whole(file)' /\ PositionSound' /\ LiveSound'
  BY <1>1, <1>2, <1>4 DEF Whole, PositionSound, LiveSound, Appending
<1>8. StepSound'
  <2>1. torn' = torn /\ ~torn'
    BY <1>2, <1>4
  <2> QED  BY <1>2, <1>4, <2>1 DEF StepSound, Appending
<1>9. SavingSound'
  <2>1. NewRecord' = NewRecord
    BY <1>2 DEF NewRecord
  <2>2. Len(file) # position.sequence + 1
    BY <1>1, <1>2, <1>4, JournalNumbers
  <2> QED  BY <1>2, <1>4, <2>1, <2>2 DEF SavingSound, Appending
<1>10. AckedSound'
  <2>1. Base' = Base /\ Stored' = Stored /\ HistoryOf(Stored)' = HistoryOf(Stored)
    BY <1>2, <1>4 DEF Base, Stored, HistoryOf, Appending
  <2> QED  BY <1>1, <1>2, <2>1 DEF AckedSound
<1> QED  BY <1>6, <1>7, <1>8, <1>9, <1>10 DEF JournalInv

\* The record on its way completes what the journal holds to a document as long
\* as the live one, which is the live one if the journal's begins it.
LEMMA Completes ==
    ASSUME TypeOK, Whole(file), PositionSound, StepSound, SavingSound, LiveSound,
           step \in Appending
    PROVE  /\ saving \in Record /\ saving.from = Len(HistoryOf(Stored))
           /\ Continued(Stored, saving) \in Document
           /\ Len(Continued(Stored, saving).history) = Len(live.history)
           /\ Continued(Stored, saving).state = live.state
           /\ Begins(HistoryOf(Stored), live.history) => Continued(Stored, saving) = live
           /\ live \in Document /\ snapshot = live
<1>1. /\ position # NoPosition /\ snapshot = live /\ saving = NewRecord
      /\ position.history <= Len(live.history)
      /\ position.history = Len(HistoryOf(Stored)) /\ position.state = StateOf(Stored)
  BY DEF PositionSound, StepSound, SavingSound, Base, Stored
<1>2. step # "down"
  BY DEF Appending
<1>3. live \in Document /\ live.history \in History /\ live.state \in State
  BY <1>2, LivePart
<1>4. saving \in Record
  BY <1>1, <1>3, NewRecordIs
<1>5. Stored \in Document \cup {NoDocument}
  BY StoredIs
<1>6. HistoryOf(Stored) \in History /\ StateOf(Stored) \in State \cup {NoState}
  BY <1>5, DocumentParts
<1>7. /\ saving.from = Len(HistoryOf(Stored))
      /\ saving.items
           = SubSeq(live.history, Len(HistoryOf(Stored)) + 1, Len(live.history))
      /\ saving.state = StateDelta(StateOf(Stored), live.state)
  BY <1>1 DEF NewRecord
<1>8. StateMerge(StateOf(Stored), saving.state) = live.state
  BY <1>3, <1>6, <1>7, RecordRestores
<1>9. /\ HistoryOf(Stored) \o saving.items \in History
      /\ Len(HistoryOf(Stored) \o saving.items) = Len(live.history)
      /\ Begins(HistoryOf(Stored), live.history) =>
             HistoryOf(Stored) \o saving.items = live.history
  BY <1>1, <1>3, <1>6, <1>7, JoinedHistory
<1>10. /\ Continued(Stored, saving).history = HistoryOf(Stored) \o saving.items
       /\ Continued(Stored, saving).state = live.state
       /\ Continued(Stored, saving)
            = [history |-> HistoryOf(Stored) \o saving.items, state |-> live.state]
  BY <1>8 DEF Continued
<1>11. Continued(Stored, saving) \in Document
  BY <1>3, <1>9, <1>10 DEF Document
<1>12. live = [history |-> live.history, state |-> live.state]
  BY <1>3 DEF Document
<1> QED  BY <1>1, <1>3, <1>4, <1>7, <1>9, <1>10, <1>11, <1>12

\* Once the record is in the file, its document is the journal's.
LEMMA Completed ==
    ASSUME TypeOK, Whole(file), PositionSound, StepSound, SavingSound, LiveSound,
           step \in Appending, Len(file) = position.sequence + 1
    PROVE  Replay(file) = Continued(Stored, saving)
<1>1. file[Len(file)] = saving
  BY DEF SavingSound
<1>2. Len(file) \in Nat /\ position.sequence \in Nat
  BY JournalNumbers DEF StepSound
<1>3. Len(file) \in 1..Len(file) /\ Len(file) - 1 = position.sequence
  BY <1>2
<1>4. Documents(file)[Len(file)] = Continued(Documents(file)[Len(file) - 1], file[Len(file)])
  BY <1>2, <1>3, DocumentsAre
<1> QED  BY <1>1, <1>3, <1>4 DEF Replay, Stored, Base

\* Write: the record is in the file and not yet synced.
LEMMA WriteKeeps ==
    ASSUME JournalInv, Write
    PROVE  JournalInv' /\ Stored' = Stored
<1>1. /\ TypeOK /\ Whole(file) /\ PositionSound /\ StepSound /\ SavingSound /\ LiveSound
      /\ AckedSound
  BY DEF JournalInv
<1>2. /\ step = "write" /\ step' = "sync" /\ file' = Append(file, saving)
      /\ UNCHANGED <<torn, synced, copied, position, live, keep, saving, snapshot, acked, unsure>>
  BY DEF Write
<1>3. step \in Appending /\ step' \in Appending
  BY <1>2 DEF Appending
<1>4. /\ position # NoPosition /\ Len(file) = position.sequence /\ Len(file) < MaxRecords
      /\ Len(file) \in Nat /\ MaxRecords \in Nat /\ file \in Seq(Record)
  BY <1>1, <1>2, <1>3, JournalNumbers, JournalTypes DEF StepSound
<1>5. Stored = Replay(file)
  BY <1>3, <1>4 DEF Stored, Base, Replay
<1>6. /\ saving \in Record /\ saving.from = Len(HistoryOf(Replay(file)))
      /\ Continued(Replay(file), saving) \in Document
  BY <1>1, <1>3, <1>5, Completes
<1>7. /\ Whole(file') /\ Len(file') = Len(file) + 1
      /\ \A i \in 0..Len(file) : Documents(file')[i] = Documents(file)[i]
  BY <1>1, <1>2, <1>4, <1>6, AppendWhole
<1>8. file' \in Seq(Record) /\ file'[Len(file')] = saving
  BY <1>2, <1>4, <1>6, <1>7, AppendProperties
<1>9. Documents(file')[position.sequence] = Documents(file)[position.sequence]
  BY <1>4, <1>7
<1>10. TypeOK'
  <2>1. Len(file') <= MaxRecords /\ synced' \in 0..Len(file')
    BY <1>1, <1>2, <1>4, <1>7, JournalNumbers
  <2> QED  BY <1>1, <1>2, <1>8, <2>1, JournalTypes, NextJournalTypes DEF Step
<1>11. Whole(file)'
  BY <1>7 DEF Whole
<1>12. PositionSound'
  <2>1. /\ position.sequence <= Len(file') /\ synced <= position.sequence
        /\ position.history = Len(HistoryOf(Documents(file)[position.sequence]))
        /\ position.state = StateOf(Documents(file)[position.sequence])
    BY <1>1, <1>4, <1>7 DEF PositionSound
  <2> QED  BY <1>2, <1>9, <2>1 DEF PositionSound
<1>13. StepSound' /\ LiveSound'
  BY <1>1, <1>2, <1>3, <1>4, <1>7 DEF StepSound, LiveSound
<1>14. SavingSound'
  <2>1. NewRecord' = NewRecord
    BY <1>2 DEF NewRecord
  <2>2. snapshot = live /\ saving = NewRecord /\ position.history <= Len(live.history)
    BY <1>1, <1>3 DEF SavingSound
  <2> QED  BY <1>2, <1>3, <1>8, <2>1, <2>2 DEF SavingSound
<1>15. Base = position.sequence /\ Base' = position.sequence
  BY <1>2, <1>3 DEF Base
<1>16. Stored' = Stored
  BY <1>9, <1>15 DEF Stored
<1>17. AckedSound'
  <2>1. HistoryOf(Stored)' = HistoryOf(Stored)
    BY <1>16 DEF HistoryOf
  <2> QED  BY <1>1, <1>2, <1>15, <1>16, <2>1 DEF AckedSound
<1> QED  BY <1>10, <1>11, <1>12, <1>13, <1>14, <1>16, <1>17 DEF JournalInv

\* Sync: what the journal now holds is the live document, if it began it.
LEMMA SyncKeeps ==
    ASSUME JournalInv, Sync
    PROVE  JournalInv' /\ (~unsure => Replay(file) = snapshot)
<1>1. /\ TypeOK /\ Whole(file) /\ PositionSound /\ StepSound /\ SavingSound /\ LiveSound
      /\ AckedSound
  BY DEF JournalInv
<1>2. /\ step = "sync" /\ step' = "idle" /\ synced' = Len(file) /\ position' = Advanced
      /\ acked' = snapshot /\ saving' = NoRecord /\ snapshot' = NoDocument
      /\ keep' = Len(live.history) /\ UNCHANGED <<file, torn, copied, live, unsure>>
  BY DEF Sync
<1>3. step \in Appending /\ step' \notin Appending /\ step # "down"
  BY <1>2 DEF Appending
<1>4. /\ position # NoPosition /\ Len(file) = position.sequence + 1 /\ Len(file) \in Nat
      /\ Len(file) <= MaxRecords /\ MaxRecords \in Nat
  BY <1>1, <1>2, <1>3, JournalNumbers, JournalTypes DEF StepSound
<1> DEFINE doc == Continued(Stored, saving)
<1>5. /\ Len(doc.history) = Len(live.history) /\ doc.state = live.state
      /\ Begins(HistoryOf(Stored), live.history) => doc = live
      /\ doc \in Document /\ live \in Document /\ snapshot = live
  BY <1>1, <1>3, Completes
<1>6. Replay(file) = doc
  BY <1>1, <1>3, <1>4, Completed
<1> HIDE DEF doc
<1>7. ~unsure => doc = live
  BY <1>1, <1>3, <1>5 DEF AckedSound
<1>8. live.history \in History /\ live.state \in State /\ Len(live.history) \in 0..MaxHistory
  BY <1>5, HistoryLength DEF Document
<1>9. Advanced = [sequence |-> Len(file), history |-> Len(live.history), state |-> live.state]
  BY <1>4, <1>5 DEF Advanced
<1>10. /\ position' \in Position /\ position'.sequence = Len(file)
       /\ position'.history = Len(live.history) /\ position'.state = live.state
  <2>1. Len(file) \in 0..MaxRecords
    BY <1>4
  <2> QED  BY <1>2, <1>8, <1>9, <2>1 DEF Position
<1>11. HistoryOf(doc) = doc.history /\ StateOf(doc) = doc.state
  BY <1>5, NoDocumentAssumption DEF HistoryOf, StateOf
<1>12. TypeOK'
  <2>1. synced' \in 0..Len(file')
    BY <1>2, <1>4
  <2> QED  BY <1>1, <1>2, <1>5, <1>8, <1>10, <2>1, JournalTypes, NextJournalTypes DEF Step
<1>13. Whole(file)'
  BY <1>1, <1>2 DEF Whole
<1>14. PositionSound'
  <2>1. Documents(file')[position'.sequence] = doc
    BY <1>2, <1>6, <1>10 DEF Replay
  <2> QED  BY <1>2, <1>4, <1>5, <1>10, <1>11, <2>1 DEF PositionSound
<1>15. StepSound' /\ SavingSound'
  BY <1>2, <1>3 DEF StepSound, SavingSound
<1>16. LiveSound'
  BY <1>1, <1>2, <1>4, <1>8, HistoryLength DEF LiveSound
<1>17. AckedSound'
  <2>1. Base' = Len(file)
    BY <1>2, <1>3 DEF Base
  <2>2. Stored' = doc
    BY <1>2, <1>6, <2>1 DEF Stored, Replay
  <2>3. ~unsure => /\ HistoryOf(Stored') = live.history /\ acked' = Stored'
                   /\ Len(HistoryOf(Stored')) <= keep'
    BY <1>2, <1>5, <1>7, <1>8, <1>11, <2>2, HistoryLength
  <2>4. Begins(live.history, live.history)
    BY <1>8, HistoryLength DEF Begins
  <2>5. HistoryOf(Stored)' = HistoryOf(Stored')
    BY DEF HistoryOf
  <2> QED  BY <1>2, <2>1, <2>3, <2>4, <2>5 DEF AckedSound
<1> QED  BY <1>5, <1>6, <1>7, <1>12, <1>13, <1>14, <1>15, <1>16, <1>17 DEF JournalInv

\* WriteFails: whatever part is in the file, the save still knows where it began.
LEMMA WriteFailsKeeps ==
    ASSUME JournalInv, WriteFails
    PROVE  JournalInv'
<1>1. /\ TypeOK /\ Whole(file) /\ PositionSound /\ StepSound /\ SavingSound /\ LiveSound
      /\ AckedSound
  BY DEF JournalInv
<1>2. /\ step \in {"write", "sync"} /\ step' = "rollback" /\ torn' \in BOOLEAN
      /\ UNCHANGED <<file, synced, copied, position, live, keep, saving, snapshot, acked, unsure>>
  BY DEF WriteFails
<1>3. step \in Appending /\ step' \in Appending /\ step # "down"
  BY <1>2 DEF Appending
<1>4. Len(file) <= position.sequence + 1 /\ position # NoPosition
  BY <1>1, <1>2, <1>3, JournalNumbers DEF StepSound
<1>5. TypeOK'
  BY <1>1, <1>2, JournalTypes, NextJournalTypes DEF Step
<1>6. Whole(file)' /\ PositionSound' /\ StepSound' /\ LiveSound'
  BY <1>1, <1>2, <1>3, <1>4 DEF Whole, PositionSound, StepSound, LiveSound
<1>7. SavingSound'
  <2>1. NewRecord' = NewRecord
    BY <1>2 DEF NewRecord
  <2> QED  BY <1>1, <1>2, <1>3, <2>1 DEF SavingSound
<1>8. AckedSound'
  <2>1. Base' = Base /\ Stored' = Stored /\ HistoryOf(Stored)' = HistoryOf(Stored)
    BY <1>2, <1>3 DEF Base, Stored, HistoryOf
  <2> QED  BY <1>1, <1>2, <1>3, <2>1 DEF AckedSound
<1> QED  BY <1>5, <1>6, <1>7, <1>8 DEF JournalInv

\* RollBack: the file returns to the acknowledged records.
LEMMA RollBackKeeps ==
    ASSUME JournalInv, RollBack
    PROVE  /\ JournalInv' /\ Stored' = Stored /\ position.sequence \in Nat
           /\ synced <= position.sequence /\ position.sequence <= Len(file)
<1>1. /\ TypeOK /\ Whole(file) /\ PositionSound /\ StepSound /\ SavingSound /\ LiveSound
      /\ AckedSound
  BY DEF JournalInv
<1>2. /\ step = "rollback" /\ file' = Kept /\ torn' = FALSE /\ synced' = Len(file') /\ Failed
      /\ UNCHANGED <<copied, position, keep, acked, unsure>>
  BY DEF RollBack
<1>3. step \in Appending /\ step # "down"
  BY <1>2 DEF Appending
<1>4. /\ position # NoPosition /\ position.sequence \in Nat /\ position.sequence <= Len(file)
      /\ synced <= position.sequence /\ Len(file) \in Nat /\ Len(file) <= MaxRecords
      /\ position.history = Len(HistoryOf(Documents(file)[position.sequence]))
      /\ position.state = StateOf(Documents(file)[position.sequence])
  BY <1>1, <1>3, JournalNumbers, JournalTypes DEF StepSound, PositionSound
<1>5. /\ Whole(file') /\ Len(file') = position.sequence
      /\ \A i \in 0..position.sequence : Documents(file')[i] = Documents(file)[i]
  BY <1>1, <1>2, <1>4, CutWhole DEF Kept
<1>6. Documents(file')[position.sequence] = Documents(file)[position.sequence]
  BY <1>4, <1>5
<1>7. /\ live' \in Document /\ live' # NoDocument /\ keep <= Len(live'.history)
      /\ saving' \in {NoRecord} /\ snapshot' = NoDocument /\ step' = "idle"
      /\ ~unsure => /\ acked = Stored /\ Len(HistoryOf(Stored)) <= keep
                    /\ Begins(HistoryOf(Stored), live'.history)
  BY <1>1, <1>2, <1>3, FailedKeeps
<1>8. step' \notin Appending
  BY <1>7 DEF Appending
<1>9. TypeOK'
  <2>1. file' \in Seq(Record) /\ Len(file') <= MaxRecords /\ synced' \in 0..Len(file')
    BY <1>2, <1>4, <1>5 DEF Whole
  <2> QED  BY <1>1, <1>2, <1>7, <2>1, JournalTypes, NextJournalTypes DEF Step
<1>10. Whole(file)'
  BY <1>5 DEF Whole
<1>11. PositionSound'
  BY <1>2, <1>4, <1>5, <1>6 DEF PositionSound
<1>12. StepSound' /\ SavingSound' /\ LiveSound'
  BY <1>2, <1>7, <1>8 DEF StepSound, SavingSound, LiveSound
<1>13. Base = position.sequence /\ Base' = position.sequence
  BY <1>3, <1>5, <1>8 DEF Base
<1>14. Stored' = Stored
  BY <1>6, <1>13 DEF Stored
<1>15. AckedSound'
  <2>1. HistoryOf(Stored)' = HistoryOf(Stored)
    BY <1>14 DEF HistoryOf
  <2> QED  BY <1>2, <1>5, <1>7, <1>13, <1>14, <2>1 DEF AckedSound
<1> QED  BY <1>4, <1>9, <1>10, <1>11, <1>12, <1>14, <1>15 DEF JournalInv

\* RollBackFails: the process forgets what it knew of the file.
LEMMA RollBackFailsKeeps ==
    ASSUME JournalInv, RollBackFails
    PROVE  JournalInv'
<1>1. /\ TypeOK /\ Whole(file) /\ PositionSound /\ StepSound /\ SavingSound /\ LiveSound
      /\ AckedSound
  BY DEF JournalInv
<1>2. /\ step = "rollback" /\ position' = NoPosition /\ copied' = FALSE /\ Failed
      /\ unsure' = TRUE /\ UNCHANGED <<file, torn, synced, keep, acked>>
  BY DEF RollBackFails
<1>3. step # "down"
  BY <1>2
<1>4. /\ live' \in Document /\ live' # NoDocument /\ keep <= Len(live'.history)
      /\ saving' \in {NoRecord} /\ snapshot' = NoDocument /\ step' = "idle"
  BY <1>1, <1>2, <1>3, FailedKeeps
<1>5. TypeOK'
  BY <1>1, <1>2, <1>4, JournalTypes, NextJournalTypes DEF Step
<1>6. Whole(file)' /\ PositionSound' /\ StepSound' /\ SavingSound' /\ LiveSound' /\ AckedSound'
  BY <1>1, <1>2, <1>4
     DEF Whole, PositionSound, StepSound, SavingSound, LiveSound, AckedSound, Appending
<1> QED  BY <1>5, <1>6 DEF JournalInv

\* What a crash may leave: the records that were written, with the last one of a
\* save or without it, and never less than what was synced.
LEMMA CrashLeaves ==
    ASSUME JournalInv, Crash
    PROVE  \E n \in Nat :
               /\ synced <= n /\ n <= Len(file)
               /\ n = Len(file) => file' = file
               /\ n < Len(file) =>
                      /\ file' = SubSeq(file, 1, n)
                      /\ n = synced \/ (step = "rollback" /\ n = position.sequence)
<1>1. TypeOK /\ Whole(file) /\ PositionSound /\ StepSound
  BY DEF JournalInv
<1>2. Len(file) \in Nat /\ synced \in Nat /\ synced <= Len(file)
  BY <1>1, JournalNumbers
<1>3. CASE file' = file
  BY <1>2, <1>3
<1>4. CASE file' = SubSeq(file, 1, synced) /\ synced < Len(file)
  BY <1>2, <1>4
<1>5. CASE step = "rollback" /\ file' = SubSeq(file, 1, position.sequence)
  <2>1. /\ position.sequence \in Nat /\ synced <= position.sequence
        /\ position.sequence <= Len(file)
    BY <1>1, <1>5, JournalNumbers DEF StepSound, PositionSound, Appending
  <2>2. position.sequence = Len(file) => file' = file
    <3>1. file \in Seq(Record)
      BY <1>1, JournalTypes
    <3> QED  BY <1>5, <3>1, SubSeqFull
  <2> QED  BY <1>2, <1>5, <2>1, <2>2
<1> QED  BY <1>3, <1>4, <1>5 DEF Crash

\* Crash: what remains is the journal before the save, or with it.
LEMMA CrashKeeps ==
    ASSUME JournalInv, Crash
    PROVE  /\ JournalInv'
           /\ ~unsure => \/ Stored' = Stored
                         \/ step \in Appending /\ Stored' = snapshot
<1>1. /\ TypeOK /\ Whole(file) /\ PositionSound /\ StepSound /\ SavingSound /\ LiveSound
      /\ AckedSound
  BY DEF JournalInv
<1>2. /\ step # "down" /\ torn' \in BOOLEAN /\ synced' = Len(file')
      /\ copied' = (copied /\ torn') /\ position' = NoPosition /\ live' = NoDocument
      /\ keep' = 0 /\ saving' = NoRecord /\ snapshot' = NoDocument /\ step' = "down"
      /\ acked' = acked /\ unsure' = unsure
  BY <1>1, JournalTypes DEF Crash
<1>3. PICK n \in Nat :
        /\ synced <= n /\ n <= Len(file)
        /\ n = Len(file) => file' = file
        /\ n < Len(file) => /\ file' = SubSeq(file, 1, n)
                            /\ n = synced \/ (step = "rollback" /\ n = position.sequence)
  BY CrashLeaves
<1>4. Len(file) \in Nat /\ Len(file) <= MaxRecords /\ MaxHistory \in Nat
  BY <1>1, JournalNumbers, JournalTypes
<1>5. /\ Whole(file') /\ Len(file') = n
      /\ \A i \in 0..n : Documents(file')[i] = Documents(file)[i]
  <2>1. CASE n = Len(file)
    BY <1>1, <1>3, <2>1
  <2>2. CASE n < Len(file)
    <3>1. file' = SubSeq(file, 1, n)
      BY <1>3, <2>2
    <3>2. /\ Whole(SubSeq(file, 1, n)) /\ Len(SubSeq(file, 1, n)) = n
          /\ \A i \in 0..n : Documents(SubSeq(file, 1, n))[i] = Documents(file)[i]
      BY <1>1, <1>3, CutWhole
    <3> QED  BY <3>1, <3>2
  <2> QED  BY <1>3, <1>4, <2>1, <2>2
<1>6. TypeOK'
  <2>1. file' \in Seq(Record) /\ Len(file') <= MaxRecords /\ synced' \in 0..Len(file')
    BY <1>2, <1>5 DEF Whole
  <2>2. copied' \in BOOLEAN
    BY <1>1, <1>2, JournalTypes
  <2>3. keep' \in 0..MaxHistory
    BY <1>2, <1>4
  <2> QED  BY <1>1, <1>2, <2>1, <2>2, <2>3, JournalTypes, NextJournalTypes DEF Step
<1>7. Whole(file)'
  BY <1>5 DEF Whole
<1>8. step' \notin Appending
  BY <1>2 DEF Appending
<1>9. PositionSound' /\ StepSound' /\ SavingSound' /\ LiveSound'
  BY <1>2, <1>8 DEF PositionSound, StepSound, SavingSound, LiveSound
<1>10. Base' = n /\ Stored' = Documents(file)[n]
  BY <1>5, <1>8 DEF Base, Stored
<1>11. AckedSound'
  BY <1>2, <1>5, <1>10 DEF AckedSound
<1>12. ASSUME ~unsure
       PROVE  Stored' = Stored \/ (step \in Appending /\ Stored' = snapshot)
  <2>1. synced = Base
    BY <1>1, <1>12 DEF AckedSound
  <2>2. CASE n = Base
    BY <1>10, <2>2 DEF Stored
  <2>3. CASE n # Base
    <3>1. step \in Appending
      BY <1>3, <1>4, <2>1, <2>3 DEF Base
    <3>2. Base = position.sequence /\ Base \in Nat
      BY <1>1, <3>1, JournalNumbers DEF Base, StepSound
    <3>3. n = Len(file)
      BY <1>3, <1>4, <2>1, <2>3, <3>2
    <3>4. Len(file) = position.sequence + 1
      BY <1>1, <1>4, <2>3, <3>1, <3>2, <3>3, <1>3, <2>1 DEF StepSound, Appending
    <3>5. Stored' = Continued(Stored, saving)
      BY <1>1, <1>10, <3>1, <3>3, <3>4, Completed DEF Replay
    <3>6. Begins(HistoryOf(Stored), live.history)
      BY <1>1, <1>2, <1>12 DEF AckedSound
    <3>7. Continued(Stored, saving) = snapshot
      BY <1>1, <3>1, <3>6, Completes
    <3> QED  BY <3>1, <3>5, <3>7
  <2> QED  BY <2>2, <2>3
<1> QED  BY <1>6, <1>7, <1>9, <1>11, <1>12 DEF JournalInv

\* Open: the document is what the journal replays to.
LEMMA OpenKeeps ==
    ASSUME JournalInv, Open
    PROVE  JournalInv' /\ Stored' = Stored /\ Stored \in Document
<1>1. /\ TypeOK /\ Whole(file) /\ PositionSound /\ StepSound /\ SavingSound /\ LiveSound
      /\ AckedSound
  BY DEF JournalInv
<1>2. /\ step = "down" /\ step' = "idle" /\ file # <<>>
      /\ live' = Replay(file) /\ keep' = Len(live'.history) /\ acked' = Replay(file)
      /\ unsure' = FALSE
      /\ UNCHANGED <<file, torn, synced, copied, position, saving, snapshot>>
  BY DEF Open, disk
<1>3. step \notin Appending /\ step' \notin Appending
  BY <1>2 DEF Appending
<1>4. Base = Len(file) /\ Base' = Len(file) /\ Len(file) \in Nat
  BY <1>1, <1>2, <1>3, JournalNumbers DEF Base
<1>5. Stored = Replay(file) /\ Stored' = Replay(file)
  BY <1>2, <1>4 DEF Stored, Replay
<1>6. Replay(file) \in Document
  <2>1. Len(file) # 0
    BY <1>1, <1>2, JournalTypes, EmptySeq
  <2> QED  BY <1>1, <1>4, <2>1, WholeDocuments DEF Replay
<1>7. /\ live'.history \in History /\ Len(live'.history) \in 0..MaxHistory
      /\ Len(live'.history) \in Nat
  BY <1>2, <1>6, HistoryLength DEF Document
<1>8. TypeOK'
  BY <1>1, <1>2, <1>6, <1>7, JournalTypes, NextJournalTypes DEF Step
<1>9. position = NoPosition /\ synced = Len(file) /\ snapshot = NoDocument
  BY <1>1, <1>2, <1>3 DEF StepSound, SavingSound
<1>10. Whole(file)' /\ PositionSound' /\ StepSound' /\ SavingSound'
  BY <1>1, <1>2, <1>3, <1>9 DEF Whole, PositionSound, StepSound, SavingSound
<1>11. LiveSound'
  BY <1>2, <1>6, <1>7, NoDocumentAssumption DEF LiveSound
<1>12. AckedSound'
  <2>1. HistoryOf(Stored)' = live'.history
    BY <1>2, <1>5, <1>6, NoDocumentAssumption DEF HistoryOf
  <2>2. Begins(live'.history, live'.history)
    BY <1>7 DEF Begins
  <2> QED  BY <1>2, <1>4, <1>5, <1>7, <1>9, <2>1, <2>2 DEF AckedSound
<1> QED  BY <1>5, <1>6, <1>8, <1>10, <1>11, <1>12 DEF JournalInv

\* Every step keeps the invariant.
LEMMA JournalKeeps == JournalInv /\ Next => JournalInv'
BY EditKeeps, RepairKeeps, RefuseKeeps, BeginAppendKeeps, WriteKeeps, SyncKeeps,
   WriteFailsKeeps, RollBackKeeps, RollBackFailsKeeps, CrashKeeps, OpenKeeps DEF Next

\* An empty journal satisfies it.
LEMMA JournalBegins == Init => JournalInv
<1> SUFFICES ASSUME Init
             PROVE  JournalInv
  OBVIOUS
<1>1. /\ file = <<>> /\ torn = FALSE /\ synced = 0 /\ copied = FALSE /\ position = NoPosition
      /\ keep = 0 /\ saving = NoRecord /\ snapshot = NoDocument
      /\ step = "idle" /\ acked = NoDocument /\ unsure = FALSE
  BY DEF Init
<1>2. PICK state \in State : live = [history |-> <<>>, state |-> state]
  BY DEF Init
<1>3. /\ file \in Seq(Record) /\ Len(file) = 0 /\ <<>> \in Seq(Item)
      /\ MaxHistory \in Nat /\ MaxRecords \in Nat
  BY <1>1, EmptySeq, BoundsAssumption
<1>4. <<>> \in History /\ HistoryOf(NoDocument) = <<>> /\ Len(<<>>) = 0
  <2>1. <<>> \in Seq(Item) /\ Len(<<>>) <= MaxHistory
    BY <1>3, EmptySeq
  <2>2. <<>> \in History <=> <<>> \in Seq(Item) /\ Len(<<>>) <= MaxHistory
    BY HistoryIs
  <2> QED  BY <2>1, <2>2, EmptySeq DEF HistoryOf
<1>5. live \in Document /\ live # NoDocument /\ live.history = <<>>
  <2>1. live \in Document /\ live.history = <<>>
    BY <1>2, <1>4 DEF Document
  <2> QED  BY <2>1, NoDocumentAssumption
<1>6. TypeOK
  <2>1. 0 \in 0..Len(file) /\ 0 \in 0..MaxHistory /\ Len(file) <= MaxRecords
    BY <1>3
  <2>2. "idle" \in Step
    BY DEF Step
  <2> QED  BY <1>1, <1>3, <1>5, <2>1, <2>2, JournalTypes
<1>7. Whole(file) /\ PositionSound /\ StepSound /\ SavingSound /\ LiveSound
  BY <1>1, <1>3, <1>4, <1>5
     DEF Whole, PositionSound, StepSound, SavingSound, LiveSound, Appending
<1>8. AckedSound
  <2>1. Base = 0
    BY <1>1, <1>3 DEF Base, Appending
  <2>2. Stored = NoDocument
    BY <1>3, <2>1, DocumentsAre DEF Stored
  <2>3. Begins(<<>>, <<>>)
    BY <1>4 DEF Begins
  <2> QED  BY <1>1, <1>3, <1>4, <1>5, <2>1, <2>2, <2>3 DEF AckedSound
<1> QED  BY <1>6, <1>7, <1>8 DEF JournalInv

\* So does a step that changes nothing.
LEMMA JournalStutters == JournalInv /\ UNCHANGED vars => JournalInv'
BY DEF JournalInv, vars, TypeOK, Whole, PositionSound, StepSound, SavingSound, LiveSound,
       AckedSound, Base, Stored, NewRecord, HistoryOf, Begins

\* The journal is always whole, a process knows where it ends, and what is
\* acknowledged is synced, replays, and begins the document in memory, unless a
\* rollback failed (sessions/journal.rs).
THEOREM JournalSound == Spec => []JournalInv
<1>1. JournalInv /\ [Next]_vars => JournalInv'
  BY JournalKeeps, JournalStutters
<1> QED  BY JournalBegins, <1>1, PTL DEF Spec

-----------------------------------------------------------------------------
(* NothingIsCut.                                                           *)

\* Cutting twice is cutting to the shorter length.
LEMMA CutTwice ==
    ASSUME NEW S, NEW s \in Seq(S), NEW m \in Nat, NEW n \in Nat, n <= m, m <= Len(s)
    PROVE  Len(SubSeq(s, 1, m)) = m /\ SubSeq(SubSeq(s, 1, m), 1, n) = SubSeq(s, 1, n)
<1>1. /\ SubSeq(s, 1, m) \in Seq(S) /\ Len(SubSeq(s, 1, m)) = m
      /\ \A i \in 1..m : SubSeq(s, 1, m)[i] = s[i]
  BY SubSeqProperties, LenProperties
<1>2. /\ SubSeq(s, 1, n) \in Seq(S) /\ Len(SubSeq(s, 1, n)) = n
      /\ \A i \in 1..n : SubSeq(s, 1, n)[i] = s[i]
  BY SubSeqProperties, LenProperties
<1> DEFINE t == SubSeq(s, 1, m)
<1>3. t \in Seq(S) /\ Len(t) = m /\ \A i \in 1..m : t[i] = s[i]
  BY <1>1
<1> HIDE DEF t
<1>4. /\ SubSeq(t, 1, n) \in Seq(S) /\ Len(SubSeq(t, 1, n)) = n
      /\ \A i \in 1..n : SubSeq(t, 1, n)[i] = t[i]
  BY <1>3, SubSeqProperties, LenProperties
<1>5. SubSeq(t, 1, n) = SubSeq(s, 1, n)
  BY <1>2, <1>3, <1>4, SeqEqual
<1> QED  BY <1>1, <1>5 DEF t

\* What a step does to the records.
LEMMA FileMoves ==
    ASSUME JournalInv, Next
    PROVE  \/ file' = file
           \/ Write
           \/ \E n \in Nat : synced <= n /\ n <= Len(file) /\ file' = SubSeq(file, 1, n)
<1>1. CASE RollBack
  BY <1>1, RollBackKeeps DEF RollBack, Kept
<1>2. CASE Crash
  <2>1. PICK n \in Nat :
          /\ synced <= n /\ n <= Len(file)
          /\ n = Len(file) => file' = file
          /\ n < Len(file) => file' = SubSeq(file, 1, n)
    BY <1>2, CrashLeaves
  <2>2. Len(file) \in Nat
    BY JournalNumbers DEF JournalInv
  <2> QED  BY <2>1, <2>2
<1>3. CASE Edit \/ Copy \/ Cut \/ RepairFails \/ ReadEnd \/ Refuse \/ BeginAppend \/ Sync
           \/ WriteFails \/ RollBackFails \/ Open
  BY <1>3 DEF Edit, Copy, Cut, RepairFails, ReadEnd, Refuse, BeginAppend, Sync, WriteFails,
              RollBackFails, Open, disk
<1> QED  BY <1>1, <1>2, <1>3 DEF Next

\* No step touches the synced records.
LEMMA SyncedKept ==
    ASSUME JournalInv, Next
    PROVE  Len(file') >= synced /\ SubSeq(file', 1, synced) = SubSeq(file, 1, synced)
<1>1. /\ file \in Seq(Record) /\ Len(file) \in Nat /\ synced \in Nat /\ synced <= Len(file)
  BY JournalNumbers, JournalTypes DEF JournalInv
<1>2. CASE file' = file
  BY <1>1, <1>2
<1>3. CASE Write
  <2>1. step \in Appending /\ file' = Append(file, saving)
    BY <1>3 DEF Write, Appending
  <2>2. saving \in Record
    BY <2>1, Completes DEF JournalInv
  <2>3. /\ file' \in Seq(Record) /\ Len(file') = Len(file) + 1
        /\ \A i \in 1..Len(file) : file'[i] = file[i]
    BY <1>1, <2>1, <2>2, AppendProperties
  <2>4. /\ SubSeq(file', 1, synced) \in Seq(Record) /\ Len(SubSeq(file', 1, synced)) = synced
        /\ \A i \in 1..synced : SubSeq(file', 1, synced)[i] = file'[i]
    BY <1>1, <2>3, SubSeqProperties
  <2>5. /\ SubSeq(file, 1, synced) \in Seq(Record) /\ Len(SubSeq(file, 1, synced)) = synced
        /\ \A i \in 1..synced : SubSeq(file, 1, synced)[i] = file[i]
    BY <1>1, SubSeqProperties
  <2>6. \A i \in 1..synced : SubSeq(file', 1, synced)[i] = SubSeq(file, 1, synced)[i]
    BY <1>1, <2>3, <2>4, <2>5
  <2>7. SubSeq(file', 1, synced) = SubSeq(file, 1, synced)
    BY <2>4, <2>5, <2>6, SeqEqual
  <2> QED  BY <1>1, <2>3, <2>7
<1>4. ASSUME NEW n \in Nat, synced <= n, n <= Len(file), file' = SubSeq(file, 1, n)
      PROVE  Len(file') >= synced /\ SubSeq(file', 1, synced) = SubSeq(file, 1, synced)
  <2>1. /\ Len(SubSeq(file, 1, n)) = n
        /\ SubSeq(SubSeq(file, 1, n), 1, synced) = SubSeq(file, 1, synced)
    BY <1>1, <1>4, CutTwice
  <2> QED  BY <1>1, <1>4, <2>1
<1> QED  BY <1>2, <1>3, <1>4, FileMoves

\* A torn record that is there before a step and not after was copied.
LEMMA TailKept ==
    ASSUME JournalInv, Next, torn, ~torn', step # "rollback", step' # "down"
    PROVE  copied
<1>1. Cut
  <2>1. torn' # torn
    OBVIOUS
  <2>2. Edit \/ Copy \/ RepairFails \/ ReadEnd \/ Refuse \/ BeginAppend \/ Write \/ Sync
            \/ RollBackFails \/ Open => torn' = torn
    BY DEF Edit, Copy, RepairFails, ReadEnd, Refuse, BeginAppend, Write, Sync, RollBackFails,
           Open, disk
  <2>3. WriteFails => step \in {"write", "sync"}
    BY DEF WriteFails
  <2>4. WriteFails => ~torn
    BY <2>3 DEF JournalInv, StepSound
  <2>5. (RollBack => step = "rollback") /\ (Crash => step' = "down")
    BY DEF RollBack, Crash
  <2> QED  BY <2>1, <2>2, <2>4, <2>5 DEF Next
<1> QED  BY <1>1 DEF Cut, JournalInv, StepSound

\* NothingIsCut: no save, repair or rollback removes or rewrites a synced record,
\* and a torn one is cut off by who failed to write it or once it was copied
\* (append, repair and roll back of sessions/journal.rs).
THEOREM SyncedAndTornStay == Spec => NothingIsCut
<1>1. JournalInv /\ [Next]_vars =>
        [Len(file') >= synced /\ SubSeq(file', 1, synced) = SubSeq(file, 1, synced)]_vars
  BY SyncedKept
<1>2. JournalInv /\ [Next]_vars =>
        [torn /\ ~torn' /\ step # "rollback" /\ step' # "down" => copied]_vars
  BY TailKept
<1> QED  BY <1>1, <1>2, JournalSound, PTL DEF Spec, NothingIsCut, SyncedStay, TailPreserved

-----------------------------------------------------------------------------
(* The journal implements SessionLog.                                      *)

\* What SessionLog calls saved.
LogSaved ==
    IF unsure THEN NoDocument
    ELSE IF step \in {"write", "sync", "rollback"} THEN acked ELSE Replay(file)

\* It is the document of the records that count.
LEMMA LogSavedIs ==
    ASSUME JournalInv
    PROVE  LogSaved = IF unsure THEN NoDocument ELSE Stored
BY DEF JournalInv, AckedSound, LogSaved, Stored, Base, Replay, Appending

\* The same of the next state.
LEMMA NextLogSavedIs ==
    ASSUME JournalInv'
    PROVE  LogSaved' = IF unsure' THEN NoDocument ELSE Stored'
BY DEF JournalInv, AckedSound, LogSaved, Stored, Base, Replay, Appending

\* What leaves the four variables of SessionLog alone.
LEMMA LogStutters ==
    ASSUME LogSaved' = LogSaved, snapshot' = snapshot, (step # "down") = (step' # "down"),
           unsure' = unsure
    PROVE  UNCHANGED Log!vars
BY DEF Log!vars, LogSaved

\* Edits, repairs, refusals and writes that are not finished are no steps of it.
LEMMA QuietSteps ==
    ASSUME JournalInv, JournalInv',
           Edit \/ Copy \/ Cut \/ RepairFails \/ ReadEnd \/ Refuse \/ Write \/ WriteFails
    PROVE  UNCHANGED Log!vars
<1>1. step # "down" /\ step' # "down" /\ unsure' = unsure
  BY DEF Edit, Copy, Cut, RepairFails, ReadEnd, Refuse, Failed, Write, WriteFails
<1>2. snapshot' = snapshot
  <2>1. CASE Refuse
    BY <2>1 DEF Refuse, Failed, JournalInv, SavingSound, Appending
  <2>2. CASE ~Refuse
    BY <2>2 DEF Edit, Copy, Cut, RepairFails, ReadEnd, Write, WriteFails
  <2> QED  BY <2>1, <2>2
<1>3. Stored' = Stored
  <2>1. CASE Write
    BY <2>1, WriteKeeps
  <2>2. CASE WriteFails
    BY <2>2 DEF WriteFails, Stored, Base, Appending
  <2>3. CASE Edit \/ Copy \/ Cut \/ RepairFails \/ ReadEnd \/ Refuse
    <3>1. file' = file /\ step \notin Appending /\ step' \notin Appending
      BY <2>3 DEF Edit, Copy, Cut, RepairFails, ReadEnd, Refuse, Failed, disk, Appending
    <3> QED  BY <3>1 DEF Stored, Base
  <2> QED  BY <2>1, <2>2, <2>3
<1>4. LogSaved' = LogSaved
  BY <1>1, <1>3, LogSavedIs, NextLogSavedIs
<1> QED  BY <1>1, <1>2, <1>4, LogStutters

\* A save begins as the record is prepared.
LEMMA BeginIsBegin ==
    ASSUME JournalInv, JournalInv', BeginAppend
    PROVE  Log!Begin
<1>1. /\ step = "idle" /\ step' = "write" /\ unsure' = unsure /\ snapshot' = live
      /\ position # NoPosition /\ ~Refused /\ file' = file /\ position' = position
  BY DEF BeginAppend, disk
<1>2. live \in Document
  BY <1>1, LivePart DEF JournalInv
<1>3. snapshot = NoDocument
  BY <1>1 DEF JournalInv, SavingSound, Appending
<1>4. Stored' = Stored
  <2>1. position'.sequence = Len(file)
    BY <1>1 DEF Refused
  <2> QED  BY <1>1, <2>1 DEF Stored, Base, Appending
<1>5. LogSaved' = LogSaved
  BY <1>1, <1>4, LogSavedIs, NextLogSavedIs
<1>6. step # "down" /\ step' # "down"
  BY <1>1
<1> QED  BY <1>1, <1>2, <1>3, <1>5, <1>6 DEF Log!Begin, LogSaved

\* It is acknowledged as the record is synced.
LEMMA SyncIsAcknowledge ==
    ASSUME JournalInv, JournalInv', Sync
    PROVE  Log!Acknowledge
<1>1. /\ step = "sync" /\ step' = "idle" /\ unsure' = unsure /\ snapshot' = NoDocument
      /\ file' = file
  BY DEF Sync
<1>2. snapshot = live /\ live \in Document /\ snapshot # NoDocument
  <2>1. step \in Appending
    BY <1>1 DEF Appending
  <2> QED  BY <2>1, Completes, NoDocumentAssumption DEF JournalInv
<1>3. LogSaved' = IF ~unsure THEN snapshot ELSE NoDocument
  <2>1. ~unsure => Replay(file) = snapshot
    BY SyncKeeps
  <2> QED  BY <1>1, <2>1 DEF LogSaved
<1> QED  BY <1>1, <1>2, <1>3 DEF Log!Acknowledge, LogSaved

\* It is refused once it is undone.
LEMMA RollBackIsRefuse ==
    ASSUME JournalInv, JournalInv', RollBack
    PROVE  Log!Refuse
<1>1. /\ step = "rollback" /\ step' = "idle" /\ unsure' = unsure /\ snapshot' = NoDocument
  BY DEF RollBack, Failed
<1>2. snapshot # NoDocument
  <2>1. step \in Appending
    BY <1>1 DEF Appending
  <2> QED  BY <2>1, Completes, NoDocumentAssumption DEF JournalInv
<1>3. LogSaved' = LogSaved
  BY <1>1, RollBackKeeps, LogSavedIs, NextLogSavedIs
<1> QED  BY <1>1, <1>2, <1>3 DEF Log!Refuse, LogSaved

\* It is lost when it cannot be undone.
LEMMA RollBackFailsIsLose ==
    ASSUME JournalInv, RollBackFails
    PROVE  Log!Lose
<1>1. /\ step = "rollback" /\ step' = "idle" /\ unsure' = TRUE /\ snapshot' = NoDocument
  BY DEF RollBackFails, Failed
<1>2. snapshot # NoDocument
  <2>1. step \in Appending
    BY <1>1 DEF Appending
  <2> QED  BY <2>1, Completes, NoDocumentAssumption DEF JournalInv
<1> QED  BY <1>1, <1>2 DEF Log!Lose

\* A crash leaves the saved document, or the one that was being saved.
LEMMA CrashIsCrash ==
    ASSUME JournalInv, JournalInv', Crash
    PROVE  Log!Crash
<1>1. /\ step # "down" /\ step' = "down" /\ unsure' = unsure /\ snapshot' = NoDocument
  BY DEF Crash
<1>2. LogSaved = IF unsure THEN NoDocument ELSE Stored
  BY LogSavedIs
<1>3. LogSaved' = IF unsure THEN NoDocument ELSE Stored'
  BY <1>1, NextLogSavedIs
<1>4. LogSaved' \in {LogSaved} \cup (IF ~unsure /\ snapshot # NoDocument THEN {snapshot} ELSE {})
  <2>1. CASE unsure
    BY <1>2, <1>3, <2>1
  <2>2. CASE ~unsure /\ Stored' = Stored
    BY <1>2, <1>3, <2>2
  <2>3. CASE ~unsure /\ step \in Appending /\ Stored' = snapshot
    <3>1. snapshot # NoDocument
      BY <2>3, Completes, NoDocumentAssumption DEF JournalInv
    <3> QED  BY <1>3, <2>3, <3>1
  <2> QED  BY <2>1, <2>2, <2>3, CrashKeeps
<1> QED  BY <1>1, <1>4 DEF Log!Crash, LogSaved

\* Opening finds the saved document.
LEMMA OpenIsOpen ==
    ASSUME JournalInv, JournalInv', Open
    PROVE  Log!Open
<1>1. step = "down" /\ step' = "idle" /\ unsure' = FALSE /\ snapshot' = snapshot
  BY DEF Open
<1>2. Stored' = Stored /\ Stored \in Document
  BY OpenKeeps
<1>3. Stored # NoDocument
  BY <1>2, NoDocumentAssumption
<1>4. LogSaved' = Stored /\ (~unsure => LogSaved = Stored)
  BY <1>1, <1>2, LogSavedIs, NextLogSavedIs
<1>5. IF ~unsure THEN LogSaved # NoDocument /\ LogSaved' = LogSaved ELSE LogSaved' \in Document
  BY <1>2, <1>3, <1>4
<1> QED  BY <1>1, <1>5 DEF Log!Open, LogSaved

\* Every step of the journal is one of SessionLog, or none.
LEMMA JournalSteps ==
    ASSUME JournalInv, JournalInv', [Next]_vars
    PROVE  [Log!Next]_(Log!vars)
<1>1. CASE UNCHANGED vars
  BY <1>1 DEF vars, Log!vars, Replay
<1>2. CASE Next
  BY <1>2, QuietSteps, BeginIsBegin, SyncIsAcknowledge, RollBackIsRefuse, RollBackFailsIsLose,
     CrashIsCrash, OpenIsOpen DEF Next, Log!Next
<1> QED  BY <1>1, <1>2

\* Nothing is saved at first.
LEMMA LogBegins == Init => Log!Init
<1> SUFFICES ASSUME Init
             PROVE  Log!Init
  OBVIOUS
<1>1. file = <<>> /\ step = "idle" /\ unsure = FALSE /\ snapshot = NoDocument
  BY DEF Init
<1>2. Replay(file) = NoDocument
  <2>1. Len(file) = 0 /\ Len(file) \in Nat
    BY <1>1, EmptySeq
  <2> QED  BY <2>1, DocumentsAre DEF Replay
<1> QED  BY <1>1, <1>2 DEF Log!Init

\* Stores: the journal implements SessionLog.  A document whose save was
\* acknowledged is what the next reader finds, one whose save was refused is
\* not, and a crash leaves one or the other, until a rollback fails.
THEOREM JournalStores == Spec => Stores
<1>1. JournalInv /\ JournalInv' /\ [Next]_vars => [Log!Next]_(Log!vars)
  BY JournalSteps
<1> QED  BY <1>1, LogBegins, JournalSound, PTL DEF Spec, Stores, Log!Spec

\* Every variable of the journal holds what its comment says, and a save that
\* is under way never writes a record beyond the bounds.
THEOREM JournalIsTyped == Spec => []TypeOK
<1>1. JournalInv => TypeOK
  BY DEF JournalInv
<1> QED  BY <1>1, JournalSound, PTL

\* An acknowledged save replays to the document that was saved, unless a
\* rollback of this process failed before: what SavedIsReplayed says without the
\* exception, and what fails without it.
SavedReplaysIfSure ==
    [][step = "sync" /\ step' = "idle" /\ ~unsure => Replay(file') = snapshot]_vars

\* SavedReplaysIfSure: a session whose rollbacks succeed never acknowledges a
\* document that mixes in a save that was refused.
THEOREM AcknowledgedReplays == Spec => SavedReplaysIfSure
<1>1. ASSUME JournalInv, Next, step = "sync", step' = "idle", ~unsure
      PROVE  Replay(file') = snapshot
  <2>1. CASE Sync
    <3>1. Replay(file) = snapshot
      BY <1>1, <2>1, SyncKeeps
    <3>2. file' = file
      BY <2>1 DEF Sync
    <3> QED  BY <3>1, <3>2
  <2>2. CASE Crash
    BY <1>1, <2>2 DEF Crash
  <2>3. CASE Open
    BY <1>1, <2>3 DEF Open
  <2>4. CASE WriteFails
    BY <1>1, <2>4 DEF WriteFails
  <2>5. CASE Edit \/ Copy \/ ReadEnd \/ Refuse \/ BeginAppend
    BY <1>1, <2>5 DEF Edit, Copy, ReadEnd, Refuse, BeginAppend
  <2>6. CASE Cut \/ RepairFails \/ Write \/ RollBack \/ RollBackFails
    BY <1>1, <2>6 DEF Cut, RepairFails, Write, RollBack, RollBackFails
  <2> QED  BY <1>1, <2>1, <2>2, <2>3, <2>4, <2>5, <2>6 DEF Next
<1>2. JournalInv /\ [Next]_vars
      => [step = "sync" /\ step' = "idle" /\ ~unsure => Replay(file') = snapshot]_vars
  BY <1>1
<1> QED  BY <1>2, JournalSound, PTL DEF Spec, SavedReplaysIfSure

-----------------------------------------------------------------------------
(* Accounts: who holds the lock, and where each token is.                  *)

\* Where a caller holds the lock file.
Locked == {"sending", "answered", "refused", "ready", "removing", "deselecting"}

OneHolder == \A c \in Caller : user[c].at \in Locked => holder = c

\* What the holder knows of the file.
KnowsFile(u, found) ==
    /\ u.at \in {"sending", "refused", "removing"} => u.record.refresh = found.refresh
    /\ u.at \in {"sending", "refused"} => found.refresh # 0
    /\ u.at = "ready" => u.record.access = found.access
AsStored == \A c \in Caller : KnowsFile(user[c], saved)

MemoryAgrees == \A s \in Session : cache[s].unchanged => cache[s].token = saved.access

\* Tokens are numbers of answers that were given.
Counted ==
    /\ server.accepts \subseteq 1..server.answers
    /\ saved.refresh <= server.answers
    /\ \A c \in Caller : user[c].record.refresh <= server.answers

\* A caller with an answer, or with a token it took out of the file.
Received == {"answered", "entering"}
Removed == {"deselecting", "revoking"}

Issued == \A c \in Caller : user[c].at \in Received => user[c].record.refresh \in server.accepts

\* A token outside the file is nobody else's.
OutOfFile(u, found) ==
    /\ u.at = "entering" => u.record.refresh # found.refresh
    /\ u.at \in Removed => u.record.refresh = 0 \/ u.record.refresh # found.refresh
Distinct(u, w) ==
    u.at \in {"entering"} \cup Removed /\ w.at \in Received => u.record.refresh # w.record.refresh
Apart ==
    /\ \A c \in Caller : OutOfFile(user[c], saved)
    /\ \A c, d \in Caller : c # d => Distinct(user[c], user[d])

\* Unless its replacement is on the way, the server accepts the token on file,
\* or an answer was lost.
Spendable ==
    \/ saved.refresh \in server.accepts \cup lost \cup {0}
    \/ \E c \in Caller : user[c].at = "answered"

IInv ==
    /\ CredentialTypeOK
    /\ OneHolder /\ AsStored /\ MemoryAgrees
    /\ Counted /\ Issued /\ Apart /\ Spendable
    /\ RefusedOnlyIfLost

-----------------------------------------------------------------------------
LEMMA RecordsTyped ==
    /\ SignedOut \in AccountRecord /\ NothingCached \in Cached /\ AtRest \in User
    /\ SignedOut.refresh = 0 /\ SignedOut.access = 0
    /\ AtRest.at = "idle" /\ AtRest.record = SignedOut
BY CredentialsAssumption DEF SignedOut, AccountRecord, NothingCached, Cached, AtRest, User, Token

\* What the callers make of a record.
Unpaired(r) == [SignedOut EXCEPT !.access = r.access]
Cleared(r) == [SignedOut EXCEPT !.scoped = r.scoped]

LEMMA PartsTyped ==
    ASSUME NEW r \in AccountRecord
    PROVE  /\ ForUse(r) \in AccountRecord /\ ForUse(r).access = r.access /\ ForUse(r).refresh = 0
           /\ ForServer(r) \in AccountRecord /\ ForServer(r).refresh = r.refresh
           /\ Cleared(r) \in AccountRecord /\ Cleared(r).refresh = 0
           /\ Unpaired(r) \in AccountRecord /\ Unpaired(r).refresh = 0
           /\ Unpaired(r).access = r.access
<1>1. /\ ForUse(r) \in AccountRecord /\ ForUse(r).access = r.access /\ ForUse(r).refresh = 0
  BY CredentialsAssumption DEF ForUse, AccountRecord, Token
<1>2. ForServer(r) \in AccountRecord /\ ForServer(r).refresh = r.refresh
  BY RecordsTyped DEF ForServer, AccountRecord
<1>3. Cleared(r) \in AccountRecord /\ Cleared(r).refresh = 0
  BY RecordsTyped DEF Cleared, AccountRecord
<1>4. /\ Unpaired(r) \in AccountRecord /\ Unpaired(r).refresh = 0
      /\ Unpaired(r).access = r.access
  BY RecordsTyped DEF Unpaired, AccountRecord
<1> QED  BY <1>1, <1>2, <1>3, <1>4

LEMMA InitHolds == CredentialInit => IInv
<1> SUFFICES ASSUME CredentialInit PROVE IInv  OBVIOUS
<1>1. CredentialTypeOK
  BY RecordsTyped, CredentialsAssumption DEF CredentialInit, CredentialTypeOK, AccountRecord, Token
<1>2. /\ \A c \in Caller : user[c] = AtRest
      /\ \A s \in Session : ~cache[s].unchanged
      /\ saved.refresh = 1 /\ server.accepts = {1} /\ server.answers = 1
  BY DEF CredentialInit, NothingCached
<1>3. \A c \in Caller : user[c].at = "idle" /\ user[c].record.refresh = 0
  BY <1>2, RecordsTyped
<1> QED
  BY <1>1, <1>2, <1>3 DEF IInv, OneHolder, AsStored, KnowsFile, MemoryAgrees,
     Counted, Issued, Apart,
     OutOfFile, Distinct, Spendable, RefusedOnlyIfLost, Locked, Received, Removed

-----------------------------------------------------------------------------
(* Steps that change neither the file nor what the server accepts. *)

\* A caller moves on: its new state must agree with what the file and the
\* server say, and the lock must stay with whoever else holds it.
LEMMA CallerMoves ==
    ASSUME IInv, NEW c \in Caller, NEW new \in User,
           user' = [user EXCEPT ![c] = new],
           saved' = saved, server' = server,
           lost' \in SUBSET Token, lost \subseteq lost',
           active' \in BOOLEAN,
           cache' \in [Session -> Cached], MemoryAgrees',
           holder' \in Caller \cup {NoCaller},
           \A d \in Caller \ {c} : holder = d => holder' = d,
           new.at \in Locked => holder' = c,
           new.at \notin Received, KnowsFile(new, saved), OutOfFile(new, saved),
           new.record.refresh <= server.answers,
           new.at \in Removed =>
               \A d \in Caller \ {c} :
                   user[d].at \in Received => new.record.refresh # user[d].record.refresh,
           user[c].at = "answered" => saved.refresh \in server.accepts \cup lost' \cup {0},
           new.at = "refused" => new.record.refresh \in lost'
    PROVE  IInv'
<1>1. /\ user'[c] = new
      /\ \A d \in Caller \ {c} : user'[d] = user[d]
  BY DEF IInv, CredentialTypeOK
<1>2. CredentialTypeOK'
  BY DEF IInv, CredentialTypeOK
<1>3. OneHolder' /\ RefusedOnlyIfLost'
  BY <1>1 DEF IInv, OneHolder, RefusedOnlyIfLost
<1>4. AsStored' /\ Counted' /\ Issued'
  BY <1>1 DEF IInv, AsStored, KnowsFile, Counted, Issued
<1>5. Apart'
  <2>1. \A d \in Caller : OutOfFile(user[d], saved)'
    BY <1>1 DEF IInv, Apart, OutOfFile
  <2>2. ASSUME NEW d \in Caller, NEW e \in Caller, d # e PROVE Distinct(user[d], user[e])'
    <3>1. CASE d = c
      <4>1. user[e]' = user[e] /\ user[c]' = new  BY <1>1, <2>2, <3>1
      <4> QED  BY <2>2, <3>1, <4>1 DEF Distinct, Received
    <3>2. CASE d # c
      <4>1. user[d]' = user[d] /\ (e # c => user[e]' = user[e]) /\ (e = c => user[e]' = new)
        BY <1>1, <2>2, <3>2
      <4> QED  BY <2>2, <4>1 DEF Distinct, IInv, Apart
    <3> QED  BY <3>1, <3>2
  <2> QED  BY <2>1, <2>2 DEF Apart
<1>6. Spendable'
  BY <1>1 DEF IInv, Spendable
<1> QED  BY <1>2, <1>3, <1>4, <1>5, <1>6 DEF IInv

\* What CallerMoves asks of the record a caller leaves with.
LEMMA NewUserTyped ==
    ASSUME NEW place \in {"idle", "missed", "locking", "sending", "answered", "refused", "ready",
                          "given", "leaving", "removing", "deselecting", "revoking", "entering"},
           NEW r \in AccountRecord
    PROVE  [at |-> place, record |-> r] \in User
BY DEF User

\* A caller's own record, and the numbers in it.
LEMMA UserTyped ==
    ASSUME IInv, NEW c \in Caller
    PROVE  /\ user[c] \in User /\ user[c].record \in AccountRecord
           /\ user[c].record.refresh \in Token /\ user[c].record.access \in Token
           /\ saved \in AccountRecord /\ saved.refresh \in Token /\ saved.access \in Token
           /\ server.answers \in Token /\ server.accepts \subseteq Token
           /\ Token \subseteq Nat /\ 0 \in Token
           /\ saved.refresh <= server.answers /\ user[c].record.refresh <= server.answers
BY CredentialsAssumption DEF IInv, CredentialTypeOK, User, AccountRecord, Token, Counted

\* Steps to a place where a caller has nothing to do with the file.
LEMMA QuietMoves ==
    ASSUME IInv, NEW c \in Caller, NEW place \in {"idle", "missed", "locking", "given", "leaving"},
           NEW r \in AccountRecord, r.refresh <= server.answers,
           Keeps(c, place, r), active' \in BOOLEAN,
           UNCHANGED <<saved, server>>, cache' \in [Session -> Cached], MemoryAgrees',
           holder' \in {holder, Unlocked(c)}, lost' \in SUBSET Token, lost \subseteq lost',
           user[c].at = "answered" => saved.refresh \in server.accepts \cup lost' \cup {0}
    PROVE  IInv'
<1> DEFINE new == [at |-> place, record |-> r]
<1>1. new \in User /\ new.at = place /\ new.record = r  BY NewUserTyped
<1>2. user' = [user EXCEPT ![c] = new]  BY DEF Keeps
<1>3. /\ KnowsFile(new, saved) /\ OutOfFile(new, saved)
      /\ new.at \notin Locked /\ new.at \notin Received
      /\ new.at \notin Removed /\ new.at # "refused"
  BY <1>1 DEF KnowsFile, OutOfFile, Locked, Received, Removed
<1>4. /\ holder' \in Caller \cup {NoCaller}
      /\ \A d \in Caller \ {c} : holder = d => holder' = d
  BY DEF IInv, CredentialTypeOK, Unlocked
<1> HIDE DEF new
<1> QED  BY <1>1, <1>2, <1>3, <1>4, CallerMoves

LEMMA CachesAlone ==
    ASSUME IInv, UNCHANGED <<saved, cache>>
    PROVE  cache' \in [Session -> Cached] /\ MemoryAgrees'
BY DEF IInv, CredentialTypeOK, MemoryAgrees

\* A process that forgets, or remembers what is on file.
LEMMA CacheChanges ==
    ASSUME IInv, NEW s \in Session, NEW k \in Cached, k.unchanged => k.token = saved.access,
           cache' = [cache EXCEPT ![s] = k], saved' = saved
    PROVE  cache' \in [Session -> Cached] /\ MemoryAgrees'
BY DEF IInv, CredentialTypeOK, MemoryAgrees

LEMMA ReadSteps ==
    ASSUME IInv, NEW c \in Caller,
           CachedToken(c) \/ ForgetToken(c) \/ UseToken(c) \/ BeginSignOut(c) \/ AccountStepFails(c)
    PROVE  IInv'
<1>1. /\ active' \in BOOLEAN /\ lost' \in SUBSET Token /\ lost \subseteq lost'
      /\ UNCHANGED <<saved, server, holder>> /\ user[c].at # "answered"
  BY DEF IInv, CredentialTypeOK, CachedToken, ForgetToken, UseToken, BeginSignOut, AccountStepFails
<1>2. SessionOf[c] \in Session  BY CredentialsAssumption DEF Caller
<1>3. CASE CachedToken(c)
  <2> DEFINE k == cache[SessionOf[c]]
             r == [SignedOut EXCEPT !.access = k.token]
  <2>1. k \in Cached  BY <1>2 DEF IInv, CredentialTypeOK
  <2>2. r \in AccountRecord /\ r.refresh = 0
    BY <2>1, RecordsTyped DEF AccountRecord, Cached
  <2>3. \/ Keeps(c, "given", r)
        \/ Keeps(c, "missed", user[c].record)
    BY <1>3 DEF CachedToken, Goes
  <2>4. 0 <= server.answers  BY UserTyped
  <2>5. cache' \in [Session -> Cached] /\ MemoryAgrees'
    BY <1>3, CachesAlone DEF CachedToken
  <2> HIDE DEF k, r
  <2> QED  BY <1>1, <2>2, <2>3, <2>4, <2>5, UserTyped, QuietMoves
<1>4. CASE ForgetToken(c)
  <2>1. cache' \in [Session -> Cached] /\ MemoryAgrees'
    BY <1>2, <1>4, RecordsTyped, CacheChanges DEF ForgetToken, NothingCached
  <2>2. Keeps(c, "locking", user[c].record)  BY <1>4 DEF ForgetToken, Goes
  <2> QED  BY <1>1, <2>1, <2>2, UserTyped, QuietMoves
<1>5. CASE UseToken(c) \/ AccountStepFails(c)
  <2>1. cache' \in [Session -> Cached] /\ MemoryAgrees'
    BY <1>5, CachesAlone DEF UseToken, AccountStepFails
  <2>2. Keeps(c, "idle", SignedOut)
    BY <1>5 DEF UseToken, AccountStepFails, Leaves, AtRest, Keeps
  <2> QED  BY <1>1, <2>1, <2>2, UserTyped, RecordsTyped, QuietMoves
<1>6. CASE BeginSignOut(c)
  <2>1. cache' \in [Session -> Cached] /\ MemoryAgrees'
    BY <1>6, CachesAlone DEF BeginSignOut
  <2>2. Keeps(c, "leaving", user[c].record)  BY <1>6 DEF BeginSignOut, Goes
  <2> QED  BY <1>1, <2>1, <2>2, UserTyped, QuietMoves
<1> QED  BY <1>3, <1>4, <1>5, <1>6

LEMMA LostNowTyped ==
    ASSUME IInv
    PROVE  /\ LostNow \in SUBSET Token
           /\ saved.refresh \in server.accepts \cup (lost \cup LostNow) \cup {0}
BY DEF IInv, CredentialTypeOK, AccountRecord, LostNow

\* While a caller holds the lock, no other one is where the lock is held.
LEMMA Alone ==
    ASSUME IInv, NEW c \in Caller, user[c].at \in Locked \/ LockFree,
           NEW d \in Caller \ {c}
    PROVE  user[d].at \notin Locked
BY CredentialsAssumption DEF IInv, OneHolder, LockFree, Caller

-----------------------------------------------------------------------------
(* The steps under the lock that leave the file alone. *)

LEMMA TakesLock ==
    ASSUME IInv, NEW c \in Caller, NEW place \in {"ready", "sending", "removing"},
           NEW r \in AccountRecord, r.refresh <= server.answers,
           LockFree, user[c].at \notin Locked, Takes(c), Keeps(c, place, r),
           UNCHANGED <<saved, active, cache, server, lost>>,
           place \in {"sending", "removing"} => r.refresh = saved.refresh,
           place = "sending" => saved.refresh # 0,
           place = "ready" => r.access = saved.access
    PROVE  IInv'
<1> DEFINE new == [at |-> place, record |-> r]
<1>1. new \in User /\ new.at = place /\ new.record = r  BY NewUserTyped
<1>2. user' = [user EXCEPT ![c] = new]  BY DEF Keeps
<1>3. KnowsFile(new, saved) /\ OutOfFile(new, saved) /\ new.at \notin Received
      /\ new.at \notin Removed /\ new.at # "refused"
  BY <1>1 DEF KnowsFile, OutOfFile, Received, Removed
<1>4. /\ holder' = c
      /\ \A d \in Caller \ {c} : holder = d => holder' = d
  BY CredentialsAssumption DEF LockFree, Takes, Caller
<1>5. lost' \in SUBSET Token /\ active' \in BOOLEAN
  BY DEF IInv, CredentialTypeOK
<1>6. user[c].at # "answered"  BY DEF Locked
<1> HIDE DEF new
<1> QED  BY <1>1, <1>2, <1>3, <1>4, <1>5, <1>6, CachesAlone, CallerMoves

LEMMA StoredTokenStep ==
    ASSUME IInv, NEW c \in Caller, StoredToken(c)
    PROVE  IInv'
<1>1. /\ active' \in BOOLEAN /\ lost' \in SUBSET Token /\ lost \subseteq lost'
      /\ user[c].at \notin Locked /\ LockFree
      /\ UNCHANGED <<saved, active, cache, server, lost>>
  BY DEF IInv, CredentialTypeOK, StoredToken, Locked
<1>2. CASE Leaves(c) /\ UNCHANGED holder
  <2>1. Keeps(c, "idle", SignedOut)  BY <1>2 DEF Leaves, AtRest, Keeps
  <2>2. user[c].at # "answered"  BY <1>1 DEF Locked
  <2> QED  BY <1>1, <1>2, <2>1, <2>2, UserTyped, RecordsTyped, CachesAlone, QuietMoves
<1>3. CASE Keeps(c, "ready", ForUse(saved)) /\ Takes(c)
  <2>1. ForUse(saved) \in AccountRecord /\ ForUse(saved).refresh <= server.answers
        /\ ForUse(saved).access = saved.access
    BY UserTyped, PartsTyped
  <2> QED  BY <1>1, <1>3, <2>1, TakesLock
<1>4. CASE enabled(saved) /\ Keeps(c, "sending", ForServer(saved)) /\ Takes(c)
  <2>1. ForServer(saved) \in AccountRecord /\ ForServer(saved).refresh = saved.refresh
        /\ saved.refresh <= server.answers /\ saved.refresh # 0
    BY <1>4, UserTyped, PartsTyped DEF enabled
  <2> QED  BY <1>1, <1>4, <2>1, TakesLock
<1> QED  BY <1>2, <1>3, <1>4 DEF StoredToken

LEMMA LockSignOutStep ==
    ASSUME IInv, NEW c \in Caller, LockSignOut(c)
    PROVE  IInv'
<1>1. ForServer(saved) \in AccountRecord /\ ForServer(saved).refresh = saved.refresh
      /\ saved.refresh <= server.answers
  BY UserTyped, PartsTyped
<1>2. user[c].at \notin Locked  BY DEF LockSignOut, Locked
<1> QED  BY <1>1, <1>2, TakesLock DEF LockSignOut

\* The one who sends the token on file is refused only if it was lost.
LEMMA RenewalRefusedStep ==
    ASSUME IInv, NEW c \in Caller, RenewalRefused(c)
    PROVE  IInv'
<1> DEFINE t == user[c].record.refresh
           new == [at |-> "refused", record |-> user[c].record]
<1>1. t = saved.refresh /\ t # 0 /\ t \notin server.accepts /\ holder = c
  BY DEF RenewalRefused, IInv, AsStored, KnowsFile, OneHolder, Locked
<1>2. \A d \in Caller : user[d].at # "answered"
  BY Alone DEF RenewalRefused, Locked
<1>3. t \in lost  BY <1>1, <1>2 DEF IInv, Spendable
<1>4. new \in User /\ new.at = "refused" /\ new.record = user[c].record
  BY UserTyped, NewUserTyped
<1>5. user' = [user EXCEPT ![c] = new]  BY DEF RenewalRefused, Goes, Keeps
<1>6. /\ KnowsFile(new, saved) /\ OutOfFile(new, saved) /\ new.at \notin Received
      /\ new.at \notin Removed
      /\ new.record.refresh <= server.answers /\ new.record.refresh \in lost
  BY <1>1, <1>3, <1>4, UserTyped DEF KnowsFile, OutOfFile, Received, Removed
<1>7. /\ lost' \in SUBSET Token /\ active' \in BOOLEAN
      /\ UNCHANGED <<saved, active, holder, cache, server, lost>>
      /\ holder' \in Caller \cup {NoCaller} /\ user[c].at # "answered"
  BY DEF RenewalRefused, IInv, CredentialTypeOK
<1> HIDE DEF new
<1> QED  BY <1>1, <1>4, <1>5, <1>6, <1>7, CachesAlone, CallerMoves

LEMMA LeavingSteps ==
    ASSUME IInv, NEW c \in Caller, GivesUp(c) \/ SignOutFails(c)
    PROVE  IInv'
<1>1. /\ Keeps(c, "idle", SignedOut) /\ holder' = Unlocked(c)
      /\ UNCHANGED <<saved, cache, server>>
  BY DEF GivesUp, SignOutFails, Leaves, AtRest, Keeps
<1>2. active' \in BOOLEAN
  BY DEF GivesUp, SignOutFails, IInv, CredentialTypeOK
<1>3. /\ lost' \in SUBSET Token /\ lost \subseteq lost'
      /\ user[c].at = "answered" => saved.refresh \in server.accepts \cup lost' \cup {0}
  BY LostNowTyped DEF GivesUp, SignOutFails, IInv, CredentialTypeOK
<1> QED  BY <1>1, <1>2, <1>3, UserTyped, RecordsTyped, CachesAlone, QuietMoves

LEMMA RememberTokenStep ==
    ASSUME IInv, NEW c \in Caller, RememberToken(c)
    PROVE  IInv'
<1> DEFINE r == user[c].record
<1>1. r.access = saved.access /\ user[c].at # "answered"
  BY DEF RememberToken, IInv, AsStored, KnowsFile
<1>2. Keeps(c, "given", Unpaired(r)) /\ holder' = Unlocked(c)
  BY DEF RememberToken, Unpaired
<1>3. Unpaired(r) \in AccountRecord /\ Unpaired(r).refresh <= server.answers
  BY UserTyped, PartsTyped
<1>4. SessionOf[c] \in Session  BY CredentialsAssumption DEF Caller
<1>5. cache' \in [Session -> Cached] /\ MemoryAgrees'
  <2> DEFINE k == [token |-> r.access, expiry |-> r.expiry, unchanged |-> TRUE]
  <2>1. k \in Cached /\ k.token = saved.access
    BY <1>1, UserTyped DEF Cached, AccountRecord
  <2>2. saved' = saved  BY DEF RememberToken
  <2>3. CASE cache' = [cache EXCEPT ![SessionOf[c]] = k]
    <3> HIDE DEF k
    <3> QED  BY <1>4, <2>1, <2>2, <2>3, CacheChanges
  <2>4. CASE cache' = [cache EXCEPT ![SessionOf[c]] = NothingCached]
    <3>1. ~NothingCached.unchanged  BY DEF NothingCached
    <3> QED  BY <1>4, <2>2, <2>4, <3>1, RecordsTyped, CacheChanges
  <2> QED  BY <2>3, <2>4 DEF RememberToken
<1>6. /\ lost' \in SUBSET Token /\ lost \subseteq lost' /\ active' \in BOOLEAN
      /\ UNCHANGED <<saved, server>>
  BY DEF RememberToken, IInv, CredentialTypeOK
<1> HIDE DEF r
<1> QED  BY <1>1, <1>2, <1>3, <1>5, <1>6, QuietMoves

LEMMA DeselectStep ==
    ASSUME IInv, NEW c \in Caller, Deselect(c)
    PROVE  IInv'
<1> DEFINE new == [at |-> "revoking", record |-> user[c].record]
<1>1. new \in User /\ new.at = "revoking" /\ new.record = user[c].record
  BY UserTyped, NewUserTyped
<1>2. user' = [user EXCEPT ![c] = new] /\ user[c].at = "deselecting"
  BY DEF Deselect, Goes, Keeps
<1>3. /\ KnowsFile(new, saved) /\ OutOfFile(new, saved)
      /\ new.at \notin Received /\ new.at \notin Locked
      /\ new.record.refresh <= server.answers
  BY <1>1, <1>2, UserTyped
  DEF KnowsFile, OutOfFile, Received, Removed, Locked, IInv, Apart
<1>4. \A d \in Caller \ {c} : user[d].at \in Received => new.record.refresh # user[d].record.refresh
  BY <1>1, <1>2 DEF IInv, Apart, Distinct, Removed
<1>5. SessionOf[c] \in Session  BY CredentialsAssumption DEF Caller
<1>6. cache' \in [Session -> Cached] /\ MemoryAgrees'
  <2>1. ~NothingCached.unchanged  BY DEF NothingCached
  <2> QED  BY <1>5, <2>1, RecordsTyped, CacheChanges DEF Deselect
<1>7. /\ lost' = lost /\ lost' \in SUBSET Token /\ active' \in BOOLEAN
      /\ UNCHANGED <<saved, server>>
      /\ holder' \in Caller \cup {NoCaller}
      /\ \A d \in Caller \ {c} : holder = d => holder' = d
  BY DEF Deselect, IInv, CredentialTypeOK, Unlocked
<1> HIDE DEF new
<1> QED  BY <1>1, <1>2, <1>3, <1>4, <1>6, <1>7, CallerMoves

-----------------------------------------------------------------------------
(* The steps that replace the file. *)

\* Whoever replaces the file holds its lock or finds it free, and what it
\* writes is nobody else's.
LEMMA FileReplaced ==
    ASSUME IInv, NEW c \in Caller, NEW new \in User, NEW r \in AccountRecord,
           user[c].at \in Locked \/ LockFree,
           ReplacesFile(r), user' = [user EXCEPT ![c] = new], UNCHANGED <<active, server, lost>>,
           r.refresh \in server.accepts \cup {0},
           r.refresh = 0 \/ \A d \in Caller \ {c} :
               user[d].at \in {"entering"} \cup Removed => user[d].record.refresh # r.refresh,
           holder' \in Caller \cup {NoCaller},
           new.at \in Locked => holder' = c,
           new.at \notin Received, new.at # "refused",
           KnowsFile(new, r), OutOfFile(new, r),
           new.record.refresh <= server.answers,
           new.at \in Removed =>
               \A d \in Caller \ {c} :
                   user[d].at = "entering" => new.record.refresh # user[d].record.refresh
    PROVE  IInv'
<1>1. /\ user'[c] = new
      /\ \A d \in Caller \ {c} : user'[d] = user[d] /\ user[d].at \notin Locked
  BY Alone DEF IInv, CredentialTypeOK
<1>2. /\ saved' = r
      /\ cache' = [s \in Session |-> [cache[s] EXCEPT !.unchanged = FALSE]]
  BY DEF ReplacesFile
<1>3. cache' \in [Session -> Cached] /\ \A s \in Session : ~cache'[s].unchanged
  BY <1>2 DEF IInv, CredentialTypeOK, Cached
<1>4. CredentialTypeOK' /\ MemoryAgrees'
  BY <1>2, <1>3 DEF IInv, CredentialTypeOK, MemoryAgrees
<1>5. OneHolder' /\ RefusedOnlyIfLost'
  BY <1>1 DEF OneHolder, RefusedOnlyIfLost, Locked
<1>6. AsStored'
  <2>1. ASSUME NEW d \in Caller \ {c} PROVE KnowsFile(user[d], saved)'
    BY <1>1 DEF KnowsFile, Locked
  <2>2. KnowsFile(user[c], saved)'  BY <1>1, <1>2 DEF KnowsFile
  <2> QED  BY <2>1, <2>2 DEF AsStored
<1>7. r.refresh <= server.answers /\ r.refresh \in Nat /\ 0 \notin server.accepts
  BY UserTyped DEF IInv, Counted
<1>8. Counted' /\ Issued'
  BY <1>1, <1>2, <1>7 DEF IInv, Counted, Issued
<1>9. Apart'
  <2>1. ASSUME NEW d \in Caller \ {c} PROVE OutOfFile(user[d], saved)'
    <3>1. user'[d] = user[d] /\ saved'.refresh = r.refresh  BY <1>1, <1>2
    <3>2. user[d].at = "entering" => user[d].record.refresh # 0
      BY <1>7 DEF IInv, Issued, Received
    <3> QED  BY <3>1, <3>2 DEF OutOfFile
  <2>2. OutOfFile(user[c], saved)'  BY <1>1, <1>2 DEF OutOfFile
  <2>3. ASSUME NEW d \in Caller, NEW e \in Caller, d # e PROVE Distinct(user[d], user[e])'
    <3>1. CASE d = c
      <4>1. user[e]' = user[e] /\ user[c]' = new /\ user[e].at # "answered"
        BY <1>1, <2>3, <3>1 DEF Locked
      <4> QED  BY <2>3, <3>1, <4>1 DEF Distinct, Received
    <3>2. CASE d # c
      <4>1. user[d]' = user[d] /\ (e # c => user[e]' = user[e]) /\ (e = c => user[e]' = new)
        BY <1>1, <2>3, <3>2
      <4> QED  BY <2>3, <4>1 DEF Distinct, IInv, Apart
    <3> QED  BY <3>1, <3>2
  <2> QED  BY <2>1, <2>2, <2>3 DEF Apart
<1>10. Spendable'
  BY <1>2 DEF Spendable
<1> QED  BY <1>4, <1>5, <1>6, <1>8, <1>9, <1>10 DEF IInv

\* Steps that only write under the lock and leave, or go on with the file's
\* own token.
LEMMA RemoveTokensStep ==
    ASSUME IInv, NEW c \in Caller, RemoveTokens(c)
    PROVE  IInv'
<1> DEFINE new == [at |-> "deselecting", record |-> user[c].record]
           r == Cleared(saved)
<1>1. new \in User /\ new.at = "deselecting" /\ new.record = user[c].record
  BY UserTyped, NewUserTyped
<1>2. /\ user' = [user EXCEPT ![c] = new] /\ user[c].at = "removing"
      /\ ReplacesFile(r) /\ UNCHANGED <<active, holder, server, lost>>
  BY DEF RemoveTokens, Goes, Keeps, Cleared
<1>3. r \in AccountRecord /\ r.refresh = 0  BY UserTyped, PartsTyped
<1>4. user[c].record.refresh = saved.refresh /\ holder = c
  BY <1>2 DEF IInv, AsStored, KnowsFile, OneHolder, Locked
<1>5. \A d \in Caller \ {c} : user[d].at = "entering" => new.record.refresh # user[d].record.refresh
  BY <1>1, <1>4 DEF IInv, Apart, OutOfFile
<1>6. KnowsFile(new, r) /\ OutOfFile(new, r)
  BY <1>1, <1>3 DEF KnowsFile, OutOfFile
<1>7. /\ new.at \in Locked /\ new.at \notin Received /\ user[c].at \in Locked
      /\ new.record.refresh <= server.answers /\ holder' = c
  BY <1>1, <1>2, <1>4, UserTyped DEF Locked, Received
<1> HIDE DEF new, r
<1> QED  BY <1>1, <1>2, <1>3, <1>5, <1>6, <1>7, FileReplaced

\* A write after which the caller is done with the file.
LEMMA WritesAndLeaves ==
    ASSUME IInv, NEW c \in Caller, NEW r \in AccountRecord, ReplacesFile(r), Leaves(c),
           user[c].at \in Locked \/ LockFree,
           UNCHANGED <<active, server, lost>>, holder' \in {holder, Unlocked(c)},
           r.refresh \in server.accepts \cup {0},
           r.refresh = 0 \/ \A d \in Caller \ {c} :
               user[d].at \in {"entering"} \cup Removed => user[d].record.refresh # r.refresh
    PROVE  IInv'
<1>1. AtRest \in User /\ AtRest.at = "idle" /\ AtRest.record.refresh = 0
  BY RecordsTyped
<1>2. KnowsFile(AtRest, r) /\ OutOfFile(AtRest, r)
  BY <1>1 DEF KnowsFile, OutOfFile, Removed
<1>3. AtRest.at \notin Locked \cup Received \cup Removed
  BY <1>1 DEF Locked, Received, Removed
<1>4. holder' \in Caller \cup {NoCaller} /\ 0 <= server.answers
  BY UserTyped DEF IInv, CredentialTypeOK, Unlocked
<1>5. user' = [user EXCEPT ![c] = AtRest]  BY DEF Leaves
<1> QED  BY <1>1, <1>2, <1>3, <1>4, <1>5, FileReplaced

LEMMA ReceivedIsOwn ==
    ASSUME IInv, NEW c \in Caller, user[c].at \in Received
    PROVE  /\ user[c].record.refresh \in server.accepts
           /\ \A d \in Caller \ {c} : user[d].at \in {"entering"} \cup Removed =>
                  user[d].record.refresh # user[c].record.refresh
BY DEF IInv, Issued, Apart, Distinct

LEMMA WritingSteps ==
    ASSUME IInv, NEW c \in Caller, ClearRefused(c) \/ SaveRefreshed(c) \/ SaveSignIn(c)
    PROVE  IInv'
<1>1. CASE ClearRefused(c)
  <2>1. ReplacesFile(Cleared(saved)) /\ Leaves(c) /\ user[c].at \in Locked
        /\ UNCHANGED <<active, server, lost>> /\ holder' = Unlocked(c)
    BY <1>1 DEF ClearRefused, Cleared, Locked
  <2>2. Cleared(saved) \in AccountRecord /\ Cleared(saved).refresh = 0
    BY UserTyped, PartsTyped
  <2> QED  BY <2>1, <2>2, WritesAndLeaves
<1>2. CASE SaveRefreshed(c)
  <2> DEFINE r == user[c].record
  <2>1. /\ r \in AccountRecord /\ user[c].at \in Locked /\ user[c].at \in Received
        /\ ReplacesFile(r) /\ UNCHANGED <<active, server, lost>> /\ holder = c
    BY <1>2, UserTyped DEF SaveRefreshed, Saves, Locked, Received, IInv, OneHolder
  <2>2. CASE Leaves(c) /\ holder' = Unlocked(c)
    BY <2>1, <2>2, ReceivedIsOwn, WritesAndLeaves
  <2>3. CASE Keeps(c, "ready", ForUse(r)) /\ UNCHANGED holder
    <3> DEFINE new == [at |-> "ready", record |-> ForUse(r)]
    <3>1. /\ new \in User /\ new.at = "ready" /\ new.record.access = r.access
          /\ new.record.refresh = 0
      BY <2>1, PartsTyped, NewUserTyped
    <3>2. saved' = r  BY <2>1 DEF ReplacesFile
    <3>3. KnowsFile(new, r) /\ OutOfFile(new, r)
      BY <3>1, <3>2 DEF KnowsFile, OutOfFile, Removed
    <3>4. new.at \notin Received \cup Removed /\ holder' = c /\ c \in Caller \cup {NoCaller}
          /\ 0 <= server.answers
      BY <2>1, <2>3, <3>1, UserTyped DEF Received, Removed
    <3>5. user' = [user EXCEPT ![c] = new]  BY <2>3 DEF Keeps
    <3> HIDE DEF new
    <3> QED  BY <2>1, <3>1, <3>3, <3>4, <3>5, ReceivedIsOwn, FileReplaced
  <2> QED  BY <1>2, <2>2, <2>3 DEF SaveRefreshed
<1>3. CASE SaveSignIn(c)
  <2>1. user[c].at \in Received /\ LockFree /\ ReplacesFile(user[c].record) /\ Leaves(c)
        /\ UNCHANGED <<active, holder, server, lost>>
    BY <1>3 DEF SaveSignIn, Received
  <2> QED  BY <2>1, UserTyped, ReceivedIsOwn, WritesAndLeaves
<1> QED  BY <1>1, <1>2, <1>3

-----------------------------------------------------------------------------
(* The server's steps. *)

LEMMA RenewedStep ==
    ASSUME IInv, NEW c \in Caller, Renewed(c)
    PROVE  IInv'
<1> DEFINE t == user[c].record.refresh
           n == server.answers + 1
<1>1. PICK next \in {t, n}, scoped \in BOOLEAN :
         /\ Keeps(c, "answered", Answer(next, scoped))
         /\ server' = [accepts |-> (server.accepts \ {t}) \cup {next}, answers |-> n]
  BY DEF Renewed
<1>2. /\ user[c].at = "sending" /\ t \in server.accepts /\ server.answers < MaxTokens
      /\ UNCHANGED <<saved, active, holder, cache, lost>>
  BY DEF Renewed
<1>3. t = saved.refresh /\ holder = c
  BY <1>2 DEF IInv, AsStored, KnowsFile, OneHolder, Locked
<1>4. /\ t \in 1..server.answers /\ n \in Token /\ server.answers \in Nat /\ next \in 1..n
      /\ next \in Token
  BY <1>1, <1>2, UserTyped, CredentialsAssumption DEF IInv, Counted, Token
<1> DEFINE new == [at |-> "answered", record |-> Answer(next, scoped)]
<1>5. /\ new \in User /\ new.at = "answered" /\ new.record.refresh = next
  <2>1. Answer(next, scoped) \in AccountRecord /\ Answer(next, scoped).refresh = next
    BY <1>4 DEF Answer, AccountRecord
  <2> QED  BY <2>1, NewUserTyped
<1>6. user' = [user EXCEPT ![c] = new]  BY <1>1 DEF Keeps
<1> HIDE DEF new
<1>7. /\ user'[c] = new
      /\ \A d \in Caller \ {c} : user'[d] = user[d] /\ user[d].at \notin Locked
  BY <1>2, <1>6, Alone DEF IInv, CredentialTypeOK, Locked
<1>8. server'.accepts = (server.accepts \ {t}) \cup {next} /\ server'.answers = n
  BY <1>1
<1>9. CredentialTypeOK'
  BY <1>1, <1>2, <1>4, <1>5, <1>6 DEF IInv, CredentialTypeOK
<1>10. OneHolder' /\ RefusedOnlyIfLost' /\ AsStored' /\ MemoryAgrees'
  BY <1>2, <1>3, <1>5, <1>7
  DEF IInv, OneHolder, RefusedOnlyIfLost, AsStored, KnowsFile, MemoryAgrees, Locked
<1>11. Counted'
  <2>1. server'.accepts \subseteq 1..server'.answers
    BY <1>4, <1>8 DEF IInv, Counted
  <2>2. saved'.refresh <= server'.answers
    BY <1>2, <1>4, <1>8, UserTyped
  <2>3. ASSUME NEW d \in Caller PROVE user'[d].record.refresh <= server'.answers
    <3>1. CASE d = c  BY <1>4, <1>5, <1>7, <1>8, <3>1
    <3>2. CASE d # c
      <4>1. user'[d] = user[d] /\ user[d].record.refresh <= server.answers
            /\ user[d].record.refresh \in Nat
        BY <1>7, <3>2, UserTyped
      <4> QED  BY <1>4, <1>8, <4>1
    <3> QED  BY <3>1, <3>2
  <2> QED  BY <2>1, <2>2, <2>3 DEF Counted
<1>12. ASSUME NEW d \in Caller \ {c}, user[d].at = "entering"
       PROVE  user[d].record.refresh # t /\ user[d].record.refresh <= server.answers
  BY <1>3, <1>12, UserTyped DEF IInv, Apart, OutOfFile
<1>13. ASSUME NEW d \in Caller \ {c}, user[d].at \in Removed
       PROVE  user[d].record.refresh # t /\ user[d].record.refresh <= server.answers
  BY <1>3, <1>4, <1>13, UserTyped DEF IInv, Apart, OutOfFile
<1>14. Issued'
  BY <1>5, <1>7, <1>8, <1>12 DEF IInv, Issued, Received, Locked
<1>15. Apart'
  <2>1. ASSUME NEW d \in Caller PROVE OutOfFile(user[d], saved)'
    BY <1>2, <1>5, <1>7 DEF IInv, Apart, OutOfFile, Removed
  <2>2. ASSUME NEW d \in Caller, NEW e \in Caller, d # e PROVE Distinct(user[d], user[e])'
    <3>1. CASE d = c
      BY <1>5, <1>7, <3>1 DEF Distinct, Removed
    <3>2. CASE d # c /\ e # c
      <4>1. user'[d] = user[d] /\ user'[e] = user[e]  BY <1>7, <3>2
      <4> QED  BY <2>2, <4>1 DEF Distinct, IInv, Apart
    <3>3. CASE d # c /\ e = c
      <4>1. user'[d] = user[d] /\ user'[e].record.refresh = next  BY <1>5, <1>7, <3>3
      <4>2. user[d].at \in {"entering"} \cup Removed => user[d].record.refresh # next
        BY <1>1, <1>4, <1>12, <1>13, <3>3, UserTyped
      <4> QED  BY <4>1, <4>2 DEF Distinct
    <3> QED  BY <3>1, <3>2, <3>3
  <2> QED  BY <2>1, <2>2 DEF Apart
<1>16. Spendable'
  BY <1>5, <1>7 DEF Spendable
<1> QED  BY <1>9, <1>10, <1>11, <1>14, <1>15, <1>16 DEF IInv

LEMMA SignInStep ==
    ASSUME IInv, NEW c \in Caller, SignIn(c)
    PROVE  IInv'
<1> DEFINE n == server.answers + 1
<1>1. PICK scoped \in BOOLEAN : Keeps(c, "entering", Answer(n, scoped))
  BY DEF SignIn
<1>2. /\ user[c].at = "idle" /\ server.answers < MaxTokens
      /\ server' = [accepts |-> server.accepts \cup {n}, answers |-> n]
      /\ UNCHANGED <<saved, active, holder, cache, lost>>
  BY DEF SignIn
<1>3. n \in Token /\ n \in Nat /\ server.answers \in Nat
  BY <1>2, UserTyped, CredentialsAssumption DEF Token
<1> DEFINE new == [at |-> "entering", record |-> Answer(n, scoped)]
<1>4. /\ new \in User /\ new.at = "entering" /\ new.record.refresh = n
  <2>1. Answer(n, scoped) \in AccountRecord /\ Answer(n, scoped).refresh = n
    BY <1>3 DEF Answer, AccountRecord
  <2> QED  BY <2>1, NewUserTyped
<1>5. user' = [user EXCEPT ![c] = new]  BY <1>1 DEF Keeps
<1> HIDE DEF new
<1>6. /\ user'[c] = new
      /\ \A d \in Caller \ {c} : user'[d] = user[d]
  BY <1>5 DEF IInv, CredentialTypeOK
<1>7. server'.accepts = server.accepts \cup {n} /\ server'.answers = n
  BY <1>2
<1>8. CredentialTypeOK'
  BY <1>2, <1>3, <1>4, <1>5 DEF IInv, CredentialTypeOK
<1>9. OneHolder' /\ RefusedOnlyIfLost' /\ AsStored' /\ MemoryAgrees'
  BY <1>2, <1>4, <1>6
  DEF IInv, OneHolder, RefusedOnlyIfLost, AsStored, KnowsFile, MemoryAgrees, Locked
<1>10. \A d \in Caller : user[d].record.refresh < n /\ user[d].record.refresh \in Nat
  BY <1>3, UserTyped
<1>11. saved.refresh < n /\ saved.refresh \in Nat
  BY <1>3, UserTyped
<1>12. Counted'
  <2>1. server'.accepts \subseteq 1..server'.answers
    BY <1>3, <1>7 DEF IInv, Counted
  <2> QED  BY <1>2, <1>3, <1>4, <1>6, <1>7, <1>10, <1>11, <2>1 DEF Counted
<1>13. Issued'
  BY <1>4, <1>6, <1>7 DEF IInv, Issued
<1>14. Apart'
  <2>1. ASSUME NEW d \in Caller PROVE OutOfFile(user[d], saved)'
    BY <1>2, <1>4, <1>6, <1>11 DEF IInv, Apart, OutOfFile, Removed
  <2>2. ASSUME NEW d \in Caller, NEW e \in Caller, d # e PROVE Distinct(user[d], user[e])'
    <3>1. CASE d = c
      <4>1. user'[e] = user[e] /\ user'[d].record.refresh = n  BY <1>4, <1>6, <2>2, <3>1
      <4> QED  BY <1>10, <4>1 DEF Distinct
    <3>2. CASE e = c
      <4>1. user'[d] = user[d] /\ user'[e].record.refresh = n  BY <1>4, <1>6, <2>2, <3>2
      <4> QED  BY <1>10, <4>1 DEF Distinct
    <3>3. CASE d # c /\ e # c
      <4>1. user'[d] = user[d] /\ user'[e] = user[e]  BY <1>6, <3>3
      <4> QED  BY <2>2, <4>1 DEF Distinct, IInv, Apart
    <3> QED  BY <3>1, <3>2, <3>3
  <2> QED  BY <2>1, <2>2 DEF Apart
<1>15. Spendable'
  BY <1>2, <1>6, <1>7 DEF IInv, Spendable
<1> QED  BY <1>8, <1>9, <1>12, <1>13, <1>14, <1>15 DEF IInv

LEMMA RevokeStep ==
    ASSUME IInv, NEW c \in Caller, Revoke(c)
    PROVE  IInv'
<1> DEFINE t == user[c].record.refresh
<1>1. /\ user[c].at = "revoking" /\ user' = [user EXCEPT ![c] = AtRest]
      /\ UNCHANGED <<saved, active, holder, cache, lost>>
  BY DEF Revoke, Leaves
<1>2. server' = [accepts |-> server.accepts \ {t}, answers |-> server.answers] \/ server' = server
  BY DEF Revoke
<1>3. /\ server'.answers = server.answers /\ server'.accepts \subseteq server.accepts
      /\ server.accepts \subseteq server'.accepts \cup {t}
      /\ server' \in [accepts : SUBSET Token, answers : Token]
  BY <1>2 DEF IInv, CredentialTypeOK
<1>4. /\ user'[c] = AtRest
      /\ \A d \in Caller \ {c} : user'[d] = user[d]
  BY <1>1 DEF IInv, CredentialTypeOK
<1>5. AtRest \in User /\ AtRest.at = "idle" /\ AtRest.record.refresh = 0
  BY RecordsTyped
<1>6. CredentialTypeOK'
  BY <1>1, <1>3, <1>5 DEF IInv, CredentialTypeOK
<1>7. OneHolder' /\ RefusedOnlyIfLost' /\ AsStored' /\ MemoryAgrees'
  BY <1>1, <1>4, <1>5
  DEF IInv, OneHolder, RefusedOnlyIfLost, AsStored, KnowsFile, MemoryAgrees, Locked
<1>8. Counted'
  BY <1>1, <1>3, <1>4, <1>5, UserTyped DEF IInv, Counted
<1>9. Issued'
  BY <1>1, <1>3, <1>4, <1>5 DEF IInv, Issued, Apart, Distinct, Received, Removed
<1>10. Apart'
  <2>1. ASSUME NEW d \in Caller PROVE OutOfFile(user[d], saved)'
    BY <1>1, <1>4, <1>5 DEF IInv, Apart, OutOfFile, Removed
  <2>2. ASSUME NEW d \in Caller, NEW e \in Caller, d # e PROVE Distinct(user[d], user[e])'
    <3>1. CASE d = c \/ e = c
      <4>1. user'[c].at = "idle"  BY <1>4, <1>5
      <4> QED  BY <3>1, <4>1 DEF Distinct, Received, Removed
    <3>2. CASE d # c /\ e # c
      <4>1. user'[d] = user[d] /\ user'[e] = user[e]  BY <1>4, <3>2
      <4> QED  BY <2>2, <4>1 DEF Distinct, IInv, Apart
    <3> QED  BY <3>1, <3>2
  <2> QED  BY <2>1, <2>2 DEF Apart
<1>11. Spendable'
  <2>1. CASE \E d \in Caller : user[d].at = "answered"
    BY <1>1, <1>4, <2>1 DEF Spendable
  <2>2. CASE saved.refresh \in server.accepts \cup lost \cup {0}
    <3>1. t = 0 \/ t # saved.refresh
      BY <1>1 DEF IInv, Apart, OutOfFile, Removed
    <3> QED  BY <1>1, <1>3, <2>2, <3>1 DEF Spendable
  <2> QED  BY <2>1, <2>2 DEF IInv, Spendable
<1> QED  BY <1>6, <1>7, <1>8, <1>9, <1>10, <1>11 DEF IInv

-----------------------------------------------------------------------------
(* Steps of nobody: time, and the ends of processes. *)

\* What no property looks at may change.
LEMMA SameTokens ==
    ASSUME IInv, CredentialTypeOK',
           UNCHANGED <<holder, server, lost>>,
           saved'.refresh = saved.refresh, saved'.access = saved.access,
           \A s \in Session : /\ cache'[s].token = cache[s].token
                             /\ cache'[s].unchanged = cache[s].unchanged,
           \A c \in Caller : /\ user'[c].at = user[c].at
                            /\ user'[c].record.refresh = user[c].record.refresh
                            /\ user'[c].record.access = user[c].record.access
    PROVE  IInv'
<1>1. OneHolder' /\ RefusedOnlyIfLost' /\ MemoryAgrees'
  BY DEF IInv, OneHolder, RefusedOnlyIfLost, MemoryAgrees
<1>2. AsStored'
  BY DEF IInv, AsStored, KnowsFile
<1>3. Counted' /\ Issued' /\ Spendable'
  BY DEF IInv, Counted, Issued, Spendable
<1>4. Apart'
  BY DEF IInv, Apart, OutOfFile, Distinct
<1> QED  BY <1>1, <1>2, <1>3, <1>4 DEF IInv

LEMMA TokenAgesStep ==
    ASSUME IInv, NEW t \in Token, TokenAges(t)
    PROVE  IInv'
<1> DEFINE Aged(r) == IF r.access = t THEN [r EXCEPT !.expiry = Older(@)] ELSE r
           Later(k) == IF k.token = t THEN [k EXCEPT !.expiry = Older(@)] ELSE k
<1>1. ASSUME NEW r \in AccountRecord
      PROVE  Aged(r) \in AccountRecord /\ Aged(r).access = r.access /\ Aged(r).refresh = r.refresh
  BY DEF AccountRecord, Older
<1>2. ASSUME NEW k \in Cached
      PROVE  Later(k) \in Cached /\ Later(k).token = k.token /\ Later(k).unchanged = k.unchanged
  BY DEF Cached, Older
<1>3. /\ saved' = Aged(saved)
      /\ cache' = [s \in Session |-> Later(cache[s])]
      /\ user' = [c \in Caller |-> [at |-> user[c].at, record |-> Aged(user[c].record)]]
      /\ UNCHANGED <<active, holder, server, lost>>
  BY DEF TokenAges
<1> HIDE DEF Aged, Later
<1>4. /\ saved \in AccountRecord /\ \A s \in Session : cache[s] \in Cached
      /\ \A c \in Caller : user[c] \in User /\ user[c].record \in AccountRecord
  BY DEF IInv, CredentialTypeOK, User
<1>5. \A c \in Caller : /\ user'[c] \in User /\ user'[c].at = user[c].at
                        /\ user'[c].record.refresh = user[c].record.refresh
                        /\ user'[c].record.access = user[c].record.access
  BY <1>1, <1>3, <1>4 DEF User
<1>6. \A s \in Session : /\ cache'[s] \in Cached /\ cache'[s].token = cache[s].token
                         /\ cache'[s].unchanged = cache[s].unchanged
  BY <1>2, <1>3, <1>4
<1>7. saved' \in AccountRecord /\ saved'.refresh = saved.refresh /\ saved'.access = saved.access
  BY <1>1, <1>3, <1>4
<1>8. CredentialTypeOK'
  BY <1>3, <1>5, <1>6, <1>7 DEF IInv, CredentialTypeOK
<1> QED  BY <1>3, <1>5, <1>6, <1>7, <1>8, SameTokens

LEMMA OtherSteps ==
    ASSUME IInv, MayRefresh \/ (\E c \in Caller : Activate(c)) \/ UNCHANGED credentialVars
    PROVE  IInv'
<1>1. UNCHANGED <<holder, cache, user, server, lost>> /\ active' \in BOOLEAN
  BY DEF MayRefresh, Activate, credentialVars, IInv, CredentialTypeOK
<1>2. saved' = [saved EXCEPT !.early = FALSE] \/ saved' = saved
  BY DEF MayRefresh, Activate, credentialVars
<1>3. saved' \in AccountRecord /\ saved'.refresh = saved.refresh /\ saved'.access = saved.access
  BY <1>2 DEF IInv, CredentialTypeOK, AccountRecord
<1>4. CredentialTypeOK'
  BY <1>1, <1>3 DEF IInv, CredentialTypeOK
<1> QED  BY <1>1, <1>3, <1>4, SameTokens

LEMMA ProcessDiesStep ==
    ASSUME IInv, NEW s \in Session, ProcessDies(s)
    PROVE  IInv'
<1> DEFINE mine == {c \in Caller : SessionOf[c] = s}
<1>1. /\ lost' = (IF holder \in mine THEN lost \cup LostNow ELSE lost)
      /\ user' = [c \in Caller |-> IF c \in mine THEN AtRest ELSE user[c]]
      /\ cache' = [cache EXCEPT ![s] = NothingCached]
      /\ holder' = (IF holder \in mine THEN NoCaller ELSE holder)
      /\ UNCHANGED <<saved, active, server>>
  BY DEF ProcessDies
<1>2. /\ \A c \in mine : user'[c] = AtRest
      /\ \A c \in Caller \ mine : user'[c] = user[c]
  BY <1>1
<1>3. AtRest \in User /\ AtRest.at = "idle" /\ AtRest.record.refresh = 0
  BY RecordsTyped
<1>4. cache' \in [Session -> Cached] /\ MemoryAgrees'
  <2>1. ~NothingCached.unchanged  BY DEF NothingCached
  <2> QED  BY <1>1, <2>1, RecordsTyped, CacheChanges
<1>5. lost' \in SUBSET Token /\ lost \subseteq lost'
  BY <1>1, LostNowTyped DEF IInv, CredentialTypeOK
<1>6. CredentialTypeOK'
  BY <1>1, <1>3, <1>4, <1>5 DEF IInv, CredentialTypeOK
<1> HIDE DEF mine
<1>7. OneHolder' /\ RefusedOnlyIfLost'
  BY <1>1, <1>2, <1>3, <1>5 DEF IInv, OneHolder, RefusedOnlyIfLost, Locked
<1>8. AsStored' /\ Issued'
  BY <1>1, <1>2, <1>3 DEF IInv, AsStored, KnowsFile, Issued, Received
<1>9. Counted'
  BY <1>1, <1>2, <1>3, UserTyped DEF IInv, Counted
<1>10. Apart'
  <2>1. ASSUME NEW d \in Caller PROVE OutOfFile(user[d], saved)'
    BY <1>1, <1>2, <1>3 DEF IInv, Apart, OutOfFile, Removed
  <2>2. ASSUME NEW d \in Caller, NEW e \in Caller, d # e PROVE Distinct(user[d], user[e])'
    <3>1. CASE d \in mine \/ e \in mine
      BY <1>2, <1>3, <3>1 DEF Distinct, Received, Removed
    <3>2. CASE d \notin mine /\ e \notin mine
      <4>1. user'[d] = user[d] /\ user'[e] = user[e]  BY <1>2, <3>2
      <4> QED  BY <2>2, <4>1 DEF Distinct, IInv, Apart
    <3> QED  BY <3>1, <3>2
  <2> QED  BY <2>1, <2>2 DEF Apart
<1>11. Spendable'
  <2>1. CASE saved.refresh \in server.accepts \cup lost \cup {0}
    BY <1>1, <1>5, <2>1 DEF Spendable
  <2>2. CASE \E c \in Caller : user[c].at = "answered"
    <3>1. PICK c \in Caller : user[c].at = "answered"  BY <2>2
    <3>2. holder = c  BY <3>1 DEF IInv, OneHolder, Locked
    <3>3. CASE c \in mine
      BY <1>1, <3>2, <3>3, LostNowTyped DEF Spendable
    <3>4. CASE c \notin mine
      BY <1>2, <3>1, <3>4 DEF Spendable
    <3> QED  BY <3>3, <3>4
  <2> QED  BY <2>1, <2>2 DEF IInv, Spendable
<1> QED  BY <1>4, <1>6, <1>7, <1>8, <1>9, <1>10, <1>11 DEF IInv

-----------------------------------------------------------------------------
(* The theorems. *)

LEMMA StepPreserves == IInv /\ [CredentialNext]_credentialVars => IInv'
<1> SUFFICES ASSUME IInv, [CredentialNext]_credentialVars PROVE IInv'  OBVIOUS
<1>1. ASSUME NEW c \in Caller, AskerStep(c) PROVE IInv'
  BY <1>1, ReadSteps, StoredTokenStep, RenewedStep, RenewalRefusedStep, LeavingSteps,
     WritingSteps, RememberTokenStep DEF AskerStep
<1>2. ASSUME NEW c \in Caller, OwnerStep(c) PROVE IInv'
  BY <1>2, ReadSteps, LockSignOutStep, RemoveTokensStep, DeselectStep, LeavingSteps,
     RevokeStep, SignInStep, WritingSteps, OtherSteps DEF OwnerStep
<1>3. Asker \subseteq Caller /\ Owner \subseteq Caller  BY DEF Caller
<1> QED
  BY <1>1, <1>2, <1>3, ReadSteps, TokenAgesStep, OtherSteps, ProcessDiesStep DEF CredentialNext

LEMMA Invariance == CredentialSpec => []IInv
BY InitHolds, StepPreserves, PTL DEF CredentialSpec

\* A refresh token is refused only where the answer to its earlier use was
\* lost, however many processes renew, sign in and sign out.
THEOREM NoTokenIsSpentTwice == CredentialSpec => []RefusedOnlyIfLost
<1>1. IInv => RefusedOnlyIfLost  BY DEF IInv
<1> QED  BY <1>1, Invariance, PTL

\* Who goes to another place than "given" gives nothing out, nor does anybody
\* else's step.
LEMMA GoesElsewhere ==
    ASSUME IInv, NEW c \in Caller, user[c].at # "given", NEW d \in Caller, NEW new,
           user' = [user EXCEPT ![d] = new], d = c => new.at # "given"
    PROVE  user'[c].at # "given"
BY DEF IInv, CredentialTypeOK

LEMMA KeepsElsewhere ==
    ASSUME IInv, NEW c \in Caller, user[c].at # "given", NEW d \in Caller, NEW r, NEW place,
           Keeps(d, place, r), d # c \/ place # "given"
    PROVE  user'[c].at # "given"
<1> DEFINE new == [at |-> place, record |-> r]
<1>1. new.at = place  OBVIOUS
<1>2. user' = [user EXCEPT ![d] = new]  BY DEF Keeps
<1> HIDE DEF new
<1> QED  BY <1>1, <1>2, GoesElsewhere

LEMMA LeavesElsewhere ==
    ASSUME IInv, NEW c \in Caller, user[c].at # "given", NEW d \in Caller, Leaves(d)
    PROVE  user'[c].at # "given"
<1>1. AtRest.at # "given"  BY RecordsTyped
<1> QED  BY <1>1, GoesElsewhere DEF Leaves

\* A caller is given a token in two ways, and both agree with the file.
LEMMA GivenAgrees ==
    ASSUME IInv, [CredentialNext]_credentialVars,
           NEW c \in Caller, user[c].at # "given", user'[c].at = "given"
    PROVE  user'[c].record.access = saved.access
<1>1. user \in [Caller -> User]  BY DEF IInv, CredentialTypeOK
<1>2. CASE CachedToken(c)
  <2> DEFINE k == cache[SessionOf[c]]
  <2>1. SessionOf[c] \in Session  BY CredentialsAssumption DEF Caller
  <2>2. CASE Usable(k) /\ Keeps(c, "given", [SignedOut EXCEPT !.access = k.token])
    <3>1. user'[c].record = [SignedOut EXCEPT !.access = k.token]
      BY <1>1, <2>2 DEF Keeps
    <3>2. user'[c].record.access = k.token  BY <3>1 DEF SignedOut
    <3>3. k.token = saved.access  BY <2>1, <2>2 DEF Usable, IInv, MemoryAgrees
    <3> QED  BY <3>2, <3>3
  <2>3. CASE Goes(c, "missed")
    BY <1>1, <2>3 DEF Goes, Keeps
  <2> QED  BY <1>2, <2>2, <2>3 DEF CachedToken
<1>3. CASE RememberToken(c)
  <2>1. user'[c].record = Unpaired(user[c].record)
    BY <1>1, <1>3 DEF RememberToken, Keeps, Unpaired
  <2>2. user'[c].record.access = user[c].record.access
    BY <2>1, UserTyped, PartsTyped
  <2> QED  BY <1>3, <2>2 DEF RememberToken, IInv, AsStored, KnowsFile
<1>4. CASE ~CachedToken(c) /\ ~RememberToken(c)
  <2>1. ASSUME NEW d \in Caller, AskerStep(d) PROVE FALSE
    <3>1. CASE ForgetToken(d) \/ RenewalRefused(d)
      BY <3>1, KeepsElsewhere DEF ForgetToken, RenewalRefused, Goes
    <3>2. CASE GivesUp(d) \/ ClearRefused(d) \/ UseToken(d)
      BY <3>2, LeavesElsewhere DEF GivesUp, ClearRefused, UseToken
    <3>3. CASE StoredToken(d) \/ SaveRefreshed(d) \/ Renewed(d)
      BY <3>3, KeepsElsewhere, LeavesElsewhere DEF StoredToken, SaveRefreshed, Renewed
    <3>4. CASE CachedToken(d) \/ RememberToken(d)
      BY <1>4, <3>4, KeepsElsewhere DEF CachedToken, RememberToken, Goes
    <3> QED  BY <2>1, <3>1, <3>2, <3>3, <3>4 DEF AskerStep
  <2>2. ASSUME NEW d \in Caller, OwnerStep(d) \/ AccountStepFails(d) PROVE FALSE
    <3>1. CASE BeginSignOut(d) \/ RemoveTokens(d) \/ Deselect(d) \/ LockSignOut(d) \/ SignIn(d)
      BY <3>1, KeepsElsewhere DEF BeginSignOut, RemoveTokens, Deselect, LockSignOut, SignIn, Goes
    <3>2. CASE SignOutFails(d) \/ Revoke(d) \/ SaveSignIn(d) \/ AccountStepFails(d)
      BY <3>2, LeavesElsewhere DEF SignOutFails, Revoke, SaveSignIn, AccountStepFails
    <3>3. CASE Activate(d)
      BY <3>3 DEF Activate
    <3> QED  BY <2>2, <3>1, <3>2, <3>3 DEF OwnerStep
  <2>3. ASSUME NEW t \in Token, TokenAges(t) PROVE FALSE
    BY <1>1, <2>3 DEF TokenAges
  <2>4. ASSUME NEW s \in Session, ProcessDies(s) PROVE FALSE
    BY <1>1, <2>4 DEF ProcessDies, AtRest
  <2>5. ~MayRefresh /\ ~UNCHANGED credentialVars
    BY DEF MayRefresh, credentialVars
  <2> QED  BY <2>1, <2>2, <2>3, <2>4, <2>5 DEF CredentialNext, Caller
<1> QED  BY <1>2, <1>3, <1>4

\* What is given out is what the file says at that moment.
THEOREM GivenTokensAreStored == CredentialSpec => GivenIsStored
<1>1. IInv /\ [CredentialNext]_credentialVars =>
        [\A c \in Caller :
            user[c].at # "given" /\ user'[c].at = "given"
               => user'[c].record.access = saved.access]_credentialVars
  BY GivenAgrees
<1> QED  BY <1>1, Invariance, PTL DEF CredentialSpec, GivenIsStored

-----------------------------------------------------------------------------
(* Connections: the types of the state, and its fields.                    *)

Shared == [conn : Connection, client : Client \cup {NoClient}]
ClientState == [conn : Connection, mode : {"none", "modern", "legacy"}]
CallPlace == {"new", "listed", "queued", "acquired", "renewing", "fresh", "bound", "expired",
              "again", "challenged", "done"}
CallOutcome == {"none", "completed", "failed", "not_executed", "unknown"}
RemoteState ==
    [at : CallPlace, conn : Connection, client : Client \cup {NoClient}, ran : 0..2,
     outcome : CallOutcome]
FormPlace == {"unused", "closed", "editing", "signing", "checking", "renewing", "checked"}
FormState ==
    [at : FormPlace, draft : Connection, original : Connection, prepared : Connection,
     guard : Connection]
Counts == [grants : 0..MaxGrants, edits : 0..MaxEdits]
GrantHistory == [needed : BOOLEAN, replaced : SUBSET (1..MaxGrants)]

\* The type invariant, one variable at a time.
LEMMA McpTypes ==
    McpTypeOK <=> /\ stored \in Connection /\ document \in Connection
                  /\ keeper \in RemoteCall \cup Form \cup {Noone}
                  /\ current \in Shared /\ client \in [Client -> ClientState]
                  /\ remote \in [RemoteCall -> RemoteState] /\ form \in [Form -> FormState]
                  /\ counts \in Counts /\ history \in GrantHistory
BY DEF McpTypeOK, Shared, ClientState, CallPlace, CallOutcome, RemoteState, FormPlace, FormState,
       Counts, GrantHistory

\* The same of the next state.
LEMMA NextMcpTypes ==
    McpTypeOK' <=> /\ stored' \in Connection /\ document' \in Connection
                   /\ keeper' \in RemoteCall \cup Form \cup {Noone}
                   /\ current' \in Shared /\ client' \in [Client -> ClientState]
                   /\ remote' \in [RemoteCall -> RemoteState] /\ form' \in [Form -> FormState]
                   /\ counts' \in Counts /\ history' \in GrantHistory
BY DEF McpTypeOK, Shared, ClientState, CallPlace, CallOutcome, RemoteState, FormPlace, FormState,
       Counts, GrantHistory

RecordIs(r, there, endpoint, on, tokens, pending) ==
    /\ r \in Connection /\ r.there = there /\ r.endpoint = endpoint /\ r.enabled = on
    /\ r.tokens = tokens /\ r.pending = pending

\* A record is its fields.
LEMMA ConnectionFields ==
    ASSUME NEW r \in Connection
    PROVE  /\ r.there \in BOOLEAN /\ r.endpoint \in Endpoint /\ r.enabled \in BOOLEAN
           /\ r.tokens \in Tokens /\ r.pending \in BOOLEAN
           /\ r.tokens.gen \in 0..MaxGrants /\ r.tokens.gen \in Nat
           /\ r.tokens.issued \in Registration \cup {0}
           /\ r.tokens = [gen |-> r.tokens.gen, issued |-> r.tokens.issued]
<1>1. r.tokens \in Tokens
  BY DEF Connection
<1>2. PICK t \in Tokens : t = r.tokens
  BY <1>1
<1>3. t.gen \in 0..MaxGrants /\ t.gen \in Nat /\ t.issued \in Registration \cup {0}
      /\ t = [gen |-> t.gen, issued |-> t.issued]
  BY McpAssumption DEF Tokens
<1> QED  BY <1>2, <1>3 DEF Connection

\* What is not there, and no tokens.
LEMMA AbsentIs ==
    /\ Absent \in Connection /\ Absent.there = FALSE /\ Absent.enabled = FALSE
    /\ Absent.tokens = NoTokens /\ Absent.pending = FALSE /\ Absent.tokens.gen = 0
    /\ NoTokens \in Tokens /\ NoTokens.gen = 0
<1>1. PICK e \in Endpoint : e = CHOOSE x \in Endpoint : TRUE
  BY McpAssumption
<1>2. NoTokens \in Tokens /\ NoTokens.gen = 0
  BY McpAssumption DEF NoTokens, Tokens
<1>3. PICK t \in Tokens : t = NoTokens
  BY <1>2
<1>4. PICK f \in BOOLEAN : f = FALSE
  OBVIOUS
<1>5. PICK r : r = [there |-> f, endpoint |-> e, enabled |-> f, tokens |-> t, pending |-> f]
  OBVIOUS
<1>6. /\ r \in Connection /\ r.there = f /\ r.enabled = f /\ r.tokens = t /\ r.pending = f
  BY ONLY <1>5, e \in Endpoint, f \in BOOLEAN, t \in Tokens DEF Connection
<1>7. Absent = r
  BY <1>1, <1>3, <1>4, <1>5 DEF Absent
<1> QED  BY <1>2, <1>3, <1>4, <1>6, <1>7

\* The record with other permissions pending.
LEMMA PendingIs ==
    ASSUME NEW r \in Connection, NEW f \in BOOLEAN
    PROVE  RecordIs([r EXCEPT !.pending = f], r.there, r.endpoint, r.enabled, r.tokens, f)
BY DEF Connection, RecordIs

\* The record with other tokens.
LEMMA TokensAre ==
    ASSUME NEW r \in Connection, NEW t \in Tokens
    PROVE  RecordIs([r EXCEPT !.tokens = t], r.there, r.endpoint, r.enabled, t, r.pending)
BY DEF Connection, RecordIs

\* Both.
LEMMA GrantIs ==
    ASSUME NEW r \in Connection, NEW t \in Tokens, NEW f \in BOOLEAN
    PROVE  /\ RecordIs([r EXCEPT !.tokens = t, !.pending = f],
                       r.there, r.endpoint, r.enabled, t, f)
           /\ RecordIs([r EXCEPT !.pending = f, !.tokens = t],
                       r.there, r.endpoint, r.enabled, t, f)
BY DEF Connection, RecordIs

\* Another server: no tokens, nothing pending.
LEMMA EndpointIs ==
    ASSUME NEW r \in Connection, NEW e \in Endpoint, NEW t \in Tokens, NEW f \in BOOLEAN
    PROVE  RecordIs([r EXCEPT !.endpoint = e, !.tokens = t, !.pending = f],
                    r.there, e, r.enabled, t, f)
BY DEF Connection, RecordIs

\* same_session is that all but what is pending is the same.
LEMMA SameSession ==
    ASSUME NEW r \in Connection, NEW s \in Connection
    PROVE  same_session(r, s) <=>
             /\ r.there = s.there /\ r.endpoint = s.endpoint /\ r.enabled = s.enabled
             /\ r.tokens = s.tokens
<1>1. PICK f \in BOOLEAN : f = s.pending
  BY ConnectionFields
<1>2. PICK d : d = [r EXCEPT !.pending = f]
  OBVIOUS
<1>3. /\ d \in Connection /\ d.there = r.there /\ d.endpoint = r.endpoint /\ d.enabled = r.enabled
      /\ d.tokens = r.tokens /\ d.pending = f
  BY <1>2, PendingIs DEF RecordIs
<1>4. same_session(r, s) <=> d = s
  BY <1>1, <1>2 DEF same_session
<1>5. d = s <=> /\ d.there = s.there /\ d.endpoint = s.endpoint /\ d.enabled = s.enabled
                /\ d.tokens = s.tokens /\ d.pending = s.pending
  BY <1>3 DEF Connection
<1> QED  BY <1>1, <1>3, <1>4, <1>5

\* It is an equivalence.
LEMMA SessionsAreSame ==
    ASSUME NEW r \in Connection, NEW s \in Connection, NEW t \in Connection
    PROVE  /\ same_session(r, r)
           /\ same_session(r, s) => same_session(s, r)
           /\ same_session(r, s) /\ same_session(s, t) => same_session(r, t)
           /\ same_session(r, s) /\ same_session(r, t) => same_session(s, t)
BY SameSession

CallIs(d, at, conn, k, ran, outcome) ==
    /\ d \in RemoteState /\ d.at = at /\ d.conn = conn /\ d.client = k /\ d.ran = ran
    /\ d.outcome = outcome

\* A call that goes on to another place.
LEMMA CallMoves ==
    ASSUME NEW d \in RemoteState, NEW at \in CallPlace
    PROVE  CallIs([d EXCEPT !.at = at], at, d.conn, d.client, d.ran, d.outcome)
BY DEF RemoteState, CallIs

\* And that takes the record it found.
LEMMA CallFinds ==
    ASSUME NEW d \in RemoteState, NEW at \in CallPlace, NEW r \in Connection
    PROVE  CallIs([d EXCEPT !.at = at, !.conn = r], at, r, d.client, d.ran, d.outcome)
BY DEF RemoteState, CallIs

\* Or a client.
LEMMA CallTakes ==
    ASSUME NEW d \in RemoteState, NEW at \in CallPlace, NEW k \in Client
    PROVE  CallIs([d EXCEPT !.at = at, !.client = k], at, d.conn, k, d.ran, d.outcome)
BY DEF RemoteState, CallIs

\* A call that is done.
LEMMA CallIsDone ==
    ASSUME NEW outcome \in CallOutcome, NEW ran \in 0..2
    PROVE  /\ CallIs(NewCall, "new", Absent, NoClient, 0, "none")
           /\ CallIs([NewCall EXCEPT !.at = "done"], "done", Absent, NoClient, 0, "none")
           /\ CallIs([NewCall EXCEPT !.at = "done", !.outcome = outcome, !.ran = ran],
                     "done", Absent, NoClient, ran, outcome)
           /\ CallIs([NewCall EXCEPT !.at = "done", !.ran = ran, !.outcome = outcome],
                     "done", Absent, NoClient, ran, outcome)
<1>1. PICK r \in Connection : r = Absent
  BY AbsentIs
<1>2. PICK d : d = [at |-> "new", conn |-> r, client |-> NoClient, ran |-> 0, outcome |-> "none"]
  OBVIOUS
<1>3. "new" \in CallPlace /\ "done" \in CallPlace /\ "none" \in CallOutcome /\ 0 \in 0..2
  BY DEF CallPlace, CallOutcome
<1>4. CallIs(d, "new", r, NoClient, 0, "none")
  BY ONLY <1>2, <1>3, r \in Connection DEF RemoteState, CallIs
<1>5. CallIs([d EXCEPT !.at = "done"], "done", r, NoClient, 0, "none")
  BY ONLY <1>3, <1>4 DEF RemoteState, CallIs
<1>6. /\ CallIs([d EXCEPT !.at = "done", !.outcome = outcome, !.ran = ran],
                "done", r, NoClient, ran, outcome)
      /\ CallIs([d EXCEPT !.at = "done", !.ran = ran, !.outcome = outcome],
                "done", r, NoClient, ran, outcome)
  BY ONLY <1>3, <1>4, outcome \in CallOutcome, ran \in 0..2 DEF RemoteState, CallIs
<1>7. NewCall = d
  BY <1>1, <1>2 DEF NewCall
<1> QED  BY <1>1, <1>4, <1>5, <1>6, <1>7

-----------------------------------------------------------------------------
(* What holds of the calls and their clients. *)

\* Where a call's client is the one that was made for its record.
Talks == {"bound", "expired", "again", "challenged"}

\* A call has not run before it is done, and is then told truly.
CallSound(d) ==
    /\ d.at = "done" =>
          /\ d.ran <= 1
          /\ d.outcome \in {"failed", "not_executed"} => d.ran = 0
          /\ d.outcome = "completed" => d.ran = 1
    /\ d.at # "done" => d.ran = 0 /\ d.outcome = "none"
    /\ d.at \in {"queued"} \cup Holding => d.client \in Client
    /\ d.at \in {"new", "listed", "done"} => d.client = NoClient
CallsSound == \A c \in RemoteCall : CallSound(remote[c])

\* No two calls hold the same client.
ClientsApart ==
    \A c, d \in RemoteCall :
       c # d /\ remote[c].at \in Holding /\ remote[d].at \in Holding
         => remote[c].client # remote[d].client

\* The client of a call that talks was made for its record, and the shared one
\* for the record it is shared under.
ClientSound ==
    \A c \in RemoteCall :
       remote[c].at \in Talks => same_session(client[remote[c].client].conn, remote[c].conn)
CurrentSound ==
    current.client # NoClient => same_session(client[current.client].conn, current.conn)

ClientInv ==
    /\ current \in Shared /\ client \in [Client -> ClientState]
    /\ remote \in [RemoteCall -> RemoteState]
    /\ CallsSound /\ ClientsApart /\ ClientSound /\ CurrentSound

\* The places of calls.
LEMMA Places ==
    /\ Talks \subseteq Holding /\ Talks \subseteq CallPlace
    /\ "done" \notin Holding /\ "queued" \notin Holding /\ "listed" \notin Holding
    /\ "new" \notin Holding
BY DEF Talks, Holding, CallPlace

\* A client that is referred to is left as it was made.
LEMMA ReferredAreLeft ==
    ASSUME NEW made \in [Client -> ClientState], NEW e, NEW calls
    PROVE  /\ ClientsLeft(made, e, calls) \in [Client -> ClientState]
           /\ e.client \in Client => ClientsLeft(made, e, calls)[e.client] = made[e.client]
           /\ \A d \in RemoteCall : calls[d].client \in Client
                => ClientsLeft(made, e, calls)[calls[d].client] = made[calls[d].client]
<1>1. Unmade \in ClientState
  <2>1. PICK r \in Connection : r = Absent
    BY AbsentIs
  <2>2. [conn |-> r, mode |-> "none"] \in ClientState
    BY DEF ClientState
  <2> QED  BY <2>1, <2>2 DEF Unmade
<1>2. /\ e.client \in Referred(e, calls)
      /\ \A d \in RemoteCall : calls[d].client \in Referred(e, calls)
  BY DEF Referred
<1> QED  BY <1>1, <1>2 DEF ClientsLeft

\* A call that has no client finds one that nobody refers to.
LEMMA OneIsUnreferred ==
    ASSUME NEW c \in RemoteCall, remote[c].client = NoClient
    PROVE  Unreferred \in Client /\ Unreferred \notin Referred(current, remote)
<1> DEFINE g == [d \in RemoteCall |-> IF d = c THEN current.client ELSE remote[d].client]
           T == {g[d] : d \in RemoteCall}
<1>1. /\ IsFiniteSet(RemoteCall) /\ IsFiniteSet(Client) /\ NoClient \notin Client
      /\ Cardinality(Client) > Cardinality(RemoteCall)
  BY McpAssumption
<1>2. g \in Surjection(RemoteCall, T)
  BY DEF Surjection
<1>3. IsFiniteSet(T) /\ Cardinality(T) <= Cardinality(RemoteCall)
  BY <1>1, <1>2, FS_Surjection
<1>4. ~(Client \subseteq T)
  <2>1. SUFFICES ASSUME Client \subseteq T PROVE FALSE
    OBVIOUS
  <2>2. Cardinality(Client) <= Cardinality(T)
    BY <1>3, <2>1, FS_Subset
  <2>3. Cardinality(Client) \in Nat /\ Cardinality(T) \in Nat /\ Cardinality(RemoteCall) \in Nat
    BY <1>1, <1>3, FS_CardinalityType
  <2> HIDE DEF T
  <2> QED  BY <1>1, <1>3, <2>2, <2>3
<1>5. Referred(current, remote) \subseteq T \cup {NoClient}
  <2>1. current.client \in T
    OBVIOUS
  <2>2. \A d \in RemoteCall : remote[d].client \in T \cup {NoClient}
    OBVIOUS
  <2> QED  BY <2>1, <2>2 DEF Referred
<1>6. \E k \in Client : k \notin Referred(current, remote)
  BY <1>1, <1>4, <1>5
<1> QED  BY <1>6 DEF Unreferred

\* One call goes on: what the others know of their clients is as it was.
LEMMA CallGoesOn ==
    ASSUME ClientInv, NEW c \in RemoteCall, NEW r \in RemoteState,
           remote' = [remote EXCEPT ![c] = r], CallSound(r),
           client' \in [Client -> ClientState], current' \in Shared, CurrentSound',
           r.at \in Holding =>
             \/ remote[c].at \in Holding /\ r.client = remote[c].client
             \/ ClientFree(r.client),
           \A d \in RemoteCall \ {c} : remote[d].at \in Talks
             => client'[remote[d].client].conn = client[remote[d].client].conn,
           r.at \in Talks => same_session(client'[r.client].conn, r.conn)
    PROVE  ClientInv'
<1>1. /\ remote \in [RemoteCall -> RemoteState] /\ CallsSound /\ ClientsApart /\ ClientSound
  BY DEF ClientInv
<1>2. /\ remote' \in [RemoteCall -> RemoteState] /\ remote'[c] = r
      /\ \A d \in RemoteCall \ {c} : remote'[d] = remote[d]
  BY <1>1
<1>3. CallsSound'
  BY <1>1, <1>2 DEF CallsSound, CallSound
<1>4. ClientsApart'
  <2>1. ASSUME NEW d \in RemoteCall \ {c}, remote[d].at \in Holding, r.at \in Holding
        PROVE  remote[d].client # r.client
    BY <1>1, <2>1 DEF ClientsApart, ClientFree
  <2> QED  BY <1>1, <1>2, <2>1 DEF ClientsApart
<1>5. ClientSound'
  <2>1. ASSUME NEW d \in RemoteCall, remote'[d].at \in Talks
        PROVE  same_session(client'[remote'[d].client].conn, remote'[d].conn)
    <3>1. CASE d = c
      BY <1>2, <2>1, <3>1
    <3>2. CASE d # c
      <4>1. PICK x, y : x = client[remote[d].client].conn /\ y = remote[d].conn
        OBVIOUS
      <4>2. same_session(x, y)
        BY <1>1, <1>2, <2>1, <3>2, <4>1 DEF ClientSound
      <4>3. client'[remote'[d].client].conn = x /\ remote'[d].conn = y
        BY <1>2, <2>1, <3>2, <4>1
      <4> QED  BY <4>2, <4>3
    <3> QED  BY <3>1, <3>2
  <2> QED  BY <2>1 DEF ClientSound
<1> QED  BY <1>2, <1>3, <1>4, <1>5 DEF ClientInv

\* The client of a call that talks is made anew for the record of the call; if
\* it is the shared one, that is the record it is shared under.
LEMMA MadeAnew ==
    ASSUME ClientInv, NEW c \in RemoteCall, remote[c].at \in Talks
    PROVE  /\ Anew(c) \in [Client -> ClientState]
           /\ Anew(c)[remote[c].client].conn = remote[c].conn
           /\ \A k \in Client \ {remote[c].client} : Anew(c)[k] = client[k]
           /\ remote[c].client \in Client
           /\ current.client # NoClient => same_session(Anew(c)[current.client].conn, current.conn)
<1>1. /\ remote[c] \in RemoteState /\ remote[c].client \in Client /\ CallSound(remote[c])
      /\ client \in [Client -> ClientState] /\ current \in Shared
  BY Places DEF ClientInv, CallsSound, CallSound
<1>2. PICK r \in Connection : r = remote[c].conn
  BY <1>1 DEF RemoteState
<1>3. PICK k \in Client : k = remote[c].client
  BY <1>1
<1>4. PICK d \in ClientState : d = [conn |-> r, mode |-> "none"]
  BY DEF ClientState
<1>5. Anew(c) = [client EXCEPT ![k] = d] /\ d.conn = r
  BY <1>2, <1>3, <1>4 DEF Anew
<1>6. current.client # NoClient => same_session(Anew(c)[current.client].conn, current.conn)
  <2>1. SUFFICES ASSUME current.client # NoClient
                 PROVE  same_session(Anew(c)[current.client].conn, current.conn)
    OBVIOUS
  <2>2. current.client \in Client /\ current.conn \in Connection
    BY <1>1, <2>1 DEF Shared
  <2>3. PICK x \in Connection, y \in Connection :
           x = client[current.client].conn /\ y = current.conn
    BY <1>1, <2>2 DEF ClientState
  <2>4. same_session(x, y)
    BY <2>1, <2>3 DEF ClientInv, CurrentSound
  <2>5. CASE current.client # k
    <3>1. Anew(c)[current.client].conn = x
      BY <1>1, <1>5, <2>2, <2>3, <2>5
    <3> QED  BY <2>3, <2>4, <3>1
  <2>6. CASE current.client = k
    <3>1. same_session(client[k].conn, remote[c].conn)
      BY <1>3 DEF ClientInv, ClientSound
    <3>2. same_session(x, r)
      BY <1>2, <2>3, <2>6, <3>1
    <3>3. same_session(r, y)
      BY <2>4, <3>2, SessionsAreSame
    <3>4. Anew(c)[current.client].conn = r
      BY <1>1, <1>5, <2>6
    <3> QED  BY <2>3, <3>3, <3>4
  <2> QED  BY <2>5, <2>6
<1> QED  BY <1>1, <1>2, <1>3, <1>5, <1>6

\* A call that holds no client goes on, and clients nobody refers to are dropped.
LEMMA CallLeaves ==
    ASSUME ClientInv, NEW c \in RemoteCall, NEW r \in RemoteState,
           remote' = [remote EXCEPT ![c] = r], r.at \notin Holding, CallSound(r),
           NEW made \in [Client -> ClientState], NEW e \in Shared, current' = e,
           e.client # NoClient => same_session(made[e.client].conn, e.conn),
           \A d \in RemoteCall \ {c} : remote[d].at \in Talks
             => made[remote[d].client].conn = client[remote[d].client].conn,
           client' = ClientsLeft(made, e, remote')
    PROVE  ClientInv'
<1>1. /\ remote \in [RemoteCall -> RemoteState] /\ CallsSound
      /\ \A d \in RemoteCall \ {c} : remote'[d] = remote[d]
  BY DEF ClientInv
<1>2. PICK calls, left : calls = remote' /\ left = ClientsLeft(made, e, calls)
  OBVIOUS
<1>3. /\ left \in [Client -> ClientState]
      /\ e.client \in Client => left[e.client] = made[e.client]
      /\ \A d \in RemoteCall : calls[d].client \in Client
           => left[calls[d].client] = made[calls[d].client]
  <2>1. made \in [Client -> ClientState]
    OBVIOUS
  <2>2. /\ ClientsLeft(made, e, calls) \in [Client -> ClientState]
        /\ e.client \in Client => ClientsLeft(made, e, calls)[e.client] = made[e.client]
        /\ \A d \in RemoteCall : calls[d].client \in Client
             => ClientsLeft(made, e, calls)[calls[d].client] = made[calls[d].client]
    BY ONLY <2>1, ReferredAreLeft
  <2> QED  BY <1>2, <2>2
<1>4. client' = left
  BY <1>2
<1>5. CurrentSound'
  <2>1. e.client # NoClient => same_session(left[e.client].conn, e.conn)
    BY <1>3 DEF Shared
  <2> QED  BY <1>4, <2>1 DEF CurrentSound
<1>6. ASSUME NEW d \in RemoteCall \ {c}, remote[d].at \in Talks
      PROVE  client'[remote[d].client].conn = client[remote[d].client].conn
  <2>1. calls[d] = remote[d]
    BY <1>1, <1>2
  <2>2. PICK k \in Client : k = remote[d].client
    BY <1>1, <1>6, Places DEF CallsSound, CallSound
  <2>3. left[k] = made[k]
    BY <1>3, <2>1, <2>2
  <2>4. made[k].conn = client[k].conn
    BY <1>6, <2>2
  <2> QED  BY <1>4, <2>2, <2>3, <2>4
<1>7. r.at \notin Talks
  BY Places
<1> QED  BY <1>3, <1>4, <1>5, <1>6, <1>7, CallGoesOn

\* A call returns, its client as it was or made anew.
LEMMA CallReturns ==
    ASSUME ClientInv, NEW c \in RemoteCall, NEW r \in RemoteState,
           r.at = "done", CallSound(r), remote' = [remote EXCEPT ![c] = r], current' = current,
           NEW made, made = client \/ (made = Anew(c) /\ remote[c].at \in Talks),
           client' = ClientsLeft(made, current, remote')
    PROVE  ClientInv'
<1>1. /\ client \in [Client -> ClientState] /\ current \in Shared
      /\ CallsSound /\ ClientsApart /\ CurrentSound
  BY DEF ClientInv
<1>2. PICK e \in Shared : e = current
  BY <1>1
<1>3. /\ made \in [Client -> ClientState]
      /\ \A k \in Client : k # remote[c].client \/ remote[c].at \notin Talks => made[k] = client[k]
      /\ e.client # NoClient => same_session(made[e.client].conn, e.conn)
  BY <1>1, <1>2, MadeAnew DEF CurrentSound
<1>4. ASSUME NEW d \in RemoteCall \ {c}, remote[d].at \in Talks
      PROVE  made[remote[d].client].conn = client[remote[d].client].conn
  <2>1. remote[d].client \in Client
    BY <1>1, <1>4, Places DEF CallsSound, CallSound
  <2>2. remote[c].at \in Talks => remote[c].client # remote[d].client
    BY <1>1, <1>4, Places DEF ClientsApart
  <2> QED  BY <1>3, <2>1, <2>2
<1>5. r.at \notin Holding
  BY Places
<1>6. client' = ClientsLeft(made, e, remote')
  BY <1>2
<1> QED  BY <1>2, <1>3, <1>4, <1>5, <1>6, CallLeaves

\* The records of a call.
LEMMA CallFacts ==
    ASSUME ClientInv, NEW c \in RemoteCall
    PROVE  /\ remote[c] \in RemoteState /\ CallSound(remote[c]) /\ remote[c].at \in CallPlace
           /\ remote[c].conn \in Connection /\ remote[c].client \in Client \cup {NoClient}
           /\ remote[c].ran \in 0..2 /\ remote \in [RemoteCall -> RemoteState]
           /\ client \in [Client -> ClientState] /\ current \in Shared
           /\ remote[c].at # "done" => remote[c].ran = 0 /\ remote[c].outcome = "none"
           /\ remote[c].at \in {"queued"} \cup Holding => remote[c].client \in Client
BY DEF ClientInv, CallsSound, CallSound, RemoteState

\* A call goes on and renews no tokens; the others are as they were.
CallPasses(c) ==
    remote'[c].at # "renewing" /\ \A d \in RemoteCall \ {c} : remote'[d].at = remote[d].at

\* A call ends without having run.
LEMMA CallEnds ==
    ASSUME ClientInv, NEW c \in RemoteCall, remote[c].at # "done", current' = current,
           NEW outcome \in {"failed", "not_executed"},
           Ends(c, client, outcome) \/ (Ends(c, Anew(c), outcome) /\ remote[c].at \in Talks)
    PROVE  ClientInv' /\ CallPasses(c)
<1>1. /\ remote \in [RemoteCall -> RemoteState] /\ remote[c].ran = 0
      /\ outcome \in CallOutcome /\ 0 \in 0..2
  BY CallFacts DEF CallOutcome
<1>2. PICK r \in RemoteState : r = [NewCall EXCEPT !.at = "done", !.outcome = outcome, !.ran = 0]
  BY <1>1, CallIsDone DEF CallIs
<1>3. r.at = "done" /\ r.client = NoClient /\ r.ran = 0 /\ r.outcome = outcome
  <2>1. CallIs([NewCall EXCEPT !.at = "done", !.outcome = outcome, !.ran = 0],
               "done", Absent, NoClient, 0, outcome)
    BY <1>1, CallIsDone
  <2>2. CallIs(r, "done", Absent, NoClient, 0, outcome)
    BY <1>2, <2>1
  <2> QED  BY <2>2 DEF CallIs
<1>4. CallSound(r)
  BY <1>3, Places DEF CallSound
<1>5. Ended(c, outcome) = [remote EXCEPT ![c] = r]
  BY <1>1, <1>2 DEF Ended
<1>6. PICK made : /\ made = client \/ (made = Anew(c) /\ remote[c].at \in Talks)
                  /\ Ends(c, made, outcome)
  OBVIOUS
<1>7. remote' = [remote EXCEPT ![c] = r] /\ client' = ClientsLeft(made, current, remote')
  BY <1>5, <1>6 DEF Ends
<1>8. CallPasses(c)
  BY <1>1, <1>3, <1>7 DEF CallPasses
<1> QED  BY <1>3, <1>4, <1>6, <1>7, <1>8, CallReturns

-----------------------------------------------------------------------------
(* The steps of a call, and the clients.                                   *)

\* A call goes on to another place with the client it holds, or with one that is
\* free; no client is made anew.
LEMMA CallMovesOn ==
    ASSUME ClientInv, NEW c \in RemoteCall, NEW place \in CallPlace,
           remote[c].at \in {"queued"} \cup Holding, place \in Holding,
           Moves(c, place), UNCHANGED <<client, current>>,
           remote[c].at \in Holding \/ ClientFree(remote[c].client),
           place \in Talks => remote[c].at \in Talks
    PROVE  /\ ClientInv' /\ remote'[c].at = place
           /\ \A d \in RemoteCall \ {c} : remote'[d].at = remote[d].at
<1>1. /\ remote \in [RemoteCall -> RemoteState] /\ remote[c] \in RemoteState
      /\ client \in [Client -> ClientState] /\ current \in Shared /\ CallSound(remote[c])
      /\ ClientSound /\ CurrentSound
  BY CallFacts DEF ClientInv
<1>2. PICK r \in RemoteState : r = [remote[c] EXCEPT !.at = place]
  BY <1>1, CallMoves DEF CallIs
<1>3. /\ r.at = place /\ r.conn = remote[c].conn /\ r.client = remote[c].client
      /\ r.ran = remote[c].ran /\ r.outcome = remote[c].outcome
  BY <1>1, <1>2 DEF RemoteState
<1>4. remote' = [remote EXCEPT ![c] = r]
  BY <1>1, <1>2 DEF Moves
<1>5. CallSound(r)
  BY <1>1, <1>3, Places DEF CallSound
<1>6. client' \in [Client -> ClientState] /\ current' \in Shared
  BY <1>1
<1>7. CurrentSound'
  BY <1>1 DEF CurrentSound
<1>8. r.at \in Talks => same_session(client'[r.client].conn, r.conn)
  BY <1>1, <1>3 DEF ClientSound
<1>9. \/ remote[c].at \in Holding /\ r.client = remote[c].client
      \/ ClientFree(r.client)
  BY <1>3
<1>10. \A d \in RemoteCall \ {c} : remote[d].at \in Talks
         => client'[remote[d].client].conn = client[remote[d].client].conn
  OBVIOUS
<1>11. ClientInv'
  BY <1>4, <1>5, <1>6, <1>7, <1>8, <1>9, <1>10, CallGoesOn
<1>12. remote'[c].at = place /\ \A d \in RemoteCall \ {c} : remote'[d].at = remote[d].at
  BY <1>1, <1>3, <1>4
<1> QED  BY <1>11, <1>12

\* The record of a call that waits for its client, or negotiates again.
LEMMA AcquiresStep ==
    ASSUME ClientInv, NEW c \in RemoteCall, Acquires(c)
    PROVE  ClientInv' /\ CallPasses(c)
<1>1. "acquired" \in CallPlace /\ "acquired" \in Holding \ {"renewing"} /\ "acquired" \notin Talks
  BY DEF CallPlace, Holding, Talks
<1> QED  BY <1>1, CallMovesOn DEF Acquires, CallPasses

\* A legacy session is negotiated again by the call that holds the client.
LEMMA RenewsSessionStep ==
    ASSUME ClientInv, NEW c \in RemoteCall, RenewsSession(c)
    PROVE  ClientInv' /\ CallPasses(c)
<1>1. "again" \in CallPlace /\ "again" \in Holding \ {"renewing"} /\ "expired" \in Talks
      /\ "expired" \in Holding
  BY DEF CallPlace, Holding, Talks
<1> QED  BY <1>1, CallMovesOn DEF RenewsSession, CallPasses

\* Ends of a call that was cancelled, whose connection failed, or that was
\* challenged.
LEMMA CancelledUnsentStep ==
    ASSUME ClientInv, NEW c \in RemoteCall, CancelledUnsent(c)
    PROVE  ClientInv' /\ CallPasses(c)
<1>1. PICK outcome \in {"failed", "not_executed"} : outcome = "not_executed"
  OBVIOUS
<1>2. {"bound", "expired", "again"} \subseteq Talks
  BY DEF Talks
<1>3. /\ remote[c].at # "done" /\ current' = current
      /\ Ends(c, client, outcome) \/ (Ends(c, Anew(c), outcome) /\ remote[c].at \in Talks)
  BY <1>1, <1>2 DEF CancelledUnsent
<1> QED  BY <1>3, CallEnds

\* A connection fails: nothing of the call was sent, and its client is made anew.
LEMMA ConnectionFailsStep ==
    ASSUME ClientInv, NEW c \in RemoteCall, ConnectionFails(c)
    PROVE  ClientInv' /\ CallPasses(c)
<1>1. PICK outcome \in {"failed", "not_executed"} : outcome = "failed"
  OBVIOUS
<1>2. {"bound", "expired", "again"} \subseteq Talks
  BY DEF Talks
<1>3. /\ remote[c].at # "done" /\ current' = current
      /\ Ends(c, Anew(c), outcome) /\ remote[c].at \in Talks
  BY <1>1, <1>2 DEF ConnectionFails
<1> QED  BY <1>3, CallEnds

\* A challenged call ends; it had not run.
LEMMA RemembersScopeStep ==
    ASSUME ClientInv, NEW c \in RemoteCall, RemembersScope(c)
    PROVE  ClientInv' /\ CallPasses(c)
<1>1. PICK outcome \in {"failed", "not_executed"} : outcome = "failed"
  OBVIOUS
<1>2. "challenged" \in Talks
  BY DEF Talks
<1>3. /\ remote[c].at # "done" /\ current' = current
      /\ Ends(c, Anew(c), outcome) /\ remote[c].at \in Talks
  BY <1>1, <1>2 DEF RemembersScope
<1> QED  BY <1>3, CallEnds

\* A call whose renewal fails, or that is cancelled in it, ends without having run.
LEMMA RenewalFailsStep ==
    ASSUME ClientInv, NEW c \in RemoteCall, RenewalFailsForCall(c)
    PROVE  ClientInv' /\ CallPasses(c)
<1>1. PICK outcome \in {"failed", "not_executed"} : Ends(c, client, outcome)
  BY DEF RenewalFailsForCall
<1>2. remote[c].at # "done" /\ current' = current
  BY DEF RenewalFailsForCall
<1> QED  BY <1>1, <1>2, CallEnds

\* The answer of fresh.
LEMMA GoesOnStep ==
    ASSUME ClientInv, NEW c \in RemoteCall, NEW r \in Connection,
           remote[c].at \in {"acquired", "renewing"}, GoesOn(c, r), current' = current
    PROVE  ClientInv' /\ CallPasses(c)
<1>1. CASE same_target(remote[c].conn, r)
  <2>1. /\ remote' = [remote EXCEPT ![c].at = "fresh", ![c].conn = r] /\ client' = client
    BY <1>1 DEF GoesOn
  <2>2. /\ remote \in [RemoteCall -> RemoteState] /\ remote[c] \in RemoteState
        /\ client \in [Client -> ClientState] /\ current \in Shared /\ CallSound(remote[c])
        /\ CurrentSound
    BY CallFacts DEF ClientInv
  <2>3. /\ "fresh" \in CallPlace /\ "fresh" \in Holding /\ "fresh" \notin Talks
        /\ remote[c].at \in Holding
    BY DEF CallPlace, Holding, Talks
  <2>4. PICK d \in RemoteState : d = [remote[c] EXCEPT !.at = "fresh", !.conn = r]
    BY <2>2, <2>3, CallFinds DEF CallIs
  <2>5. /\ d.at = "fresh" /\ d.conn = r /\ d.client = remote[c].client
        /\ d.ran = remote[c].ran /\ d.outcome = remote[c].outcome
    BY <2>2, <2>4 DEF RemoteState
  <2>6. remote' = [remote EXCEPT ![c] = d]
    BY <2>1, <2>2, <2>4
  <2>7. CallSound(d)
    BY <2>2, <2>3, <2>5 DEF CallSound
  <2>8. CurrentSound'
    BY <2>1, <2>2 DEF CurrentSound
  <2>9. client' \in [Client -> ClientState] /\ current' \in Shared
    BY <2>1, <2>2
  <2>10. \/ remote[c].at \in Holding /\ d.client = remote[c].client
         \/ ClientFree(d.client)
    BY <2>3, <2>5
  <2>11. \A x \in RemoteCall \ {c} : remote[x].at \in Talks
           => client'[remote[x].client].conn = client[remote[x].client].conn
    BY <2>1
  <2>12. d.at \in Talks => same_session(client'[d.client].conn, d.conn)
    BY <2>3, <2>5
  <2>13. ClientInv'
    BY <2>6, <2>7, <2>8, <2>9, <2>10, <2>11, <2>12, CallGoesOn
  <2>14. CallPasses(c)
    BY <2>2, <2>5, <2>6 DEF CallPasses
  <2> QED  BY <2>13, <2>14
<1>2. CASE ~same_target(remote[c].conn, r)
  <2>1. PICK outcome \in {"failed", "not_executed"} : outcome = "failed"
    OBVIOUS
  <2>2. remote[c].at # "done" /\ Ends(c, client, outcome)
    BY <1>2, <2>1 DEF GoesOn
  <2> QED  BY <2>2, CallEnds
<1> QED  BY <1>1, <1>2

\* fresh: the lock may be taken for a renewal.
LEMMA FreshForCallStep ==
    ASSUME ClientInv, stored \in Connection, NEW c \in RemoteCall, FreshForCall(c)
    PROVE  /\ ClientInv'
           /\ \/ CallPasses(c) /\ UNCHANGED <<keeper, document>>
              \/ /\ KeepsStore(c) /\ remote'[c].at = "renewing"
                 /\ \A d \in RemoteCall \ {c} : remote'[d].at = remote[d].at
<1>1. remote[c].at = "acquired" /\ current' = current
  BY DEF FreshForCall
<1>2. CASE Ends(c, client, "failed") /\ UNCHANGED <<keeper, document>>
  <2>1. PICK outcome \in {"failed", "not_executed"} : outcome = "failed"
    OBVIOUS
  <2> QED  BY <1>1, <1>2, <2>1, CallEnds
<1>3. CASE GoesOn(c, stored) /\ UNCHANGED <<keeper, document>>
  <2>1. PICK r \in Connection : r = stored
    OBVIOUS
  <2> QED  BY <1>1, <1>3, <2>1, GoesOnStep
<1>4. CASE KeepsStore(c) /\ Moves(c, "renewing") /\ UNCHANGED client
  <2>1. "renewing" \in CallPlace /\ "renewing" \in Holding /\ "renewing" \notin Talks
        /\ "acquired" \in Holding
    BY DEF CallPlace, Holding, Talks
  <2> QED  BY <1>1, <1>4, <2>1, CallMovesOn
<1> QED  BY <1>2, <1>3, <1>4 DEF FreshForCall

\* What a renewal writes.
LEMMA RenewalIs ==
    ASSUME McpTypeOK, counts.grants < MaxGrants
    PROVE  /\ Renewal \in Connection /\ Renewal.there = document.there
           /\ Renewal.endpoint = document.endpoint /\ Renewal.enabled = document.enabled
           /\ Renewal.pending = document.pending /\ Renewal.tokens.gen = counts.grants + 1
           /\ Renewal.tokens.issued = document.tokens.issued
<1>1. document \in Connection /\ counts.grants \in 0..MaxGrants
  BY McpTypes DEF Counts
<1>2. PICK d \in Connection : d = document
  BY <1>1
<1>3. PICK i \in Registration \cup {0} : i = d.tokens.issued
  BY ConnectionFields
<1>4. PICK n \in 0..MaxGrants : n = counts.grants + 1
  BY <1>1, McpAssumption
<1>5. PICK t \in Tokens : t = [gen |-> n, issued |-> i]
  BY DEF Tokens
<1>6. t.gen = n /\ t.issued = i
  BY <1>5
<1>7. RecordIs([d EXCEPT !.tokens = t], d.there, d.endpoint, d.enabled, t, d.pending)
  BY TokensAre
<1>8. Renewal = [d EXCEPT !.tokens = t]
  BY <1>2, <1>3, <1>4, <1>5 DEF Renewal
<1>9. RecordIs(Renewal, d.there, d.endpoint, d.enabled, t, d.pending)
  BY <1>7, <1>8
<1> QED  BY <1>2, <1>3, <1>4, <1>6, <1>9 DEF RecordIs

\* A call goes on with the record that was renewed for it.
LEMMA RenewsForCallStep ==
    ASSUME McpTypeOK, ClientInv, NEW c \in RemoteCall, RenewsForCall(c)
    PROVE  ClientInv' /\ CallPasses(c)
<1>1. PICK r \in Connection : r = Renewal
  BY RenewalIs DEF RenewsForCall
<1>2. remote[c].at = "renewing" /\ GoesOn(c, r) /\ current' = current
  BY <1>1 DEF RenewsForCall
<1> QED  BY <1>2, GoesOnStep

\* A client is negotiated: it is still of the record it was made for.
LEMMA ConnectsStep ==
    ASSUME ClientInv, NEW c \in RemoteCall, Connects(c)
    PROVE  ClientInv' /\ remote' = remote
<1>1. /\ client \in [Client -> ClientState] /\ current \in Shared /\ CallSound(remote[c])
      /\ CallsSound /\ ClientsApart /\ ClientSound /\ CurrentSound
      /\ remote \in [RemoteCall -> RemoteState]
  BY CallFacts DEF ClientInv
<1>2. remote[c].at = "bound" /\ "bound" \in Holding /\ Talks \subseteq Holding
  BY Places DEF Connects, Holding
<1>3. PICK k \in Client : k = remote[c].client
  BY <1>1, <1>2, CallFacts
<1>4. PICK m \in {"modern", "legacy"} : client' = [client EXCEPT ![k].mode = m]
  BY <1>3 DEF Connects
<1>5. PICK d \in ClientState : d = client[k]
  BY <1>1
<1>6. /\ [d EXCEPT !.mode = m] \in ClientState /\ [d EXCEPT !.mode = m].conn = d.conn
  BY DEF ClientState
<1>7. client' = [client EXCEPT ![k] = [d EXCEPT !.mode = m]]
  BY <1>1, <1>4, <1>5
<1>8. client' \in [Client -> ClientState] /\ \A j \in Client : client'[j].conn = client[j].conn
  BY <1>1, <1>5, <1>6, <1>7
<1>9. remote' = remote /\ current' = current
  BY DEF Connects
<1>10. CallsSound' /\ ClientsApart'
  BY <1>1, <1>9 DEF CallsSound, ClientsApart
<1>11. ClientSound'
  <2>1. ASSUME NEW x \in RemoteCall, remote[x].at \in Talks
        PROVE  client'[remote[x].client].conn = client[remote[x].client].conn
    <3>1. remote[x].client \in Client
      BY <1>2, <2>1, CallFacts
    <3> QED  BY <1>8, <3>1
  <2> QED  BY <1>1, <1>9, <2>1 DEF ClientSound
<1>12. CurrentSound'
  <2>1. current.client # NoClient => client'[current.client].conn = client[current.client].conn
    BY <1>1, <1>8 DEF Shared
  <2> QED  BY <1>1, <1>9, <2>1 DEF CurrentSound
<1> QED  BY <1>1, <1>8, <1>9, <1>10, <1>11, <1>12 DEF ClientInv

\* Runtime::bind: the client of the call is of its record, and so is the shared
\* one when it is the same.
LEMMA BindsStep ==
    ASSUME ClientInv, NEW c \in RemoteCall, Binds(c)
    PROVE  ClientInv' /\ CallPasses(c)
<1>1. /\ client \in [Client -> ClientState] /\ current \in Shared /\ CallSound(remote[c])
      /\ CallsSound /\ ClientsApart /\ ClientSound /\ CurrentSound
      /\ remote \in [RemoteCall -> RemoteState] /\ remote[c] \in RemoteState
  BY CallFacts DEF ClientInv
<1>2. /\ remote[c].at = "fresh" /\ "fresh" \in Holding /\ "bound" \in Holding
      /\ "bound" \in CallPlace
  BY DEF Binds, Holding, CallPlace
<1>3. PICK k \in Client : k = remote[c].client
  BY <1>1, <1>2, CallFacts
<1>4. PICK r \in Connection : r = remote[c].conn
  BY <1>1 DEF RemoteState
<1>5. PICK x \in Connection, j \in Client \cup {NoClient} : x = current.conn /\ j = current.client
  BY <1>1 DEF Shared
<1>6. current = [conn |-> x, client |-> j]
  BY <1>1, <1>5 DEF Shared
<1>7. /\ Anew(c) \in [Client -> ClientState] /\ Anew(c)[k].conn = r
      /\ \A i \in Client \ {k} : Anew(c)[i] = client[i]
  <2>1. PICK d \in ClientState : d = [conn |-> r, mode |-> "none"]
    BY DEF ClientState
  <2>2. Anew(c) = [client EXCEPT ![k] = d] /\ d.conn = r
    BY <1>3, <1>4, <2>1 DEF Anew
  <2> QED  BY <1>1, <2>2
<1>8. /\ client' = IF j # k \/ ~same_session(x, r) THEN Anew(c) ELSE client
      /\ current' = [current EXCEPT !.conn = IF j = k THEN r ELSE x]
  BY <1>3, <1>4, <1>5 DEF Binds, Rebinds
<1>9. /\ client' \in [Client -> ClientState]
      /\ \A i \in Client \ {k} : client'[i] = client[i]
  BY <1>1, <1>7, <1>8
<1>10. PICK y \in Connection : y = IF j = k THEN r ELSE x
  OBVIOUS
<1>11. current' = [conn |-> y, client |-> j]
  BY <1>6, <1>8, <1>10
<1>12. current' \in Shared
  BY <1>11 DEF Shared
<1>13. same_session(client'[k].conn, r)
  <2>1. CASE j # k \/ ~same_session(x, r)
    BY <1>7, <1>8, <2>1, SessionsAreSame
  <2>2. CASE j = k /\ same_session(x, r)
    <3>1. PICK z \in Connection : z = client[k].conn
      BY <1>1 DEF ClientState
    <3>2. same_session(z, x)
      BY <1>1, <1>5, <2>2, <3>1, McpAssumption DEF CurrentSound
    <3>3. same_session(z, r)
      BY <2>2, <3>2, SessionsAreSame
    <3> QED  BY <1>8, <2>2, <3>1, <3>3
  <2> QED  BY <2>1, <2>2
<1>14. CurrentSound'
  <2>1. SUFFICES ASSUME j # NoClient PROVE same_session(client'[j].conn, y)
    BY <1>11 DEF CurrentSound
  <2>2. CASE j = k
    BY <1>10, <1>13, <2>2
  <2>3. CASE j # k
    <3>1. client'[j] = client[j] /\ y = x
      BY <1>9, <1>10, <2>1, <2>3
    <3> QED  BY <1>1, <1>5, <2>1, <3>1 DEF CurrentSound
  <2> QED  BY <2>2, <2>3
<1>15. PICK d \in RemoteState : d = [remote[c] EXCEPT !.at = "bound"]
  BY <1>1, <1>2, CallMoves DEF CallIs
<1>16. /\ d.at = "bound" /\ d.conn = r /\ d.client = k /\ d.ran = remote[c].ran
       /\ d.outcome = remote[c].outcome
  BY <1>1, <1>3, <1>4, <1>15 DEF RemoteState
<1>17. remote' = [remote EXCEPT ![c] = d]
  BY <1>1, <1>15 DEF Binds, Moves
<1>18. CallSound(d)
  BY <1>1, <1>2, <1>16 DEF CallSound
<1>19. \A i \in RemoteCall \ {c} : remote[i].at \in Talks
         => client'[remote[i].client].conn = client[remote[i].client].conn
  <2>1. ASSUME NEW i \in RemoteCall \ {c}, remote[i].at \in Talks
        PROVE  client'[remote[i].client].conn = client[remote[i].client].conn
    <3>1. remote[i].client \in Client /\ remote[i].at \in Holding
      BY <2>1, Places, CallFacts
    <3>2. remote[i].client # k
      BY <1>1, <1>2, <1>3, <3>1 DEF ClientsApart
    <3> QED  BY <1>9, <3>1, <3>2
  <2> QED  BY <2>1
<1>20. \/ remote[c].at \in Holding /\ d.client = remote[c].client
       \/ ClientFree(d.client)
  BY <1>2, <1>3, <1>16
<1>21. d.at \in Talks => same_session(client'[d.client].conn, d.conn)
  BY <1>13, <1>16
<1>22. ClientInv'
  BY <1>9, <1>12, <1>14, <1>17, <1>18, <1>19, <1>20, <1>21, CallGoesOn
<1>23. CallPasses(c)
  BY <1>1, <1>16, <1>17 DEF CallPasses
<1> QED  BY <1>22, <1>23

\* What is sent, and what becomes of it: a call that goes on has not run.
LEMMA CallsStep ==
    ASSUME ClientInv, NEW c \in RemoteCall, Calls(c)
    PROVE  ClientInv' /\ CallPasses(c)
<1>1. /\ client \in [Client -> ClientState] /\ current \in Shared /\ CallSound(remote[c])
      /\ ClientSound /\ CurrentSound /\ current' = current
      /\ remote \in [RemoteCall -> RemoteState] /\ remote[c] \in RemoteState
  BY CallFacts DEF ClientInv, Calls
<1>2. /\ remote[c].at \in Talks /\ remote[c].at # "done" /\ remote[c].at \in Holding
  BY DEF Calls, Talks, Holding
<1>3. remote[c].ran = 0 /\ remote[c].outcome = "none" /\ remote[c].client \in Client
  BY <1>2, CallFacts
<1> DEFINE k == remote[c].client
           now(ran) == [remote EXCEPT ![c].ran = @ + ran]
           done(fate, ran) == [remote EXCEPT ![c] = [NewCall EXCEPT !.at = "done",
                                                                    !.ran = now(ran)[c].ran,
                                                                    !.outcome = Told(fate)]]
           anew(fate) == IF fate = "result" THEN client ELSE Anew(c)
           Times(fate) ==
             IF fate = "result" THEN {1} ELSE IF MayHaveRun(fate) THEN {0, 1} ELSE {0}
           Comes(fate, ran) ==
             CASE remote[c].at = "bound" /\ session_expired(k, fate) ->
                    remote' = [now(ran) EXCEPT ![c].at = "expired"] /\ UNCHANGED client
               [] fate = "challenge" /\ HasTokens(remote[c].conn) ->
                    remote' = [now(ran) EXCEPT ![c].at = "challenged"] /\ UNCHANGED client
               [] OTHER ->
                    /\ remote' = done(fate, ran)
                    /\ client' = ClientsLeft(anew(fate), current, done(fate, ran))
<1>4. PICK fate \in Fate, ran \in 0..1 :
         /\ ran \in Times(fate)
         /\ \/ /\ fate = "missing"
               /\ remote' = [now(ran) EXCEPT ![c].at = "expired"] /\ UNCHANGED client
            \/ /\ fate = "challenge"
               /\ remote' = [now(ran) EXCEPT ![c].at = "challenged"] /\ UNCHANGED client
            \/ /\ remote' = done(fate, ran)
               /\ client' = ClientsLeft(anew(fate), current, done(fate, ran))
  <2>1. PICK fate \in Fate : \E ran \in Times(fate) : Comes(fate, ran)
    BY DEF Calls
  <2>2. PICK ran \in Times(fate) : Comes(fate, ran)
    BY <2>1
  <2>3. ran \in 0..1
    BY <2>2
  <2>4. session_expired(k, fate) => fate = "missing"
    BY DEF session_expired
  <2> HIDE DEF now, done, anew, k, Times
  <2> QED  BY <2>2, <2>3, <2>4
<1>5. /\ now(ran) = [remote EXCEPT ![c] = [remote[c] EXCEPT !.ran = ran]] /\ now(ran)[c].ran = ran
  <2>1. PICK d \in RemoteState : d = remote[c] /\ d.ran = 0
    BY <1>1, <1>3
  <2>2. [d EXCEPT !.ran = @ + ran] = [d EXCEPT !.ran = ran] /\ [d EXCEPT !.ran = ran].ran = ran
    BY <2>1 DEF RemoteState
  <2> QED  BY <1>1, <2>1, <2>2
<1>6. ASSUME NEW place \in {"expired", "challenged"}, ran = 0,
             remote' = [now(ran) EXCEPT ![c].at = place], UNCHANGED client
      PROVE  ClientInv' /\ CallPasses(c)
  <2>1. place \in CallPlace /\ place \in Holding /\ place \in Talks /\ place # "renewing"
    BY DEF CallPlace, Holding, Talks
  <2>2. Moves(c, place)
    <3>1. [remote[c] EXCEPT !.ran = 0] = remote[c]
      BY <1>1, <1>3 DEF RemoteState
    <3>2. now(ran) = remote
      BY <1>1, <1>5, <1>6, <3>1
    <3> QED  BY <1>6, <3>2 DEF Moves
  <2>3. /\ ClientInv' /\ remote'[c].at = place
        /\ \A d \in RemoteCall \ {c} : remote'[d].at = remote[d].at
    BY <1>1, <1>2, <1>6, <2>1, <2>2, CallMovesOn
  <2> QED  BY <2>1, <2>3 DEF CallPasses
<1>7. ASSUME remote' = done(fate, ran), client' = ClientsLeft(anew(fate), current, done(fate, ran))
      PROVE  ClientInv' /\ CallPasses(c)
  <2>1. PICK outcome \in CallOutcome : outcome = Told(fate)
    BY DEF CallOutcome, Told
  <2>2. /\ outcome \in {"failed", "not_executed"} => ran = 0
        /\ outcome = "completed" => ran = 1
    BY <1>4, <2>1 DEF Told, MayHaveRun, Fate
  <2>3. ran \in 0..2
    OBVIOUS
  <2>4. CallIs([NewCall EXCEPT !.at = "done", !.ran = ran, !.outcome = outcome],
               "done", Absent, NoClient, ran, outcome)
    BY <2>3, CallIsDone
  <2>5. PICK r \in RemoteState :
           r = [NewCall EXCEPT !.at = "done", !.ran = ran, !.outcome = outcome]
    BY <2>4 DEF CallIs
  <2>6. r.at = "done" /\ r.client = NoClient /\ r.ran = ran /\ r.outcome = outcome
    BY <2>4, <2>5 DEF CallIs
  <2>7. CallSound(r)
    BY <2>2, <2>6, Places DEF CallSound
  <2>8. done(fate, ran) = [remote EXCEPT ![c] = r]
    BY <1>5, <2>1, <2>5
  <2>9. PICK made : made = anew(fate)
    OBVIOUS
  <2>10. made = client \/ (made = Anew(c) /\ remote[c].at \in Talks)
    BY <1>2, <2>9
  <2>11. remote' = [remote EXCEPT ![c] = r] /\ client' = ClientsLeft(made, current, remote')
    BY <1>7, <2>8, <2>9
  <2>12. ClientInv'
    BY <1>1, <2>6, <2>7, <2>10, <2>11, CallReturns
  <2> QED  BY <1>1, <2>6, <2>11, <2>12 DEF CallPasses
<1>8. fate \in {"missing", "challenge"} => ran = 0
  BY <1>4 DEF MayHaveRun
<1> HIDE DEF now, done, anew, Times, Comes
<1> QED  BY <1>4, <1>6, <1>7, <1>8

\* list: the shared client of a record that is gone, or another, is dropped.
LEMMA ListsStep ==
    ASSUME ClientInv, stored \in Connection, NEW c \in RemoteCall, Lists(c)
    PROVE  ClientInv' /\ CallPasses(c)
<1> DEFINE stale == current.client # NoClient
                 /\ (~stored.there \/ ~stored.enabled \/ ~same_session(stored, current.conn))
           next == IF stale THEN [conn |-> Absent, client |-> NoClient] ELSE current
<1>1. /\ client \in [Client -> ClientState] /\ current \in Shared /\ CallSound(remote[c])
      /\ CurrentSound
      /\ remote \in [RemoteCall -> RemoteState] /\ remote[c] \in RemoteState
  BY CallFacts DEF ClientInv
<1>2. /\ remote[c].at = "new" /\ remote[c].ran = 0 /\ remote[c].outcome = "none"
      /\ remote[c].client = NoClient
  BY <1>1, Places DEF Lists, CallSound
<1>3. PICK e \in Shared : e = next
  <2>1. PICK r \in Connection : r = Absent
    BY AbsentIs
  <2>2. [conn |-> r, client |-> NoClient] \in Shared
    BY DEF Shared
  <2> QED  BY <1>1, <2>1, <2>2
<1>4. e.client # NoClient => e = current
  BY <1>3
<1>5. PICK calls : calls = IF Fails THEN Ended(c, "failed")
                           ELSE [remote EXCEPT ![c].at = "listed", ![c].conn = stored]
  OBVIOUS
<1>6. remote' = calls /\ current' = e /\ client' = ClientsLeft(client, e, calls)
  BY <1>3, <1>5 DEF Lists
<1>7. PICK r \in RemoteState : /\ calls = [remote EXCEPT ![c] = r]
                               /\ r.at \in {"listed", "done"} /\ CallSound(r)
  <2>1. CASE Fails
    <3>1. PICK outcome \in CallOutcome : outcome = "failed"
      BY DEF CallOutcome
    <3>2. CallIs([NewCall EXCEPT !.at = "done", !.outcome = outcome, !.ran = 0],
                 "done", Absent, NoClient, 0, outcome)
      <4>1. 0 \in 0..2
        OBVIOUS
      <4> QED  BY <4>1, CallIsDone
    <3>3. PICK r \in RemoteState :
             r = [NewCall EXCEPT !.at = "done", !.outcome = outcome, !.ran = 0]
      BY <3>2 DEF CallIs
    <3>4. r.at = "done" /\ r.client = NoClient /\ r.ran = 0 /\ r.outcome = outcome
      BY <3>2, <3>3 DEF CallIs
    <3>5. CallSound(r)
      BY <3>1, <3>4, Places DEF CallSound
    <3>6. calls = [remote EXCEPT ![c] = r]
      BY <1>2, <1>5, <2>1, <3>1, <3>3 DEF Ended
    <3> QED  BY <3>4, <3>5, <3>6
  <2>2. CASE ~Fails
    <3>1. PICK s \in Connection : s = stored
      OBVIOUS
    <3>2. "listed" \in CallPlace
      BY DEF CallPlace
    <3>3. CallIs([remote[c] EXCEPT !.at = "listed", !.conn = s], "listed", s, remote[c].client,
                 remote[c].ran, remote[c].outcome)
      BY <1>1, <3>2, CallFinds
    <3>4. PICK r \in RemoteState : r = [remote[c] EXCEPT !.at = "listed", !.conn = s]
      BY <3>3 DEF CallIs
    <3>5. r.at = "listed" /\ r.client = NoClient /\ r.ran = 0 /\ r.outcome = "none"
      BY <1>2, <3>3, <3>4 DEF CallIs
    <3>6. CallSound(r)
      BY <3>5, Places DEF CallSound
    <3>7. calls = [remote EXCEPT ![c] = r]
      BY <1>1, <1>5, <2>2, <3>1, <3>4
    <3> QED  BY <3>5, <3>6, <3>7
  <2> QED  BY <2>1, <2>2
<1>8. r.at \notin Holding /\ r.at # "renewing"
  BY <1>7, Places
<1>9. remote' = [remote EXCEPT ![c] = r]
  BY <1>6, <1>7
<1>10. PICK made \in [Client -> ClientState] : made = client
  BY <1>1
<1>11. e.client # NoClient => same_session(made[e.client].conn, e.conn)
  BY <1>1, <1>4, <1>10 DEF CurrentSound
<1>12. \A d \in RemoteCall \ {c} : remote[d].at \in Talks
         => made[remote[d].client].conn = client[remote[d].client].conn
  BY <1>10
<1>13. client' = ClientsLeft(made, e, remote') /\ current' = e
  BY <1>6, <1>10
<1>14. CallSound(r)
  BY <1>7
<1> HIDE DEF next
<1>15. ClientInv'
  BY <1>8, <1>9, <1>11, <1>12, <1>13, <1>14, CallLeaves
<1> QED  BY <1>1, <1>8, <1>9, <1>15 DEF CallPasses

\* Runtime::client: the client that is shared, or a new one of the call's record.
LEMMA SharesStep ==
    ASSUME ClientInv, NEW c \in RemoteCall, Shares(c)
    PROVE  ClientInv' /\ CallPasses(c)
<1> DEFINE listed == remote[c].conn
           shared == current.client # NoClient /\ same_session(current.conn, listed)
           pick == IF shared THEN current.client ELSE Unreferred
           next == IF shared THEN current ELSE [conn |-> listed, client |-> pick]
           given == IF shared THEN client
                    ELSE [client EXCEPT ![pick] = [conn |-> listed, mode |-> "none"]]
<1>1. /\ client \in [Client -> ClientState] /\ current \in Shared /\ CallSound(remote[c])
      /\ CurrentSound
      /\ remote \in [RemoteCall -> RemoteState] /\ remote[c] \in RemoteState
  BY CallFacts DEF ClientInv
<1>2. /\ remote[c].at = "listed" /\ remote[c].ran = 0 /\ remote[c].outcome = "none"
      /\ remote[c].client = NoClient
  BY <1>1, Places DEF Shares, CallSound
<1>3. PICK k \in Client : /\ k = pick
                          /\ ~shared => k \notin Referred(current, remote)
  <2>1. CASE shared
    BY <1>1, <2>1 DEF Shared
  <2>2. CASE ~shared
    BY <1>2, <2>2, OneIsUnreferred
  <2> QED  BY <2>1, <2>2
<1>4. PICK s \in Connection : s = listed
  BY <1>1 DEF RemoteState
<1>5. PICK e \in Shared : e = next
  <2>1. [conn |-> s, client |-> k] \in Shared
    BY DEF Shared
  <2> QED  BY <1>1, <1>3, <1>4, <2>1
<1>6. PICK x \in ClientState : x = [conn |-> s, mode |-> "none"] /\ x.conn = s
  <2>1. PICK x : x = [conn |-> s, mode |-> "none"]
    OBVIOUS
  <2>2. x \in ClientState /\ x.conn = s
    BY ONLY <2>1, s \in Connection DEF ClientState
  <2> QED  BY <2>1, <2>2
<1>7. PICK made \in [Client -> ClientState] :
         made = IF shared THEN client ELSE [client EXCEPT ![k] = x]
  BY <1>1
<1>8. /\ remote' = [remote EXCEPT ![c].at = "queued", ![c].client = k]
      /\ current' = e /\ client' = ClientsLeft(made, e, remote')
  BY <1>3, <1>4, <1>5, <1>6, <1>7 DEF Shares
<1>9. "queued" \in CallPlace /\ "queued" \notin Holding /\ "queued" # "renewing"
  BY Places DEF CallPlace
<1>10. PICK r \in RemoteState : r = [remote[c] EXCEPT !.at = "queued", !.client = k]
  BY <1>1, <1>9, CallTakes DEF CallIs
<1>11. r.at = "queued" /\ r.client = k /\ r.ran = 0 /\ r.outcome = "none"
  BY <1>1, <1>2, <1>10 DEF RemoteState
<1>12. CallSound(r)
  BY <1>9, <1>11 DEF CallSound
<1>13. remote' = [remote EXCEPT ![c] = r]
  BY <1>1, <1>8, <1>10
<1>14. e.client # NoClient => same_session(made[e.client].conn, e.conn)
  <2>1. CASE shared
    BY <1>1, <1>5, <1>7, <2>1 DEF CurrentSound
  <2>2. CASE ~shared
    <3>1. e.client = k /\ e.conn = s
      BY <1>3, <1>4, <1>5, <2>2
    <3>2. made[k].conn = s
      BY <1>1, <1>6, <1>7, <2>2
    <3> QED  BY <3>1, <3>2, SessionsAreSame
  <2> QED  BY <2>1, <2>2
<1>15. \A d \in RemoteCall \ {c} : remote[d].at \in Talks
         => made[remote[d].client].conn = client[remote[d].client].conn
  <2>1. ASSUME NEW d \in RemoteCall \ {c}, remote[d].at \in Talks
        PROVE  made[remote[d].client].conn = client[remote[d].client].conn
    <3>1. remote[d].client \in Client
      BY <2>1, Places, CallFacts
    <3>2. ~shared => remote[d].client # k
      BY <1>3 DEF Referred
    <3> QED  BY <1>1, <1>7, <3>1, <3>2
  <2> QED  BY <2>1
<1> HIDE DEF next, given, pick, shared
<1>16. r.at \notin Holding /\ client' = ClientsLeft(made, e, remote') /\ current' = e
  BY <1>8, <1>9, <1>11
<1>17. ClientInv'
  BY <1>12, <1>13, <1>14, <1>15, <1>16, CallLeaves
<1> QED  BY <1>1, <1>11, <1>13, <1>17 DEF CallPasses

-----------------------------------------------------------------------------
(* What holds of the record, its lock and the forms. *)

StoreTypes ==
    /\ stored \in Connection /\ document \in Connection
    /\ keeper \in RemoteCall \cup Form \cup {Noone}
    /\ form \in [Form -> FormState] /\ counts \in Counts /\ history \in GrantHistory

\* Who renews tokens holds the lock, and what it read is what is on file.
Renewing(w) ==
    \/ w \in RemoteCall /\ remote[w].at = "renewing"
    \/ w \in Form /\ form[w].at = "renewing"
KeeperSound ==
    /\ keeper # Noone => document = stored
    /\ \A w \in RemoteCall \cup Form : Renewing(w) => keeper = w

PendingSound == history.needed => stored.pending

Draft(f) == form[f].draft.tokens.gen

\* The tokens of a draft are those of its own sign-in.
Own(f) ==
    /\ Draft(f) # 0 /\ Draft(f) # stored.tokens.gen /\ Draft(f) \notin history.replaced
    /\ \A g \in Form \ {f} : Draft(g) # Draft(f)

TokensSound ==
    /\ stored.tokens.gen <= counts.grants /\ stored.tokens.gen \notin history.replaced
    /\ \A n \in history.replaced : n <= counts.grants
    /\ \A f \in Form : Draft(f) <= counts.grants
DraftsSound ==
    \A f \in Form :
       /\ form[f].draft.tokens = form[f].original.tokens \/ Draft(f) = 0 \/ Own(f)
       /\ form[f].guard.there /\ form[f].at # "signing" => Own(f)

\* The draft of a sign-in is of the server it was prepared for, and what was
\* pending there is what its guard says.
GuardsSound ==
    \A f \in Form : form[f].guard.there =>
       /\ form[f].prepared.endpoint = form[f].draft.endpoint
       /\ form[f].draft.endpoint = form[f].guard.endpoint
            => form[f].prepared.pending = form[f].guard.pending

GrantInv == PendingSound /\ TokensSound /\ DraftsSound /\ GuardsSound
StoreInv == StoreTypes /\ KeeperSound /\ GrantInv

\* The numbers there are.
LEMMA Numbers ==
    ASSUME StoreTypes
    PROVE  /\ MaxGrants \in Nat /\ counts.grants \in 0..MaxGrants /\ counts.grants \in Nat
           /\ counts.edits \in 0..MaxEdits
           /\ stored.tokens.gen \in Nat /\ stored.tokens.gen \in 0..MaxGrants
           /\ \A n \in history.replaced : n \in Nat \ {0}
           /\ history.replaced \subseteq 1..MaxGrants /\ history.needed \in BOOLEAN
           /\ \A f \in Form : Draft(f) \in Nat
           /\ \A f \in Form :
                /\ form[f] \in FormState /\ form[f].draft \in Connection
                /\ form[f].original \in Connection /\ form[f].prepared \in Connection
                /\ form[f].guard \in Connection /\ form[f].at \in FormPlace
<1>1. \A f \in Form :
        /\ form[f] \in FormState /\ form[f].draft \in Connection
        /\ form[f].original \in Connection /\ form[f].prepared \in Connection
        /\ form[f].guard \in Connection /\ form[f].at \in FormPlace
  BY DEF StoreTypes, FormState
<1>2. \A f \in Form : Draft(f) \in Nat
  <2>1. ASSUME NEW f \in Form PROVE Draft(f) \in Nat
    <3>1. PICK d \in Connection : d = form[f].draft
      BY <1>1
    <3>2. d.tokens.gen \in Nat
      BY ConnectionFields
    <3> QED  BY <3>1, <3>2 DEF Draft
  <2> QED  BY <2>1
<1>3. stored.tokens.gen \in Nat /\ stored.tokens.gen \in 0..MaxGrants
  BY ConnectionFields DEF StoreTypes
<1>4. MaxGrants \in Nat /\ counts.grants \in 0..MaxGrants /\ counts.edits \in 0..MaxEdits
  BY McpAssumption DEF StoreTypes, Counts
<1>5. history.replaced \subseteq 1..MaxGrants /\ history.needed \in BOOLEAN
  BY DEF StoreTypes, GrantHistory
<1>6. counts.grants \in Nat /\ \A n \in history.replaced : n \in Nat \ {0}
  BY <1>4, <1>5
<1> QED  BY <1>1, <1>2, <1>3, <1>4, <1>5, <1>6

-----------------------------------------------------------------------------
(* The lock. *)

\* Nobody starts a renewal; the record changes only while the lock is free.
LEMMA LockIsKept ==
    ASSUME KeeperSound, keeper' = keeper,
           keeper = Noone \/ UNCHANGED <<document, stored>>,
           \A w \in RemoteCall \cup Form : Renewing(w)' => Renewing(w)
    PROVE  KeeperSound'
BY DEF KeeperSound

\* The lock is taken for a renewal.
LEMMA LockIsTaken ==
    ASSUME KeeperSound, NEW w \in RemoteCall \cup Form, StoreFree, KeepsStore(w), stored' = stored,
           \A v \in RemoteCall \cup Form : v # w /\ Renewing(v)' => Renewing(v)
    PROVE  KeeperSound'
<1>1. \A v \in RemoteCall \cup Form : ~Renewing(v)
  BY McpAssumption DEF KeeperSound, StoreFree
<1>2. keeper' = w /\ document' = stored'
  BY DEF KeepsStore
<1>3. \A v \in RemoteCall \cup Form : Renewing(v)' => keeper' = v
  BY <1>1, <1>2
<1> QED  BY <1>2, <1>3 DEF KeeperSound

\* It is given back at the end of one.
LEMMA LockIsGiven ==
    ASSUME KeeperSound, NEW w \in RemoteCall \cup Form, Renewing(w), GivesStore(w),
           \A v \in RemoteCall \cup Form : Renewing(v)' => v # w /\ Renewing(v)
    PROVE  KeeperSound'
<1>1. keeper = w
  BY DEF KeeperSound
<1>2. keeper' = Noone
  BY <1>1 DEF GivesStore
<1>3. \A v \in RemoteCall \cup Form : ~Renewing(v)'
  BY <1>1 DEF KeeperSound
<1> QED  BY <1>2, <1>3 DEF KeeperSound

-----------------------------------------------------------------------------
(* Tokens and permissions. *)

\* A form keeps what it has, or closes.
GoesOnOrCloses(f) ==
    \/ /\ form'[f].draft = form[f].draft /\ form'[f].original = form[f].original
       /\ form'[f].prepared = form[f].prepared /\ form'[f].guard = form[f].guard
       /\ form[f].at = "signing" => form'[f].at = "signing"
    \/ form'[f] = ClosedForm

\* A form that is closed.
LEMMA ClosedIs ==
    /\ ClosedForm \in FormState /\ ClosedForm.at = "closed" /\ ClosedForm.draft = Absent
    /\ ClosedForm.original = Absent /\ ClosedForm.prepared = Absent /\ ClosedForm.guard = Absent
<1>1. PICK r \in Connection : r = Absent
  BY AbsentIs
<1>2. PICK n : n = [at |-> "closed", draft |-> r, original |-> r, prepared |-> r, guard |-> r]
  OBVIOUS
<1>3. /\ n \in FormState /\ n.at = "closed" /\ n.draft = r /\ n.original = r /\ n.prepared = r
      /\ n.guard = r
  BY ONLY <1>2, r \in Connection DEF FormState, FormPlace
<1>4. ClosedForm = n
  BY <1>1, <1>2 DEF ClosedForm
<1> QED  BY <1>1, <1>3, <1>4

\* The record changes, or only its forms go on.
LEMMA RecordChanges ==
    ASSUME StoreTypes, GrantInv, NEW r \in Connection, stored' = r,
           counts.grants <= counts'.grants, counts'.grants \in Nat,
           history'.needed => r.pending,
           history'.replaced \subseteq history.replaced \cup ({stored.tokens.gen} \ {0}),
           stored.tokens.gen \in history'.replaced => r.tokens.gen # stored.tokens.gen,
           \/ r.tokens.gen \in {0, stored.tokens.gen}
           \/ r.tokens.gen = counts.grants + 1 /\ counts'.grants = counts.grants + 1
           \/ \E f \in Form : Own(f) /\ r.tokens.gen = Draft(f) /\ form'[f] = ClosedForm,
           \A f \in Form : GoesOnOrCloses(f)
    PROVE  GrantInv'
<1>1. /\ counts.grants \in Nat /\ stored.tokens.gen \in Nat /\ r.tokens.gen \in Nat
      /\ \A n \in history.replaced : n \in Nat \ {0}
      /\ \A f \in Form : Draft(f) \in Nat
  BY Numbers, ConnectionFields
<1>2. TokensSound /\ DraftsSound /\ GuardsSound
  BY DEF GrantInv
<1>3. \A f \in Form :
        \/ /\ Draft(f)' = Draft(f) /\ form'[f].draft = form[f].draft
           /\ form'[f].original = form[f].original /\ form'[f].prepared = form[f].prepared
           /\ form'[f].guard = form[f].guard
           /\ form[f].at = "signing" => form'[f].at = "signing"
        \/ /\ form'[f] = ClosedForm /\ Draft(f)' = 0
           /\ form'[f].draft.tokens = form'[f].original.tokens /\ ~form'[f].guard.there
  <2>1. /\ ClosedForm.draft = ClosedForm.original /\ ClosedForm.draft.tokens.gen = 0
        /\ ~ClosedForm.guard.there
    BY ClosedIs, AbsentIs
  <2> QED  BY <2>1 DEF GoesOnOrCloses, Draft
<1>4. \A f \in Form : Draft(f)' = Draft(f) \/ Draft(f)' = 0
  BY <1>3
<1>5. TokensSound'
  <2>1. r.tokens.gen <= counts'.grants
    <3>1. \A f \in Form : Draft(f) <= counts.grants
      BY <1>2 DEF TokensSound
    <3>2. stored.tokens.gen <= counts.grants
      BY <1>2 DEF TokensSound
    <3> QED  BY <1>1, <3>1, <3>2
  <2>2. r.tokens.gen \notin history'.replaced
    <3>1. CASE r.tokens.gen = 0
      BY <1>1, <3>1
    <3>2. CASE r.tokens.gen = stored.tokens.gen
      BY <3>2
    <3>3. CASE r.tokens.gen = counts.grants + 1
      BY <1>1, <1>2, <3>3 DEF TokensSound
    <3>4. CASE \E f \in Form : Own(f) /\ r.tokens.gen = Draft(f)
      BY <3>4 DEF Own
    <3> QED  BY <3>1, <3>2, <3>3, <3>4
  <2>3. \A n \in history'.replaced : n <= counts'.grants
    BY <1>1, <1>2 DEF TokensSound
  <2>4. \A f \in Form : Draft(f)' <= counts'.grants
    BY <1>1, <1>2, <1>4 DEF TokensSound
  <2>5. stored'.tokens.gen = r.tokens.gen
    OBVIOUS
  <2> QED  BY <2>1, <2>2, <2>3, <2>4, <2>5 DEF TokensSound
<1>6. ASSUME NEW f \in Form, Own(f), form'[f] # ClosedForm
      PROVE  Own(f)'
  <2>1. Draft(f)' = Draft(f) /\ Draft(f) # 0
    BY <1>3, <1>6 DEF Own
  <2>2. Draft(f) # r.tokens.gen
    <3>1. CASE r.tokens.gen \in {0, stored.tokens.gen}
      BY <1>6, <3>1 DEF Own
    <3>2. CASE r.tokens.gen = counts.grants + 1
      BY <1>1, <1>2, <3>2 DEF TokensSound
    <3>3. CASE \E g \in Form : Own(g) /\ r.tokens.gen = Draft(g) /\ form'[g] = ClosedForm
      BY <1>6, <3>3 DEF Own
    <3> QED  BY <3>1, <3>2, <3>3
  <2>3. Draft(f) \notin history'.replaced
    BY <1>6 DEF Own
  <2>4. \A g \in Form \ {f} : Draft(g)' # Draft(f)
    BY <1>4, <1>6, <2>1 DEF Own
  <2>5. stored'.tokens.gen = r.tokens.gen
    OBVIOUS
  <2> QED  BY <2>1, <2>2, <2>3, <2>4, <2>5 DEF Own
<1>7. DraftsSound'
  <2>1. ASSUME NEW f \in Form
        PROVE  /\ form'[f].draft.tokens = form'[f].original.tokens \/ Draft(f)' = 0 \/ Own(f)'
               /\ form'[f].guard.there /\ form'[f].at # "signing" => Own(f)'
    <3>1. CASE form'[f] = ClosedForm
      <4>1. ClosedForm.draft = ClosedForm.original /\ ~ClosedForm.guard.there
        BY ClosedIs, AbsentIs
      <4> QED  BY <3>1, <4>1
    <3>2. CASE form'[f] # ClosedForm
      <4>1. /\ form'[f].draft = form[f].draft /\ form'[f].original = form[f].original
            /\ form'[f].guard = form[f].guard /\ Draft(f)' = Draft(f)
            /\ form'[f].at # "signing" => form[f].at # "signing"
        BY <1>3, <3>2
      <4>2. /\ form[f].draft.tokens = form[f].original.tokens \/ Draft(f) = 0 \/ Own(f)
            /\ form[f].guard.there /\ form[f].at # "signing" => Own(f)
        BY <1>2 DEF DraftsSound
      <4>3. Own(f) => Own(f)'
        BY <1>6, <3>2
      <4> QED  BY <4>1, <4>2, <4>3
    <3> QED  BY <3>1, <3>2
  <2> QED  BY <2>1 DEF DraftsSound
<1>8. GuardsSound'
  BY <1>2, <1>3 DEF GuardsSound
<1>9. PendingSound'
  BY DEF PendingSound
<1> QED  BY <1>5, <1>7, <1>8, <1>9 DEF GrantInv

\* The tokens of a draft are those of a sign-in of its own, a form having become n.
OwnAs(f, n) ==
    LET gen == n.draft.tokens.gen
    IN /\ gen # 0 /\ gen # stored.tokens.gen /\ gen \notin history.replaced
       /\ \A g \in Form \ {f} : Draft(g) # gen

\* One form becomes another draft; the record is as it was.
LEMMA FormChanges ==
    ASSUME StoreTypes, GrantInv, NEW f \in Form, NEW n \in FormState,
           form' = [form EXCEPT ![f] = n], UNCHANGED <<stored, history>>,
           counts.grants <= counts'.grants, counts'.grants \in Nat,
           \/ n.draft.tokens.gen \in {0, Draft(f), stored.tokens.gen}
           \/ n.draft.tokens.gen = counts.grants + 1 /\ counts'.grants = counts.grants + 1,
           n.draft.tokens = n.original.tokens \/ n.draft.tokens.gen = 0 \/ OwnAs(f, n),
           n.guard.there /\ n.at # "signing" => OwnAs(f, n),
           n.guard.there =>
             /\ n.prepared.endpoint = n.draft.endpoint
             /\ n.draft.endpoint = n.guard.endpoint => n.prepared.pending = n.guard.pending
    PROVE  GrantInv'
<1>1. /\ counts.grants \in Nat /\ stored.tokens.gen \in Nat
      /\ \A m \in history.replaced : m \in Nat \ {0}
      /\ \A g \in Form : Draft(g) \in Nat
  BY Numbers
<1>2. n.draft.tokens.gen \in Nat
  BY <1>1
<1>3. TokensSound /\ DraftsSound /\ GuardsSound /\ PendingSound
  BY DEF GrantInv
<1>4. /\ form'[f] = n /\ Draft(f)' = n.draft.tokens.gen
      /\ \A g \in Form \ {f} : form'[g] = form[g] /\ Draft(g)' = Draft(g)
  BY DEF StoreTypes, Draft
<1>5. TokensSound'
  BY <1>1, <1>2, <1>3, <1>4 DEF TokensSound
<1>6. OwnAs(f, n) => Own(f)'
  BY <1>4 DEF Own, OwnAs
<1>7. ASSUME NEW g \in Form \ {f}, Own(g)
      PROVE  Own(g)'
  <2>1. Draft(g)' = Draft(g)
    BY <1>4
  <2>2. Draft(g) # n.draft.tokens.gen
    BY <1>1, <1>3, <1>7 DEF Own, TokensSound
  <2> QED  BY <1>4, <1>7, <2>1, <2>2 DEF Own
<1>8. DraftsSound'
  <2>1. ASSUME NEW g \in Form
        PROVE  /\ form'[g].draft.tokens = form'[g].original.tokens \/ Draft(g)' = 0 \/ Own(g)'
               /\ form'[g].guard.there /\ form'[g].at # "signing" => Own(g)'
    <3>1. CASE g = f
      BY <1>4, <1>6, <3>1
    <3>2. CASE g # f
      BY <1>3, <1>4, <1>7, <3>2 DEF DraftsSound
    <3> QED  BY <3>1, <3>2
  <2> QED  BY <2>1 DEF DraftsSound
<1>9. GuardsSound'
  BY <1>3, <1>4 DEF GuardsSound
<1>10. PendingSound'
  BY <1>3 DEF PendingSound
<1> QED  BY <1>5, <1>8, <1>9, <1>10 DEF GrantInv

-----------------------------------------------------------------------------
(* The steps of a call, and the store.                                     *)

\* The types of all variables, by their parts.
LEMMA TypesOfParts ==
    /\ StoreTypes /\ ClientInv => McpTypeOK
    /\ (StoreTypes /\ ClientInv)' => McpTypeOK'
BY McpTypes, NextMcpTypes DEF StoreTypes, ClientInv

\* The record, the forms and the counts as they were.
LEMMA GrantsUnchanged ==
    ASSUME GrantInv, UNCHANGED <<stored, form, counts, history>>
    PROVE  GrantInv'
BY DEF GrantInv, PendingSound, TokensSound, DraftsSound, GuardsSound, Own, Draft

\* The types of the record, its lock and the forms stay.
LEMMA TypesUnchanged ==
    ASSUME StoreTypes, UNCHANGED <<stored, form, counts, history>>,
           UNCHANGED <<keeper, document>>
    PROVE  StoreTypes'
BY DEF StoreTypes

\* No renewal starts in a step of a call that renews no tokens.
LEMMA NoneRenews ==
    ASSUME NEW c \in RemoteCall, CallPasses(c) \/ remote' = remote,
           \A f \in Form : form'[f].at = "renewing" => form[f].at = "renewing"
    PROVE  \A w \in RemoteCall \cup Form : Renewing(w)' => Renewing(w)
BY DEF Renewing, CallPasses

\* A call goes on, on its own.
LEMMA QuietCall ==
    ASSUME StoreInv, NEW c \in RemoteCall, CallPasses(c) \/ remote' = remote,
           UNCHANGED <<stored, form, counts, history>>, UNCHANGED <<keeper, document>>
    PROVE  StoreInv'
<1>1. StoreTypes' /\ GrantInv'
  BY TypesUnchanged, GrantsUnchanged DEF StoreInv
<1>2. \A w \in RemoteCall \cup Form : Renewing(w)' => Renewing(w)
  BY NoneRenews
<1>3. KeeperSound'
  BY <1>2, LockIsKept DEF StoreInv
<1> QED  BY <1>1, <1>3 DEF StoreInv

\* fresh takes the lock for a call.
LEMMA FreshForCallStore ==
    ASSUME StoreInv, ClientInv, NEW c \in RemoteCall, FreshForCall(c)
    PROVE  StoreInv'
<1>1. UNCHANGED <<stored, form, counts, history>>
  BY DEF FreshForCall
<1>2. CASE CallPasses(c) /\ UNCHANGED <<keeper, document>>
  BY <1>1, <1>2, QuietCall
<1>3. CASE /\ KeepsStore(c) /\ remote'[c].at = "renewing"
           /\ \A d \in RemoteCall \ {c} : remote'[d].at = remote[d].at
  <2>1. StoreFree
    BY DEF FreshForCall
  <2>2. \A v \in RemoteCall \cup Form : v # c /\ Renewing(v)' => Renewing(v)
    BY <1>1, <1>3 DEF Renewing
  <2>3. c \in RemoteCall \cup Form
    OBVIOUS
  <2>4. KeeperSound'
    BY <1>1, <1>3, <2>1, <2>2, <2>3, LockIsTaken DEF StoreInv
  <2>5. StoreTypes'
    BY <1>1, <1>3 DEF KeepsStore, StoreInv, StoreTypes
  <2> QED  BY <1>1, <2>4, <2>5, GrantsUnchanged DEF StoreInv
<1>4. stored \in Connection
  BY DEF StoreInv, StoreTypes
<1> QED  BY <1>2, <1>3, <1>4, FreshForCallStep

\* A renewal is written: its tokens are the newest, the rest is what is on file.
LEMMA RenewalIsWritten ==
    ASSUME StoreInv, ClientInv, NEW w \in RemoteCall \cup Form, Renewing(w), Renews(w),
           counts.grants < MaxGrants, form' \in [Form -> FormState],
           \A f \in Form : GoesOnOrCloses(f),
           \A v \in RemoteCall \cup Form : Renewing(v)' => v # w /\ Renewing(v)
    PROVE  StoreInv'
<1>1. StoreTypes /\ KeeperSound /\ GrantInv /\ McpTypeOK
  BY TypesOfParts DEF StoreInv
<1>2. PICK r \in Connection : r = Renewal
  BY <1>1, RenewalIs
<1>3. document = stored
  BY <1>1, McpAssumption DEF KeeperSound
<1>4. /\ r.there = stored.there /\ r.endpoint = stored.endpoint /\ r.pending = stored.pending
      /\ r.tokens.gen = counts.grants + 1
  BY <1>1, <1>2, <1>3, RenewalIs
<1>5. stored' = r /\ GivesStore(w) /\ Becomes(r) /\ counts' = [counts EXCEPT !.grants = @ + 1]
  BY <1>2 DEF Renews, Becomes
<1>6. /\ counts.grants \in Nat /\ stored.tokens.gen \in Nat /\ counts.grants \in 0..MaxGrants
      /\ MaxGrants \in Nat /\ history.replaced \subseteq 1..MaxGrants /\ history.needed \in BOOLEAN
      /\ stored.tokens.gen \in 0..MaxGrants
  BY <1>1, Numbers
<1>7. counts' \in Counts /\ counts'.grants = counts.grants + 1
  BY <1>1, <1>5, <1>6 DEF StoreTypes, Counts
<1>8. /\ history'.needed => history.needed
      /\ history'.replaced \subseteq history.replaced \cup ({stored.tokens.gen} \ {0})
      /\ history' \in GrantHistory
  <2>1. PICK h : h = history.replaced \cup {stored.tokens.gen}
    OBVIOUS
  <2>2. PICK b \in BOOLEAN :
           b = (history.needed /\ r.there /\ HasTokens(r) /\ r.endpoint = stored.endpoint)
    OBVIOUS
  <2>3. PICK s : s = IF HasTokens(stored) /\ r.tokens # stored.tokens
                     THEN history.replaced \cup {stored.tokens.gen} ELSE history.replaced
    OBVIOUS
  <2>4. history' = [needed |-> b, replaced |-> s]
    BY <1>5, <2>2, <2>3 DEF Becomes
  <2>5. s \subseteq history.replaced \cup ({stored.tokens.gen} \ {0})
    BY <2>3 DEF HasTokens
  <2>6. s \in SUBSET (1..MaxGrants)
    BY <1>6, <2>5
  <2>7. history' \in GrantHistory /\ history'.needed = b /\ history'.replaced = s
    BY ONLY <2>4, <2>6, b \in BOOLEAN DEF GrantHistory
  <2> QED  BY <2>2, <2>5, <2>7
<1>9. r.tokens.gen # stored.tokens.gen
  BY <1>1, <1>4, <1>6 DEF GrantInv, TokensSound
<1>10. GrantInv'
  <2>1. history'.needed => r.pending
    BY <1>1, <1>4, <1>8 DEF GrantInv, PendingSound
  <2>2. counts.grants <= counts'.grants /\ counts'.grants \in Nat
    BY <1>6, <1>7
  <2>3. history'.replaced \subseteq history.replaced \cup ({stored.tokens.gen} \ {0})
    BY <1>8
  <2> QED  BY <1>1, <1>4, <1>5, <1>7, <1>9, <2>1, <2>2, <2>3, RecordChanges
<1>11. KeeperSound'
  BY <1>1, <1>5, LockIsGiven
<1>12. StoreTypes'
  <2>1. keeper' \in RemoteCall \cup Form \cup {Noone} /\ document' \in Connection
    BY <1>1, <1>5, AbsentIs DEF GivesStore, StoreTypes
  <2> QED  BY <1>5, <1>7, <1>8, <2>1 DEF StoreTypes
<1> QED  BY <1>10, <1>11, <1>12 DEF StoreInv

\* A renewal of a call is written.
LEMMA RenewsForCallStore ==
    ASSUME StoreInv, ClientInv, NEW c \in RemoteCall, RenewsForCall(c)
    PROVE  StoreInv'
<1>1. /\ Renewing(c) /\ Renews(c) /\ counts.grants < MaxGrants /\ form' = form
      /\ c \in RemoteCall \cup Form /\ c \notin Form
  BY McpAssumption DEF RenewsForCall, Renewing
<1>2. CallPasses(c)
  BY RenewsForCallStep, TypesOfParts DEF StoreInv
<1>3. \A v \in RemoteCall \cup Form : Renewing(v)' => v # c /\ Renewing(v)
  BY <1>1, <1>2 DEF Renewing, CallPasses
<1>4. form' \in [Form -> FormState] /\ \A f \in Form : GoesOnOrCloses(f)
  BY <1>1 DEF StoreInv, StoreTypes, GoesOnOrCloses
<1> QED  BY <1>1, <1>3, <1>4, RenewalIsWritten

\* The lock is given back without a renewal.
LEMMA RenewalFailsForCallStore ==
    ASSUME StoreInv, ClientInv, NEW c \in RemoteCall, RenewalFailsForCall(c)
    PROVE  StoreInv'
<1>1. /\ Renewing(c) /\ GivesStore(c) /\ UNCHANGED <<stored, form, counts, history>>
      /\ c \in RemoteCall \cup Form /\ c \notin Form
  BY McpAssumption DEF RenewalFailsForCall, Renewing
<1>2. CallPasses(c)
  BY RenewalFailsStep
<1>3. \A v \in RemoteCall \cup Form : Renewing(v)' => v # c /\ Renewing(v)
  BY <1>1, <1>2 DEF Renewing, CallPasses
<1>4. KeeperSound'
  BY <1>1, <1>3, LockIsGiven DEF StoreInv
<1>5. StoreTypes'
  BY <1>1, AbsentIs DEF StoreInv, StoreTypes, GivesStore
<1> QED  BY <1>1, <1>4, <1>5, GrantsUnchanged DEF StoreInv

\* require_scope: the permissions become pending.
LEMMA RemembersScopeStore ==
    ASSUME StoreInv, ClientInv, NEW c \in RemoteCall, RemembersScope(c)
    PROVE  StoreInv'
<1>1. CallPasses(c) /\ UNCHANGED <<keeper, document, form, counts>>
  BY RemembersScopeStep DEF RemembersScope
<1>2. \A w \in RemoteCall \cup Form : Renewing(w)' => Renewing(w)
  BY <1>1, NoneRenews
<1>3. CASE UNCHANGED <<stored, history>>
  BY <1>1, <1>3, QuietCall
<1>4. CASE /\ StoreFree
           /\ stored' = [stored EXCEPT !.pending = TRUE]
           /\ history' = [history EXCEPT !.needed = TRUE]
  <2>1. StoreTypes /\ KeeperSound /\ GrantInv
    BY DEF StoreInv
  <2>2. PICK s \in Connection : s = stored
    BY <2>1 DEF StoreTypes
  <2>3. PICK b \in BOOLEAN : b = TRUE
    OBVIOUS
  <2>4. PICK r \in Connection : r = [s EXCEPT !.pending = b] /\ r.tokens = s.tokens /\ r.pending = b
    BY PendingIs DEF RecordIs
  <2>5. stored' = r
    BY <1>4, <2>2, <2>3, <2>4
  <2>6. history' \in GrantHistory /\ history'.replaced = history.replaced
    <3>1. history \in GrantHistory
      BY <2>1 DEF StoreTypes
    <3>2. PICK h \in GrantHistory : h = history
      BY <3>1
    <3>3. /\ [h EXCEPT !.needed = b] \in GrantHistory
          /\ [h EXCEPT !.needed = b].replaced = h.replaced
      BY ONLY h \in GrantHistory, b \in BOOLEAN DEF GrantHistory
    <3>4. history' = [h EXCEPT !.needed = b]
      BY <1>4, <2>3, <3>2
    <3> QED  BY <3>2, <3>3, <3>4
  <2>7. StoreTypes'
    BY <1>1, <2>1, <2>5, <2>6 DEF StoreTypes
  <2>8. KeeperSound'
    BY <1>1, <1>2, <1>4, <2>1, LockIsKept DEF StoreFree
  <2>9. GrantInv'
    <3>1. stored.tokens.gen \notin history'.replaced
      BY <2>1, <2>6 DEF GrantInv, TokensSound
    <3>2. history'.needed => r.pending
      BY <2>3, <2>4
    <3>3. counts.grants <= counts'.grants /\ counts'.grants \in Nat
      BY <1>1, <2>1, Numbers
    <3>4. history'.replaced \subseteq history.replaced \cup ({stored.tokens.gen} \ {0})
      BY <2>6
    <3>5. r.tokens.gen \in {0, stored.tokens.gen}
      BY <2>2, <2>4
    <3>6. \A f \in Form : GoesOnOrCloses(f)
      BY <1>1 DEF GoesOnOrCloses
    <3> QED  BY <2>1, <2>5, <3>1, <3>2, <3>3, <3>4, <3>5, <3>6, RecordChanges
  <2> QED  BY <2>7, <2>8, <2>9 DEF StoreInv
<1> QED  BY <1>1, <1>3, <1>4 DEF RemembersScope

\* A step of a call.
LEMMA CallStepKeeps ==
    ASSUME StoreInv, ClientInv, NEW c \in RemoteCall, CallStep(c)
    PROVE  StoreInv' /\ ClientInv'
<1>1. stored \in Connection /\ McpTypeOK
  BY TypesOfParts DEF StoreInv, StoreTypes
<1>2. CASE Lists(c)
  <2>1. UNCHANGED <<stored, form, counts, history>> /\ UNCHANGED <<keeper, document>>
    BY <1>2 DEF Lists
  <2> QED  BY <1>1, <1>2, <2>1, ListsStep, QuietCall
<1>3. CASE Shares(c)
  <2>1. UNCHANGED <<stored, form, counts, history>> /\ UNCHANGED <<keeper, document>>
    BY <1>3 DEF Shares
  <2> QED  BY <1>3, <2>1, SharesStep, QuietCall
<1>4. CASE Acquires(c)
  <2>1. UNCHANGED <<stored, form, counts, history>> /\ UNCHANGED <<keeper, document>>
    BY <1>4 DEF Acquires
  <2> QED  BY <1>4, <2>1, AcquiresStep, QuietCall
<1>5. CASE CancelledUnsent(c)
  <2>1. UNCHANGED <<stored, form, counts, history>> /\ UNCHANGED <<keeper, document>>
    BY <1>5 DEF CancelledUnsent
  <2> QED  BY <1>5, <2>1, CancelledUnsentStep, QuietCall
<1>6. CASE FreshForCall(c)
  BY <1>1, <1>6, FreshForCallStep, FreshForCallStore
<1>7. CASE RenewsForCall(c)
  BY <1>1, <1>7, RenewsForCallStep, RenewsForCallStore
<1>8. CASE RenewalFailsForCall(c)
  BY <1>8, RenewalFailsStep, RenewalFailsForCallStore
<1>9. CASE Binds(c)
  <2>1. UNCHANGED <<stored, form, counts, history>> /\ UNCHANGED <<keeper, document>>
    BY <1>9 DEF Binds
  <2> QED  BY <1>9, <2>1, BindsStep, QuietCall
<1>10. CASE Connects(c)
  <2>1. UNCHANGED <<stored, form, counts, history>> /\ UNCHANGED <<keeper, document>>
    BY <1>10 DEF Connects
  <2> QED  BY <1>10, <2>1, ConnectsStep, QuietCall
<1>11. CASE ConnectionFails(c)
  <2>1. UNCHANGED <<stored, form, counts, history>> /\ UNCHANGED <<keeper, document>>
    BY <1>11 DEF ConnectionFails
  <2> QED  BY <1>11, <2>1, ConnectionFailsStep, QuietCall
<1>12. CASE Calls(c)
  <2>1. UNCHANGED <<stored, form, counts, history>> /\ UNCHANGED <<keeper, document>>
    BY <1>12 DEF Calls
  <2> QED  BY <1>12, <2>1, CallsStep, QuietCall
<1>13. CASE RenewsSession(c)
  <2>1. UNCHANGED <<stored, form, counts, history>> /\ UNCHANGED <<keeper, document>>
    BY <1>13 DEF RenewsSession
  <2> QED  BY <1>13, <2>1, RenewsSessionStep, QuietCall
<1>14. CASE RemembersScope(c)
  BY <1>14, RemembersScopeStep, RemembersScopeStore
<1> QED  BY <1>2, <1>3, <1>4, <1>5, <1>6, <1>7, <1>8, <1>9, <1>10, <1>11, <1>12, <1>13, <1>14
         DEF CallStep

-----------------------------------------------------------------------------
(* The steps of a form.                                                    *)

\* The calls as they were.
LEMMA ClientsUnchanged ==
    ASSUME ClientInv, UNCHANGED <<current, client, remote>>
    PROVE  ClientInv'
BY DEF ClientInv, CallsSound, ClientsApart, ClientSound, CurrentSound

\* The other forms as they were, and one that starts no renewal.
LEMMA NoFormRenews ==
    ASSUME StoreTypes, NEW f \in Form, NEW n, form' = [form EXCEPT ![f] = n],
           n.at = "renewing" => form[f].at = "renewing", remote' = remote
    PROVE  \A w \in RemoteCall \cup Form : Renewing(w)' => Renewing(w)
BY DEF Renewing, StoreTypes

FormIs(n, at, draft, original, prepared, guard) ==
    /\ n \in FormState /\ n.at = at /\ n.draft = draft /\ n.original = original
    /\ n.prepared = prepared /\ n.guard = guard

\* A form that goes on to another place, with another draft or guard.
LEMMA FormGoesOn ==
    ASSUME NEW n \in FormState, NEW at \in FormPlace, NEW r \in Connection, NEW s \in Connection
    PROVE  /\ FormIs([n EXCEPT !.at = at], at, n.draft, n.original, n.prepared, n.guard)
           /\ FormIs([n EXCEPT !.draft = r, !.guard = s], n.at, r, n.original, n.prepared, s)
           /\ FormIs([n EXCEPT !.guard = s], n.at, n.draft, n.original, n.prepared, s)
           /\ FormIs([n EXCEPT !.at = at, !.prepared = r, !.guard = s],
                     at, n.draft, n.original, r, s)
           /\ FormIs([n EXCEPT !.at = at, !.draft = r], at, r, n.original, n.prepared, n.guard)
           /\ FormIs([n EXCEPT !.at = at, !.draft = r, !.original = r],
                     at, r, r, n.prepared, n.guard)
BY DEF FormState, FormIs

\* A form goes on to another place, and nothing else happens.
LEMMA FormMovesOn ==
    ASSUME StoreTypes, NEW f \in Form, NEW place \in FormPlace, FormMoves(f, place),
           form[f].at # "signing"
    PROVE  /\ form' \in [Form -> FormState] /\ form'[f].at = place
           /\ \A g \in Form \ {f} : form'[g] = form[g]
           /\ \A g \in Form : GoesOnOrCloses(g)
<1>1. form \in [Form -> FormState] /\ form[f] \in FormState
  BY DEF StoreTypes
<1>2. PICK n \in FormState : n = [form[f] EXCEPT !.at = place]
  <2>1. Absent \in Connection
    BY AbsentIs
  <2>2. FormIs([form[f] EXCEPT !.at = place], place, form[f].draft, form[f].original,
               form[f].prepared, form[f].guard)
    BY <1>1, <2>1, FormGoesOn
  <2> QED  BY <2>2 DEF FormIs
<1>3. /\ n.at = place /\ n.draft = form[f].draft /\ n.original = form[f].original
      /\ n.prepared = form[f].prepared /\ n.guard = form[f].guard
  BY <1>1, <1>2 DEF FormState
<1>4. form' = [form EXCEPT ![f] = n]
  BY <1>1, <1>2 DEF FormMoves
<1> QED  BY <1>1, <1>3, <1>4 DEF GoesOnOrCloses

\* A form closes.
LEMMA FormCloses ==
    ASSUME StoreTypes, NEW f \in Form, Closes(f)
    PROVE  /\ form' \in [Form -> FormState] /\ form'[f] = ClosedForm
           /\ \A g \in Form \ {f} : form'[g] = form[g]
           /\ \A g \in Form : GoesOnOrCloses(g)
BY ClosedIs DEF StoreTypes, Closes, GoesOnOrCloses

\* Only forms go on or close.
LEMMA QuietForms ==
    ASSUME StoreInv, form' \in [Form -> FormState], \A g \in Form : GoesOnOrCloses(g),
           \A g \in Form : form'[g].at = "renewing" => form[g].at = "renewing",
           UNCHANGED <<stored, history, counts>>, UNCHANGED <<keeper, document>>,
           remote' = remote
    PROVE  StoreInv'
<1>1. StoreTypes /\ KeeperSound /\ GrantInv
  BY DEF StoreInv
<1>2. StoreTypes'
  BY <1>1 DEF StoreTypes
<1>3. KeeperSound'
  <2>1. \A w \in RemoteCall \cup Form : Renewing(w)' => Renewing(w)
    BY DEF Renewing
  <2> QED  BY <1>1, <2>1, LockIsKept
<1>4. GrantInv'
  <2>1. PICK r \in Connection : r = stored
    BY <1>1 DEF StoreTypes
  <2>2. stored' = r /\ (history'.needed => r.pending)
        /\ history'.replaced \subseteq history.replaced \cup ({stored.tokens.gen} \ {0})
        /\ stored.tokens.gen \notin history'.replaced
        /\ r.tokens.gen \in {0, stored.tokens.gen}
    BY <1>1, <2>1 DEF GrantInv, PendingSound, TokensSound
  <2>3. counts.grants <= counts'.grants /\ counts'.grants \in Nat
    BY <1>1, Numbers
  <2> QED  BY <1>1, <2>2, <2>3, RecordChanges
<1> QED  BY <1>2, <1>3, <1>4 DEF StoreInv

\* One form becomes another draft; tokens may be granted.
LEMMA QuietForm ==
    ASSUME StoreInv, NEW f \in Form, NEW n \in FormState, form' = [form EXCEPT ![f] = n],
           UNCHANGED <<stored, history>>, UNCHANGED <<keeper, document>>, remote' = remote,
           counts' \in Counts, n.at # "renewing", GrantInv'
    PROVE  StoreInv'
<1>1. StoreTypes /\ KeeperSound
  BY DEF StoreInv
<1>2. StoreTypes'
  BY <1>1 DEF StoreTypes
<1>3. KeeperSound'
  BY <1>1, NoFormRenews, LockIsKept
<1> QED  BY <1>2, <1>3 DEF StoreInv

\* Opens: the draft is what is on file.
LEMMA OpensStore ==
    ASSUME StoreInv, NEW f \in Form, Opens(f)
    PROVE  StoreInv'
<1>1. StoreTypes /\ GrantInv
  BY DEF StoreInv
<1>2. PICK r \in Connection : r = stored
  BY <1>1 DEF StoreTypes
<1>3. PICK at \in FormPlace : at = "editing"
  BY DEF FormPlace
<1>4. PICK n : n = [ClosedForm EXCEPT !.at = at, !.draft = r, !.original = r]
  OBVIOUS
<1>5. FormIs(n, at, r, r, Absent, Absent)
  BY <1>4, ClosedIs, FormGoesOn
<1>6. n \in FormState /\ n.at = at /\ n.draft = r /\ n.original = r /\ ~n.guard.there
  BY <1>5, AbsentIs DEF FormIs
<1>7. form' = [form EXCEPT ![f] = n]
  BY <1>2, <1>3, <1>4 DEF Opens
<1>8. UNCHANGED <<stored, history>> /\ UNCHANGED <<keeper, document>> /\ remote' = remote
      /\ counts' = counts
  BY DEF Opens
<1>9. counts' \in Counts /\ counts.grants <= counts'.grants /\ counts'.grants \in Nat
  BY <1>1, <1>8, Numbers DEF StoreTypes
<1>10. n.draft.tokens.gen \in {0, Draft(f), stored.tokens.gen}
  BY <1>2, <1>6
<1>11. GrantInv'
  BY <1>1, <1>6, <1>7, <1>8, <1>9, <1>10, FormChanges
<1> QED  BY <1>3, <1>6, <1>7, <1>8, <1>9, <1>11, QuietForm

\* A draft without tokens, or with those it has, and without a guard.
LEMMA GuardIsDropped ==
    ASSUME StoreInv, NEW f \in Form, NEW n \in FormState, form' = [form EXCEPT ![f] = n],
           UNCHANGED <<stored, history>>, UNCHANGED <<keeper, document>>, remote' = remote,
           counts' = counts, n.at = "editing", n.original = form[f].original, n.guard = Absent,
           n.draft.tokens.gen = 0 \/ n.draft = form[f].draft
    PROVE  StoreInv'
<1>1. StoreTypes /\ GrantInv
  BY DEF StoreInv
<1>2. ~n.guard.there
  BY AbsentIs
<1>3. counts' \in Counts /\ counts.grants <= counts'.grants /\ counts'.grants \in Nat
  BY <1>1, Numbers DEF StoreTypes
<1>4. n.draft.tokens.gen \in {0, Draft(f), stored.tokens.gen}
  BY DEF Draft
<1>5. n.draft.tokens = n.original.tokens \/ n.draft.tokens.gen = 0 \/ OwnAs(f, n)
  BY <1>1 DEF GrantInv, DraftsSound, Own, OwnAs, Draft
<1>6. GrantInv'
  BY <1>1, <1>2, <1>3, <1>4, <1>5, FormChanges
<1> QED  BY <1>3, <1>6, QuietForm

\* Another server: the draft has no tokens and no guard.
LEMMA ChangesEndpointStore ==
    ASSUME StoreInv, NEW f \in Form, ChangesEndpoint(f)
    PROVE  StoreInv'
<1>1. StoreTypes /\ form \in [Form -> FormState] /\ form[f] \in FormState
      /\ form[f].draft \in Connection /\ form[f].at = "editing"
  BY Numbers DEF StoreInv, StoreTypes, ChangesEndpoint, At
<1>2. PICK e \in Endpoint :
         form' = [form EXCEPT ![f].draft = [@ EXCEPT !.endpoint = e, !.tokens = NoTokens,
                                                     !.pending = FALSE],
                              ![f].guard = Absent]
  BY DEF ChangesEndpoint
<1>3. PICK t \in Tokens, b \in BOOLEAN, a \in Connection : t = NoTokens /\ b = FALSE /\ a = Absent
  BY AbsentIs
<1>4. PICK d \in Connection : d = form[f].draft
  BY <1>1
<1>5. PICK r : r = [d EXCEPT !.endpoint = e, !.tokens = t, !.pending = b]
  OBVIOUS
<1>6. r \in Connection /\ r.tokens = t
  <2>1. RecordIs([d EXCEPT !.endpoint = e, !.tokens = t, !.pending = b],
                 d.there, e, d.enabled, t, b)
    BY EndpointIs
  <2> QED  BY <1>5, <2>1 DEF RecordIs
<1>7. r.tokens.gen = 0
  BY <1>3, <1>6, AbsentIs
<1>8. PICK at \in FormPlace : at = "editing"
  BY DEF FormPlace
<1>9. PICK n : n = [form[f] EXCEPT !.draft = r, !.guard = a]
  OBVIOUS
<1>10. FormIs(n, form[f].at, r, form[f].original, form[f].prepared, a)
  BY <1>1, <1>6, <1>8, <1>9, FormGoesOn
<1>11. n \in FormState /\ n.at = "editing" /\ n.draft = r /\ n.guard = Absent
       /\ n.original = form[f].original
  BY <1>1, <1>3, <1>10 DEF FormIs
<1>12. form' = [form EXCEPT ![f] = n]
  <2>1. form' = [form EXCEPT ![f].draft = r, ![f].guard = a]
    BY <1>1, <1>2, <1>3, <1>4, <1>5
  <2> QED  BY <1>1, <1>9, <2>1
<1>13. UNCHANGED <<stored, history>> /\ UNCHANGED <<keeper, document>> /\ remote' = remote
       /\ counts' = counts
  BY DEF ChangesEndpoint
<1> QED  BY <1>7, <1>11, <1>12, <1>13, GuardIsDropped

\* Another method than a sign-in: the draft has no tokens and no guard.
LEMMA ChoosesTokenStore ==
    ASSUME StoreInv, NEW f \in Form, ChoosesToken(f)
    PROVE  StoreInv'
<1>1. StoreTypes /\ form \in [Form -> FormState] /\ form[f] \in FormState
      /\ form[f].draft \in Connection /\ form[f].at = "editing"
  BY Numbers DEF StoreInv, StoreTypes, ChoosesToken, At
<1>2. form' = [form EXCEPT ![f].draft.tokens = NoTokens, ![f].guard = Absent]
  BY DEF ChoosesToken
<1>3. PICK t \in Tokens, a \in Connection : t = NoTokens /\ a = Absent
  BY AbsentIs
<1>4. PICK d \in Connection : d = form[f].draft
  BY <1>1
<1>5. PICK r : r = [d EXCEPT !.tokens = t]
  OBVIOUS
<1>6. r \in Connection /\ r.tokens = t
  <2>1. RecordIs([d EXCEPT !.tokens = t], d.there, d.endpoint, d.enabled, t, d.pending)
    BY TokensAre
  <2>2. RecordIs(r, d.there, d.endpoint, d.enabled, t, d.pending)
    BY <1>5, <2>1
  <2> QED  BY <2>2 DEF RecordIs
<1>7. r.tokens.gen = 0
  BY <1>3, <1>6, AbsentIs
<1>8. PICK at \in FormPlace : at = "editing"
  BY DEF FormPlace
<1>9. PICK n : n = [form[f] EXCEPT !.draft = r, !.guard = a]
  OBVIOUS
<1>10. FormIs(n, form[f].at, r, form[f].original, form[f].prepared, a)
  BY <1>1, <1>6, <1>8, <1>9, FormGoesOn
<1>11. n \in FormState /\ n.at = "editing" /\ n.draft = r /\ n.guard = Absent
       /\ n.original = form[f].original
  BY <1>1, <1>3, <1>10 DEF FormIs
<1>12. form' = [form EXCEPT ![f] = n]
  <2>1. form' = [form EXCEPT ![f].draft = r, ![f].guard = a]
    BY <1>1, <1>2, <1>3, <1>4, <1>5
  <2> QED  BY <1>1, <1>9, <2>1
<1>13. UNCHANGED <<stored, history>> /\ UNCHANGED <<keeper, document>> /\ remote' = remote
       /\ counts' = counts
  BY DEF ChoosesToken
<1> QED  BY <1>7, <1>11, <1>12, <1>13, GuardIsDropped

\* A draft without its guard still has its own tokens.
LEMMA DropsGuardStore ==
    ASSUME StoreInv, NEW f \in Form, DropsGuard(f)
    PROVE  StoreInv'
<1>1. StoreTypes /\ form \in [Form -> FormState] /\ form[f] \in FormState
      /\ form[f].draft \in Connection /\ form[f].at = "editing"
  BY Numbers DEF StoreInv, StoreTypes, DropsGuard, At
<1>2. PICK a \in Connection : a = Absent
  BY AbsentIs
<1>3. PICK at \in FormPlace : at = "editing"
  BY DEF FormPlace
<1>4. PICK n : n = [form[f] EXCEPT !.guard = a]
  OBVIOUS
<1>5. FormIs(n, form[f].at, form[f].draft, form[f].original, form[f].prepared, a)
  BY <1>1, <1>3, <1>4, FormGoesOn
<1>6. n \in FormState /\ n.at = "editing" /\ n.draft = form[f].draft /\ n.guard = Absent
      /\ n.original = form[f].original
  BY <1>1, <1>2, <1>5 DEF FormIs
<1>7. form' = [form EXCEPT ![f] = n]
  BY <1>1, <1>2, <1>4 DEF DropsGuard
<1>8. UNCHANGED <<stored, history>> /\ UNCHANGED <<keeper, document>> /\ remote' = remote
      /\ counts' = counts
  BY DEF DropsGuard
<1> QED  BY <1>6, <1>7, <1>8, GuardIsDropped

\* A sign-in that fails leaves the draft as it was.
LEMMA SignInFailsStore ==
    ASSUME StoreInv, NEW f \in Form, SignInFails(f)
    PROVE  StoreInv'
<1>1. StoreTypes /\ form \in [Form -> FormState] /\ form[f] \in FormState
      /\ form[f].draft \in Connection
  BY Numbers DEF StoreInv, StoreTypes
<1>2. PICK a \in Connection : a = Absent
  BY AbsentIs
<1>3. PICK at \in FormPlace : at = "editing"
  BY DEF FormPlace
<1>4. PICK n : n = [form[f] EXCEPT !.at = at, !.prepared = a, !.guard = a]
  OBVIOUS
<1>5. FormIs(n, at, form[f].draft, form[f].original, a, a)
  BY <1>1, <1>3, <1>4, FormGoesOn
<1>6. n \in FormState /\ n.at = "editing" /\ n.draft = form[f].draft /\ n.guard = Absent
      /\ n.original = form[f].original
  BY <1>2, <1>3, <1>5 DEF FormIs
<1>7. form' = [form EXCEPT ![f] = n]
  BY <1>1, <1>2, <1>3, <1>4 DEF SignInFails
<1>8. UNCHANGED <<stored, history>> /\ UNCHANGED <<keeper, document>> /\ remote' = remote
      /\ counts' = counts
  BY DEF SignInFails
<1> QED  BY <1>6, <1>7, <1>8, GuardIsDropped

\* prepare_sign_in: what is pending on file is asked for, and guarded.
LEMMA PreparesStore ==
    ASSUME StoreInv, NEW f \in Form, Prepares(f)
    PROVE  StoreInv'
<1>1. /\ StoreTypes /\ GrantInv /\ form \in [Form -> FormState] /\ form[f] \in FormState
      /\ form[f].draft \in Connection /\ form[f].original \in Connection
  BY Numbers DEF StoreInv, StoreTypes
<1>2. PICK d \in Connection, o \in Connection, s \in Connection :
         d = form[f].draft /\ o = form[f].original /\ s = stored
  BY <1>1 DEF StoreTypes
<1>3. PICK p \in BOOLEAN : p = s.pending
  BY ConnectionFields
<1>4. PICK t \in Tokens : t = IF d.tokens = o.tokens THEN s.tokens ELSE d.tokens
  BY ConnectionFields
<1>5. PICK r : r = IF d.endpoint = s.endpoint THEN [d EXCEPT !.pending = p, !.tokens = t] ELSE d
  OBVIOUS
<1>6. /\ r \in Connection /\ r.endpoint = d.endpoint
      /\ d.endpoint = s.endpoint => r.pending = s.pending
  <2>1. RecordIs([d EXCEPT !.pending = p, !.tokens = t], d.there, d.endpoint, d.enabled, t, p)
    BY GrantIs
  <2> QED  BY <1>3, <1>5, <2>1 DEF RecordIs
<1>7. PICK at \in FormPlace : at = "signing"
  BY DEF FormPlace
<1>8. PICK n : n = [form[f] EXCEPT !.at = at, !.prepared = r, !.guard = s]
  OBVIOUS
<1>9. FormIs(n, at, form[f].draft, form[f].original, r, s)
  BY <1>1, <1>6, <1>7, <1>8, FormGoesOn
<1>10. /\ n \in FormState /\ n.at = "signing" /\ n.draft = d /\ n.original = o
       /\ n.prepared = r /\ n.guard = s
  BY <1>2, <1>7, <1>9 DEF FormIs
<1>11. form' = [form EXCEPT ![f] = n]
  <2>1. [d EXCEPT !.pending = stored.pending,
                  !.tokens = IF @ = o.tokens THEN stored.tokens ELSE @]
          = [d EXCEPT !.pending = p, !.tokens = t]
    BY <1>2, <1>3, <1>4
  <2>2. form' = [form EXCEPT ![f].at = "signing", ![f].prepared = r, ![f].guard = stored]
    BY <1>2, <1>5, <2>1 DEF Prepares
  <2> QED  BY <1>1, <1>2, <1>7, <1>8, <2>2
<1>12. UNCHANGED <<stored, history>> /\ UNCHANGED <<keeper, document>> /\ remote' = remote
       /\ counts' = counts
  BY DEF Prepares
<1>13. counts' \in Counts /\ counts.grants <= counts'.grants /\ counts'.grants \in Nat
  BY <1>1, <1>12, Numbers DEF StoreTypes
<1>14. n.draft.tokens.gen \in {0, Draft(f), stored.tokens.gen}
  BY <1>2, <1>10 DEF Draft
<1>15. n.draft.tokens = n.original.tokens \/ n.draft.tokens.gen = 0 \/ OwnAs(f, n)
  BY <1>1, <1>2, <1>10 DEF GrantInv, DraftsSound, Own, OwnAs, Draft
<1>16. n.guard.there =>
         /\ n.prepared.endpoint = n.draft.endpoint
         /\ n.draft.endpoint = n.guard.endpoint => n.prepared.pending = n.guard.pending
  BY <1>6, <1>10
<1>17. GrantInv'
  BY <1>1, <1>10, <1>11, <1>12, <1>13, <1>14, <1>15, <1>16, FormChanges
<1> QED  BY <1>10, <1>11, <1>12, <1>13, <1>17, QuietForm

\* The browser grants tokens that nobody has seen.
LEMMA AuthorizesStore ==
    ASSUME StoreInv, NEW f \in Form, Authorizes(f)
    PROVE  StoreInv'
<1>1. /\ StoreTypes /\ GrantInv /\ form \in [Form -> FormState] /\ form[f] \in FormState
      /\ form[f].prepared \in Connection /\ TokensSound /\ GuardsSound
  BY Numbers DEF StoreInv, StoreTypes, GrantInv
<1>2. /\ counts.grants \in Nat /\ counts.grants \in 0..MaxGrants /\ MaxGrants \in Nat
      /\ counts.grants < MaxGrants /\ counts' = [counts EXCEPT !.grants = @ + 1]
  BY <1>1, Numbers DEF Authorizes
<1>3. counts' \in Counts /\ counts'.grants = counts.grants + 1
  BY <1>1, <1>2 DEF StoreTypes, Counts
<1>4. PICK i \in Registration :
         form' = [form EXCEPT ![f].at = "editing",
                              ![f].draft = [form[f].prepared EXCEPT
                                 !.tokens = [gen |-> counts.grants + 1, issued |-> i],
                                 !.pending = FALSE]]
  BY DEF Authorizes
<1>5. PICK m \in 0..MaxGrants : m = counts.grants + 1
  BY <1>2
<1>6. PICK t \in Tokens : t = [gen |-> m, issued |-> i] /\ t.gen = m
  <2>1. PICK t : t = [gen |-> m, issued |-> i]
    OBVIOUS
  <2>2. t \in Tokens /\ t.gen = m
    BY <2>1 DEF Tokens
  <2> QED  BY <2>1, <2>2
<1>7. PICK d \in Connection, b \in BOOLEAN : d = form[f].prepared /\ b = FALSE
  BY <1>1
<1>8. PICK r : r = [d EXCEPT !.tokens = t, !.pending = b]
  OBVIOUS
<1>9. r \in Connection /\ r.endpoint = d.endpoint /\ r.tokens = t
  <2>1. RecordIs([d EXCEPT !.tokens = t, !.pending = b], d.there, d.endpoint, d.enabled, t, b)
    BY GrantIs
  <2> QED  BY <1>8, <2>1 DEF RecordIs
<1>10. PICK at \in FormPlace : at = "editing"
  BY DEF FormPlace
<1>11. PICK n : n = [form[f] EXCEPT !.at = at, !.draft = r]
  OBVIOUS
<1>12. FormIs(n, at, r, form[f].original, form[f].prepared, form[f].guard)
  BY <1>1, <1>9, <1>10, <1>11, FormGoesOn
<1>13. /\ n \in FormState /\ n.at = "editing" /\ n.draft = r /\ n.prepared = d
       /\ n.guard = form[f].guard
  BY <1>7, <1>10, <1>12 DEF FormIs
<1>14. form' = [form EXCEPT ![f] = n]
  <2>1. form' = [form EXCEPT ![f].at = at, ![f].draft = r]
    BY <1>4, <1>5, <1>6, <1>7, <1>8, <1>10
  <2> QED  BY <1>1, <1>11, <2>1
<1>15. UNCHANGED <<stored, history>> /\ UNCHANGED <<keeper, document>> /\ remote' = remote
  BY DEF Authorizes
<1>16. n.draft.tokens.gen = counts.grants + 1
  BY <1>5, <1>6, <1>9, <1>13
<1>17. OwnAs(f, n)
  BY <1>1, <1>2, <1>16, Numbers DEF OwnAs, TokensSound
<1>18. n.guard.there =>
         /\ n.prepared.endpoint = n.draft.endpoint
         /\ n.draft.endpoint = n.guard.endpoint => n.prepared.pending = n.guard.pending
  BY <1>1, <1>7, <1>9, <1>13 DEF GuardsSound
<1>19. counts.grants <= counts'.grants /\ counts'.grants \in Nat
  BY <1>2, <1>3
<1>20. GrantInv'
  BY <1>1, <1>3, <1>13, <1>14, <1>15, <1>16, <1>17, <1>18, <1>19, FormChanges
<1> QED  BY <1>3, <1>13, <1>14, <1>15, <1>20, QuietForm

\* A form that goes on with its draft, or is closed.
LEMMA StartsSaveStore ==
    ASSUME StoreInv, NEW f \in Form, StartsSave(f)
    PROVE  StoreInv'
<1>1. StoreTypes /\ form[f].at = "editing"
  BY DEF StoreInv, StartsSave, At
<1>2. PICK place \in FormPlace : place \in {"checking", "checked"} /\ FormMoves(f, place)
  BY DEF StartsSave, FormPlace
<1>3. UNCHANGED <<stored, history, counts>> /\ UNCHANGED <<keeper, document>> /\ remote' = remote
  BY DEF StartsSave
<1> QED  BY <1>1, <1>2, <1>3, FormMovesOn, QuietForms

\* A save that fails leaves the draft to be edited.
LEMMA SaveFailsStore ==
    ASSUME StoreInv, NEW f \in Form, SaveFails(f)
    PROVE  StoreInv'
<1>1. StoreTypes /\ form[f].at # "signing"
  BY DEF StoreInv, SaveFails
<1>2. PICK place \in FormPlace : place = "editing" /\ FormMoves(f, place)
  BY DEF SaveFails, FormPlace
<1>3. UNCHANGED <<stored, history, counts>> /\ UNCHANGED <<keeper, document>> /\ remote' = remote
  BY DEF SaveFails
<1> QED  BY <1>1, <1>2, <1>3, FormMovesOn, QuietForms

\* A form that is abandoned closes.
LEMMA AbandonsStore ==
    ASSUME StoreInv, NEW f \in Form, Abandons(f)
    PROVE  StoreInv'
<1>1. StoreTypes /\ Closes(f)
  BY DEF StoreInv, Abandons
<1>2. UNCHANGED <<stored, history, counts>> /\ UNCHANGED <<keeper, document>> /\ remote' = remote
  BY DEF Abandons
<1>3. form'[f].at # "renewing"
  BY <1>1, FormCloses, ClosedIs
<1> QED  BY <1>1, <1>2, <1>3, FormCloses, QuietForms

\* fresh takes the lock for a form.
LEMMA FreshForFormStore ==
    ASSUME StoreInv, NEW f \in Form, FreshForForm(f)
    PROVE  StoreInv'
<1>1. StoreTypes /\ KeeperSound /\ GrantInv /\ form[f].at # "signing" /\ StoreFree
  BY DEF StoreInv, FreshForForm, At
<1>2. UNCHANGED <<stored, history, counts>> /\ remote' = remote
  BY DEF FreshForForm
<1>3. CASE (FormMoves(f, "editing") \/ FormMoves(f, "checked")) /\ UNCHANGED <<keeper, document>>
  <2>1. PICK place \in FormPlace : place \in {"editing", "checked"} /\ FormMoves(f, place)
    BY <1>3 DEF FormPlace
  <2> QED  BY <1>1, <1>2, <1>3, <2>1, FormMovesOn, QuietForms
<1>4. CASE KeepsStore(f) /\ FormMoves(f, "renewing")
  <2>1. PICK place \in FormPlace : place = "renewing"
    BY DEF FormPlace
  <2>2. /\ form' \in [Form -> FormState] /\ \A g \in Form \ {f} : form'[g] = form[g]
        /\ \A g \in Form : GoesOnOrCloses(g)
    BY <1>1, <1>4, <2>1, FormMovesOn
  <2>3. \A v \in RemoteCall \cup Form : v # f /\ Renewing(v)' => Renewing(v)
    BY <1>2, <2>2 DEF Renewing
  <2>4. KeeperSound'
    <3>1. f \in RemoteCall \cup Form
      OBVIOUS
    <3> QED  BY <1>1, <1>2, <1>4, <2>3, <3>1, LockIsTaken
  <2>5. GrantInv'
    <3>1. PICK r \in Connection : r = stored
      BY <1>1 DEF StoreTypes
    <3>2. stored' = r /\ (history'.needed => r.pending)
          /\ history'.replaced \subseteq history.replaced \cup ({stored.tokens.gen} \ {0})
          /\ stored.tokens.gen \notin history'.replaced
          /\ r.tokens.gen \in {0, stored.tokens.gen}
      BY <1>1, <1>2, <3>1 DEF GrantInv, PendingSound, TokensSound
    <3>3. counts.grants <= counts'.grants /\ counts'.grants \in Nat
      BY <1>1, <1>2, Numbers
    <3> QED  BY <1>1, <2>2, <3>2, <3>3, RecordChanges
  <2>6. StoreTypes'
    BY <1>1, <1>2, <1>4, <2>2 DEF KeepsStore, StoreTypes
  <2> QED  BY <2>4, <2>5, <2>6 DEF StoreInv
<1> QED  BY <1>3, <1>4 DEF FreshForForm

\* A renewal of a form is written.
LEMMA RenewsForFormStore ==
    ASSUME StoreInv, ClientInv, NEW f \in Form, RenewsForForm(f)
    PROVE  StoreInv'
<1>1. /\ StoreTypes /\ form[f].at = "renewing" /\ Renews(f) /\ counts.grants < MaxGrants
      /\ remote' = remote /\ f \in RemoteCall \cup Form
  BY DEF StoreInv, RenewsForForm, At
<1>2. PICK place \in FormPlace : place = "checked" /\ FormMoves(f, place)
  BY DEF RenewsForForm, FormPlace
<1>3. /\ form' \in [Form -> FormState] /\ form'[f].at = "checked"
      /\ \A g \in Form \ {f} : form'[g] = form[g] /\ \A h \in Form : GoesOnOrCloses(h)
  BY <1>1, <1>2, FormMovesOn
<1>4. \A g \in Form : GoesOnOrCloses(g)
  BY <1>1, <1>2, FormMovesOn
<1>5. f \notin RemoteCall
  BY McpAssumption
<1>6. Renewing(f) /\ \A v \in RemoteCall \cup Form : Renewing(v)' => v # f /\ Renewing(v)
  BY <1>1, <1>3, <1>5 DEF Renewing
<1> QED  BY <1>1, <1>3, <1>4, <1>6, RenewalIsWritten

\* A form gives the lock back without a renewal.
LEMMA RenewalFailsForFormStore ==
    ASSUME StoreInv, NEW f \in Form, RenewalFailsForForm(f)
    PROVE  StoreInv'
<1>1. /\ StoreTypes /\ KeeperSound /\ GrantInv /\ form[f].at = "renewing" /\ GivesStore(f)
      /\ UNCHANGED <<stored, history, counts>> /\ remote' = remote /\ f \in RemoteCall \cup Form
  BY DEF StoreInv, RenewalFailsForForm, At
<1>2. PICK place \in FormPlace : place = "editing" /\ FormMoves(f, place)
  BY DEF RenewalFailsForForm, FormPlace
<1>3. /\ form' \in [Form -> FormState] /\ form'[f].at = "editing"
      /\ \A g \in Form \ {f} : form'[g] = form[g]
      /\ \A g \in Form : GoesOnOrCloses(g)
  BY <1>1, <1>2, FormMovesOn
<1>4. f \notin RemoteCall
  BY McpAssumption
<1>5. Renewing(f) /\ \A v \in RemoteCall \cup Form : Renewing(v)' => v # f /\ Renewing(v)
  BY <1>1, <1>3, <1>4 DEF Renewing
<1>6. KeeperSound'
  BY <1>1, <1>5, LockIsGiven
<1>7. StoreTypes'
  BY <1>1, <1>3, AbsentIs DEF StoreTypes, GivesStore
<1>8. GrantInv'
  <2>1. PICK r \in Connection : r = stored
    BY <1>1 DEF StoreTypes
  <2>2. stored' = r /\ (history'.needed => r.pending)
        /\ history'.replaced \subseteq history.replaced \cup ({stored.tokens.gen} \ {0})
        /\ stored.tokens.gen \notin history'.replaced
        /\ r.tokens.gen \in {0, stored.tokens.gen}
    BY <1>1, <2>1 DEF GrantInv, PendingSound, TokensSound
  <2>3. counts.grants <= counts'.grants /\ counts'.grants \in Nat
    BY <1>1, Numbers
  <2> QED  BY <1>1, <1>3, <2>2, <2>3, RecordChanges
<1> QED  BY <1>6, <1>7, <1>8 DEF StoreInv

\* The user changes the record while the lock is free.
LEMMA RecordIsEdited ==
    ASSUME StoreInv, StoreFree, EditAllowed, Edited, UNCHANGED <<keeper, document>>,
           remote' = remote, NEW r \in Connection, stored' = r, history' \in GrantHistory,
           history'.needed => r.pending,
           history'.replaced \subseteq history.replaced \cup ({stored.tokens.gen} \ {0}),
           stored.tokens.gen \in history'.replaced => r.tokens.gen # stored.tokens.gen,
           \/ r.tokens.gen \in {0, stored.tokens.gen}
           \/ \E f \in Form : Own(f) /\ r.tokens.gen = Draft(f) /\ form'[f] = ClosedForm,
           form' \in [Form -> FormState], \A g \in Form : GoesOnOrCloses(g),
           \A g \in Form : form'[g].at = "renewing" => form[g].at = "renewing"
    PROVE  StoreInv'
<1>1. StoreTypes /\ KeeperSound /\ GrantInv
  BY DEF StoreInv
<1>2. /\ counts.grants \in 0..MaxGrants /\ counts.edits \in 0..MaxEdits /\ counts.edits < MaxEdits
      /\ counts.grants \in Nat /\ MaxEdits \in Nat /\ counts \in Counts
  BY <1>1, Numbers, McpAssumption DEF EditAllowed, StoreTypes
<1>3. counts' \in Counts /\ counts'.grants = counts.grants
  BY <1>2 DEF Edited, Counts
<1>4. StoreTypes'
  BY <1>1, <1>3 DEF StoreTypes
<1>5. KeeperSound'
  <2>1. \A w \in RemoteCall \cup Form : Renewing(w)' => Renewing(w)
    BY DEF Renewing
  <2> QED  BY <1>1, <2>1, LockIsKept DEF StoreFree
<1>6. GrantInv'
  <2>1. counts.grants <= counts'.grants /\ counts'.grants \in Nat
    BY <1>2, <1>3
  <2> QED  BY <1>1, <2>1, RecordChanges
<1> QED  BY <1>4, <1>5, <1>6 DEF StoreInv

\* What Becomes records.
LEMMA BecomesIs ==
    ASSUME StoreInv, NEW r \in Connection, Becomes(r)
    PROVE  /\ stored' = r /\ history' \in GrantHistory
           /\ history'.needed => /\ history.needed /\ r.there /\ HasTokens(r)
                                 /\ r.endpoint = stored.endpoint
           /\ history'.replaced \subseteq history.replaced \cup ({stored.tokens.gen} \ {0})
           /\ r.tokens = stored.tokens => history'.replaced = history.replaced
<1>1. history.replaced \subseteq 1..MaxGrants /\ stored.tokens.gen \in 0..MaxGrants
      /\ MaxGrants \in Nat
  BY Numbers DEF StoreInv
<1>2. PICK b \in BOOLEAN :
           b = (history.needed /\ r.there /\ HasTokens(r) /\ r.endpoint = stored.endpoint)
  OBVIOUS
<1>3. PICK s : s = IF HasTokens(stored) /\ r.tokens # stored.tokens
                   THEN history.replaced \cup {stored.tokens.gen} ELSE history.replaced
  OBVIOUS
<1>4. history' = [needed |-> b, replaced |-> s] /\ stored' = r
  BY <1>2, <1>3 DEF Becomes
<1>5. s \subseteq history.replaced \cup ({stored.tokens.gen} \ {0})
  BY <1>3 DEF HasTokens
<1>6. s \in SUBSET (1..MaxGrants)
  BY <1>1, <1>5
<1>7. history' \in GrantHistory /\ history'.needed = b /\ history'.replaced = s
  BY ONLY <1>4, <1>6, b \in BOOLEAN DEF GrantHistory
<1> QED  BY <1>2, <1>3, <1>4, <1>5, <1>7

\* The tokens on file were not replaced.
LEMMA StoredIsNotReplaced ==
    ASSUME StoreInv
    PROVE  stored.tokens.gen \notin history.replaced /\ (history.needed => stored.pending)
BY DEF StoreInv, GrantInv, TokensSound, PendingSound

\* The forms as they were.
LEMMA FormsUnchanged ==
    ASSUME StoreInv, form' = form
    PROVE  /\ form' \in [Form -> FormState] /\ \A g \in Form : GoesOnOrCloses(g)
           /\ \A g \in Form : form'[g].at = "renewing" => form[g].at = "renewing"
BY DEF StoreInv, StoreTypes, GoesOnOrCloses

\* The connection is removed, and what it had was dropped by the user.
LEMMA RemovesStore ==
    ASSUME StoreInv, Removes
    PROVE  StoreInv'
<1>1. PICK r \in Connection : r = Absent
  BY AbsentIs
<1>2. ~r.there /\ r.tokens.gen = 0
  BY <1>1, AbsentIs
<1>3. /\ Becomes(r) /\ StoreFree /\ EditAllowed /\ Edited /\ UNCHANGED <<keeper, document>>
      /\ remote' = remote /\ form' = form
  BY <1>1 DEF Removes
<1>4. /\ stored' = r /\ history' \in GrantHistory /\ ~history'.needed
      /\ history'.replaced \subseteq history.replaced \cup ({stored.tokens.gen} \ {0})
  BY <1>2, <1>3, BecomesIs
<1>5. stored.tokens.gen \in history'.replaced => r.tokens.gen # stored.tokens.gen
  BY <1>2, <1>4, StoredIsNotReplaced
<1>6. r.tokens.gen \in {0, stored.tokens.gen}
  BY <1>2
<1>7. /\ form' \in [Form -> FormState] /\ \A g \in Form : GoesOnOrCloses(g)
      /\ \A g \in Form : form'[g].at = "renewing" => form[g].at = "renewing"
  BY <1>3, FormsUnchanged
<1> QED  BY <1>3, <1>4, <1>5, <1>6, <1>7, RecordIsEdited

\* The connection is enabled or disabled: its tokens and permissions stay.
LEMMA SetsEnabledStore ==
    ASSUME StoreInv, SetsEnabled
    PROVE  StoreInv'
<1>1. PICK s \in Connection : s = stored
  BY DEF StoreInv, StoreTypes
<1>2. PICK b \in BOOLEAN : b = ~s.enabled
  OBVIOUS
<1>3. PICK r : r = [s EXCEPT !.enabled = b]
  OBVIOUS
<1>4. r \in Connection /\ r.tokens = s.tokens /\ r.pending = s.pending
  BY ONLY <1>3, s \in Connection, b \in BOOLEAN DEF Connection
<1>5. /\ Becomes(r) /\ StoreFree /\ EditAllowed /\ Edited /\ UNCHANGED <<keeper, document>>
      /\ remote' = remote /\ form' = form
  BY <1>1, <1>2, <1>3 DEF SetsEnabled
<1>6. /\ stored' = r /\ history' \in GrantHistory /\ (history'.needed => history.needed)
      /\ history'.replaced = history.replaced
  BY <1>1, <1>4, <1>5, BecomesIs
<1>7. (history'.needed => r.pending) /\ stored.tokens.gen \notin history'.replaced
  BY <1>1, <1>4, <1>6, StoredIsNotReplaced
<1>8. /\ form' \in [Form -> FormState] /\ \A g \in Form : GoesOnOrCloses(g)
      /\ \A g \in Form : form'[g].at = "renewing" => form[g].at = "renewing"
  BY <1>5, FormsUnchanged
<1>9. r.tokens.gen \in {0, stored.tokens.gen}
  BY <1>1, <1>4
<1>10. history'.replaced \subseteq history.replaced \cup ({stored.tokens.gen} \ {0})
  BY <1>6
<1> QED  BY <1>4, <1>5, <1>6, <1>7, <1>8, <1>9, <1>10, RecordIsEdited

\* A form closes as the record is saved.
LEMMA FormIsSaved ==
    ASSUME StoreInv, NEW f \in Form, Closes(f)
    PROVE  /\ form' \in [Form -> FormState] /\ \A g \in Form : GoesOnOrCloses(g)
           /\ \A g \in Form : form'[g].at = "renewing" => form[g].at = "renewing"
           /\ form'[f] = ClosedForm
<1>1. StoreTypes /\ ClosedForm.at = "closed"
  BY ClosedIs DEF StoreInv
<1> QED  BY <1>1, FormCloses

\* save_edit: the tokens on file stay, and what is pending.
LEMMA SavesEditStore ==
    ASSUME StoreInv, NEW f \in Form, SavesEdit(f)
    PROVE  StoreInv'
<1>1. PICK s \in Connection, d \in Connection : s = stored /\ d = form[f].draft
  BY Numbers DEF StoreInv, StoreTypes
<1>2. PICK t \in Tokens, b \in BOOLEAN : t = s.tokens /\ b = s.pending
  BY ConnectionFields
<1>3. PICK r : r = [d EXCEPT !.tokens = t, !.pending = b]
  OBVIOUS
<1>4. r \in Connection /\ r.tokens = s.tokens /\ r.pending = s.pending
  <2>1. RecordIs([d EXCEPT !.tokens = t, !.pending = b], d.there, d.endpoint, d.enabled, t, b)
    BY GrantIs
  <2> QED  BY <1>2, <1>3, <2>1 DEF RecordIs
<1>5. /\ Becomes(r) /\ StoreFree /\ EditAllowed /\ Edited /\ UNCHANGED <<keeper, document>>
      /\ remote' = remote /\ Closes(f)
  BY <1>1, <1>2, <1>3 DEF SavesEdit, Committing, EditOf
<1>6. /\ stored' = r /\ history' \in GrantHistory /\ (history'.needed => history.needed)
      /\ history'.replaced = history.replaced
  BY <1>1, <1>4, <1>5, BecomesIs
<1>7. (history'.needed => r.pending) /\ stored.tokens.gen \notin history'.replaced
  BY <1>1, <1>4, <1>6, StoredIsNotReplaced
<1>8. /\ form' \in [Form -> FormState] /\ \A g \in Form : GoesOnOrCloses(g)
      /\ \A g \in Form : form'[g].at = "renewing" => form[g].at = "renewing"
  BY <1>5, FormIsSaved
<1>9. r.tokens.gen \in {0, stored.tokens.gen}
  BY <1>1, <1>4
<1>10. history'.replaced \subseteq history.replaced \cup ({stored.tokens.gen} \ {0})
  BY <1>6
<1> QED  BY <1>4, <1>5, <1>6, <1>7, <1>8, <1>9, <1>10, RecordIsEdited

\* What is recorded of tokens that are replaced.
LEMMA ReplacedIs ==
    ASSUME StoreInv, NEW b \in BOOLEAN,
           history' = [needed |-> b,
                       replaced |-> history.replaced
                                      \cup (IF HasTokens(stored) THEN {stored.tokens.gen} ELSE {})]
    PROVE  /\ history' \in GrantHistory /\ history'.needed = b
           /\ history'.replaced \subseteq history.replaced \cup ({stored.tokens.gen} \ {0})
           /\ stored.tokens.gen \in history'.replaced => stored.tokens.gen # 0
<1>1. history.replaced \subseteq 1..MaxGrants /\ stored.tokens.gen \in 0..MaxGrants
      /\ MaxGrants \in Nat
  BY Numbers DEF StoreInv
<1>2. PICK s : s = history.replaced \cup (IF HasTokens(stored) THEN {stored.tokens.gen} ELSE {})
  OBVIOUS
<1>3. s \subseteq history.replaced \cup ({stored.tokens.gen} \ {0})
  BY <1>2 DEF HasTokens
<1>4. s \in SUBSET (1..MaxGrants) /\ 0 \notin s
  BY <1>1, <1>3
<1>5. history' \in GrantHistory /\ history'.needed = b /\ history'.replaced = s
  BY ONLY <1>2, <1>4, b \in BOOLEAN,
          history' = [needed |-> b,
                      replaced |-> history.replaced
                                     \cup (IF HasTokens(stored) THEN {stored.tokens.gen} ELSE {})]
     DEF GrantHistory
<1> QED  BY <1>3, <1>4, <1>5

\* save: a draft that is saved has no tokens, or those of its own sign-in.
LEMMA SavesDraftStore ==
    ASSUME StoreInv, NEW f \in Form, SavesDraft(f)
    PROVE  StoreInv'
<1>1. PICK r \in Connection : r = form[f].draft
  BY Numbers DEF StoreInv
<1>2. /\ stored' = r /\ StoreFree /\ EditAllowed /\ Edited /\ UNCHANGED <<keeper, document>>
      /\ remote' = remote /\ Closes(f) /\ ~form[f].guard.there /\ ~LoadedTokens(f)
  BY <1>1 DEF SavesDraft, Committing
<1>3. PICK b \in BOOLEAN : b = FALSE
  OBVIOUS
<1>4. history' = [needed |-> b,
                  replaced |-> history.replaced
                                 \cup (IF HasTokens(stored) THEN {stored.tokens.gen} ELSE {})]
  BY <1>3 DEF SavesDraft
<1>5. /\ history' \in GrantHistory /\ ~history'.needed
      /\ history'.replaced \subseteq history.replaced \cup ({stored.tokens.gen} \ {0})
      /\ stored.tokens.gen \in history'.replaced => stored.tokens.gen # 0
  BY <1>3, <1>4, ReplacedIs
<1>6. Draft(f) = r.tokens.gen /\ (Draft(f) = 0 \/ Own(f))
  <2>1. form[f].draft.tokens = form[f].original.tokens \/ Draft(f) = 0 \/ Own(f)
    BY DEF StoreInv, GrantInv, DraftsSound
  <2> QED  BY <1>1, <1>2, <2>1 DEF LoadedTokens, HasTokens, Draft
<1>7. /\ form' \in [Form -> FormState] /\ \A g \in Form : GoesOnOrCloses(g)
      /\ \A g \in Form : form'[g].at = "renewing" => form[g].at = "renewing"
      /\ form'[f] = ClosedForm
  BY <1>2, FormIsSaved
<1>8. stored.tokens.gen \in history'.replaced => r.tokens.gen # stored.tokens.gen
  BY <1>5, <1>6 DEF Own
<1>9. \/ r.tokens.gen \in {0, stored.tokens.gen}
      \/ \E g \in Form : Own(g) /\ r.tokens.gen = Draft(g) /\ form'[g] = ClosedForm
  BY <1>6, <1>7
<1> QED  BY <1>2, <1>5, <1>7, <1>8, <1>9, RecordIsEdited

\* commit_sign_in: what was asked for is no longer pending, the rest is.
LEMMA CommitsSignInStore ==
    ASSUME StoreInv, NEW f \in Form, CommitsSignIn(f)
    PROVE  StoreInv'
<1>1. PICK s \in Connection, d \in Connection, g \in Connection :
         s = stored /\ d = form[f].draft /\ g = form[f].guard
  BY Numbers DEF StoreInv, StoreTypes
<1>2. s.pending \in BOOLEAN /\ g.pending \in BOOLEAN
  BY ConnectionFields
<1>3. PICK p \in BOOLEAN : p = (d.endpoint = g.endpoint /\ unconsumed_scope(g.pending, s.pending))
  BY DEF unconsumed_scope
<1>4. PICK r : r = [d EXCEPT !.pending = p]
  OBVIOUS
<1>5. r \in Connection /\ r.tokens = d.tokens /\ r.pending = p
  BY <1>4, PendingIs DEF RecordIs
<1>6. /\ stored' = r /\ StoreFree /\ EditAllowed /\ Edited /\ UNCHANGED <<keeper, document>>
      /\ remote' = remote /\ Closes(f) /\ g.there /\ form[f].at = "checked"
  BY <1>1, <1>3, <1>4 DEF CommitsSignIn, Committing, At
<1>7. PICK b \in BOOLEAN :
         b = (history.needed /\ d.endpoint = g.endpoint /\ ~form[f].prepared.pending)
  OBVIOUS
<1>8. history' = [needed |-> b,
                  replaced |-> history.replaced
                                 \cup (IF HasTokens(stored) THEN {stored.tokens.gen} ELSE {})]
  BY <1>1, <1>7 DEF CommitsSignIn
<1>9. /\ history' \in GrantHistory /\ history'.needed = b
      /\ history'.replaced \subseteq history.replaced \cup ({stored.tokens.gen} \ {0})
  BY <1>8, ReplacedIs
<1>10. history'.needed => r.pending
  <2>1. SUFFICES ASSUME b PROVE p
    BY <1>5, <1>9
  <2>2. s.pending
    BY <1>1, <1>7, <2>1, StoredIsNotReplaced
  <2>3. form[f].prepared.pending = g.pending
    BY <1>1, <1>6, <1>7, <2>1 DEF StoreInv, GrantInv, GuardsSound
  <2> QED  BY <1>3, <1>7, <2>1, <2>2, <2>3 DEF unconsumed_scope
<1>11. Own(f) /\ Draft(f) = r.tokens.gen
  BY <1>1, <1>5, <1>6 DEF StoreInv, GrantInv, DraftsSound, Draft
<1>12. /\ form' \in [Form -> FormState] /\ \A h \in Form : GoesOnOrCloses(h)
       /\ \A h \in Form : form'[h].at = "renewing" => form[h].at = "renewing"
       /\ form'[f] = ClosedForm
  BY <1>6, FormIsSaved
<1>13. r.tokens.gen # stored.tokens.gen
  BY <1>11 DEF Own
<1>14. \E h \in Form : Own(h) /\ r.tokens.gen = Draft(h) /\ form'[h] = ClosedForm
  BY <1>11, <1>12
<1> QED  BY <1>5, <1>6, <1>9, <1>10, <1>12, <1>13, <1>14, RecordIsEdited

\* A step of a form.
LEMMA FormStepKeeps ==
    ASSUME StoreInv, ClientInv, NEW f \in Form, FormStep(f)
    PROVE  StoreInv' /\ ClientInv'
<1>1. UNCHANGED <<current, client, remote>>
  BY DEF FormStep, Opens, ChangesEndpoint, ChoosesToken, DropsGuard, Prepares, Authorizes,
         SignInFails, StartsSave, FreshForForm, RenewsForForm, RenewalFailsForForm, SaveFails,
         CommitsSignIn, SavesEdit, SavesDraft, Abandons
<1>2. ClientInv'
  BY <1>1, ClientsUnchanged
<1>3. StoreInv'
  BY OpensStore, ChangesEndpointStore, ChoosesTokenStore, DropsGuardStore, PreparesStore,
     AuthorizesStore, SignInFailsStore, StartsSaveStore, FreshForFormStore, RenewsForFormStore,
     RenewalFailsForFormStore, SaveFailsStore, CommitsSignInStore, SavesEditStore,
     SavesDraftStore, AbandonsStore
     DEF FormStep
<1> QED  BY <1>2, <1>3

-----------------------------------------------------------------------------
(* The invariant. *)

McpInv == StoreInv /\ ClientInv

\* A record that somebody signed in for.
LEMMA InitialRecordIs ==
    ASSUME NEW i \in Registration,
           stored = [Absent EXCEPT !.there = TRUE, !.enabled = TRUE,
                                   !.tokens = [gen |-> 1, issued |-> i]]
    PROVE  stored \in Connection /\ stored.tokens.gen = 1
<1>1. PICK t : t = [gen |-> 1, issued |-> i]
  OBVIOUS
<1>2. t \in Tokens /\ t.gen = 1
  BY <1>1, McpAssumption DEF Tokens
<1>3. PICK a \in Connection, b \in BOOLEAN : a = Absent /\ b = TRUE
  BY AbsentIs
<1>4. PICK r : r = [a EXCEPT !.there = b, !.enabled = b, !.tokens = t]
  OBVIOUS
<1>5. r \in Connection /\ r.tokens = t
  BY ONLY <1>4, <1>2, a \in Connection, b \in BOOLEAN DEF Connection
<1>6. stored = r
  BY <1>1, <1>3, <1>4
<1> QED  BY <1>2, <1>5, <1>6

\* It holds before anything has run.
LEMMA McpInvInit == McpInit => McpInv
<1> SUFFICES ASSUME McpInit PROVE McpInv
  OBVIOUS
<1>1. stored \in Connection /\ stored.tokens.gen = 1
  BY InitialRecordIs DEF McpInit
<1>2. /\ keeper = Noone /\ document = Absent
      /\ current = [conn |-> Absent, client |-> NoClient]
      /\ client = [k \in Client |-> Unmade] /\ history = [needed |-> FALSE, replaced |-> {}]
  BY DEF McpInit
<1>3. PICK b \in Bounds, calls \in SUBSET RemoteCall, forms \in SUBSET Form :
         /\ remote = [c \in RemoteCall |->
                        IF c \in calls THEN NewCall ELSE [NewCall EXCEPT !.at = "done"]]
         /\ form = [f \in Form |->
                      IF f \in forms THEN ClosedForm ELSE [ClosedForm EXCEPT !.at = "unused"]]
         /\ counts = [grants |-> MaxGrants - b.grants, edits |-> MaxEdits - b.edits]
  BY DEF McpInit
<1>4. Absent \in Connection
  BY AbsentIs
<1>5. counts \in Counts /\ counts.grants \in 1..MaxGrants
  <2>1. /\ b.grants \in 0..MaxGrants - 1 /\ b.edits \in 0..MaxEdits
        /\ MaxGrants \in Nat \ {0} /\ MaxEdits \in Nat
    BY McpAssumption
  <2> QED  BY <1>3, <2>1 DEF Counts
<1>6. /\ form \in [Form -> FormState]
      /\ \A f \in Form : /\ form[f].draft = Absent /\ form[f].original = Absent
                         /\ form[f].guard = Absent /\ form[f].at # "renewing"
  <2>1. PICK at \in FormPlace : at = "unused"
    BY DEF FormPlace
  <2>2. FormIs([ClosedForm EXCEPT !.at = at], at, Absent, Absent, Absent, Absent)
    BY <1>4, ClosedIs, FormGoesOn
  <2>3. FormIs([ClosedForm EXCEPT !.at = "unused"], "unused", Absent, Absent, Absent, Absent)
    BY <2>1, <2>2
  <2> QED  BY <1>3, <2>3, ClosedIs DEF FormIs
<1>7. history \in GrantHistory
  BY <1>2 DEF GrantHistory
<1>8. StoreTypes
  BY <1>1, <1>2, <1>4, <1>5, <1>6, <1>7 DEF StoreTypes
<1>9. /\ remote \in [RemoteCall -> RemoteState]
      /\ \A c \in RemoteCall : /\ remote[c].at \in {"new", "done"} /\ remote[c].client = NoClient
                               /\ remote[c].ran = 0 /\ remote[c].outcome = "none"
  <2>1. "none" \in CallOutcome /\ 0 \in 0..2
    BY DEF CallOutcome
  <2>2. /\ CallIs(NewCall, "new", Absent, NoClient, 0, "none")
        /\ CallIs([NewCall EXCEPT !.at = "done"], "done", Absent, NoClient, 0, "none")
    BY <2>1, CallIsDone
  <2> QED  BY <1>3, <2>2 DEF CallIs
<1>10. KeeperSound
  BY <1>2, <1>6, <1>9 DEF KeeperSound, Renewing
<1>11. GrantInv
  <2>1. \A f \in Form : Draft(f) = 0 /\ ~form[f].guard.there
    BY <1>6, AbsentIs DEF Draft
  <2>2. PendingSound
    BY <1>2 DEF PendingSound
  <2>3. TokensSound
    BY <1>1, <1>2, <1>5, <2>1 DEF TokensSound
  <2>4. DraftsSound /\ GuardsSound
    BY <2>1 DEF DraftsSound, GuardsSound
  <2> QED  BY <2>2, <2>3, <2>4 DEF GrantInv
<1>12. ClientInv
  <2>1. Unmade \in ClientState
    <3>1. PICK r \in Connection : r = Absent
      BY <1>4
    <3>2. [conn |-> r, mode |-> "none"] \in ClientState
      BY DEF ClientState
    <3> QED  BY <3>1, <3>2 DEF Unmade
  <2>2. current \in Shared /\ current.client = NoClient
    <3>1. PICK r \in Connection : r = Absent
      BY <1>4
    <3> QED  BY <1>2, <3>1 DEF Shared
  <2>3. CallsSound
    BY <1>9, Places DEF CallsSound, CallSound
  <2>4. ClientsApart /\ ClientSound
    <3>1. \A c \in RemoteCall : remote[c].at \notin Holding /\ remote[c].at \notin Talks
      BY <1>9, Places
    <3> QED  BY <3>1 DEF ClientsApart, ClientSound
  <2> QED  BY <1>2, <1>9, <2>1, <2>2, <2>3, <2>4 DEF ClientInv, CurrentSound
<1> QED  BY <1>8, <1>10, <1>11, <1>12 DEF McpInv, StoreInv

\* Every step keeps it.
LEMMA McpInvNext == McpInv /\ [McpNext]_mcpVars => McpInv'
<1> SUFFICES ASSUME McpInv, [McpNext]_mcpVars PROVE McpInv'
  OBVIOUS
<1>1. StoreInv /\ ClientInv
  BY DEF McpInv
<1>2. CASE \E c \in RemoteCall : CallStep(c)
  BY <1>1, <1>2, CallStepKeeps DEF McpInv
<1>3. CASE \E f \in Form : FormStep(f)
  BY <1>1, <1>3, FormStepKeeps DEF McpInv
<1>4. CASE Removes
  <2>1. UNCHANGED <<current, client, remote>>
    BY <1>4 DEF Removes
  <2> QED  BY <1>1, <1>4, <2>1, ClientsUnchanged, RemovesStore DEF McpInv
<1>5. CASE SetsEnabled
  <2>1. UNCHANGED <<current, client, remote>>
    BY <1>5 DEF SetsEnabled
  <2> QED  BY <1>1, <1>5, <2>1, ClientsUnchanged, SetsEnabledStore DEF McpInv
<1>6. CASE UNCHANGED mcpVars
  <2>1. UNCHANGED <<current, client, remote>> /\ UNCHANGED <<stored, form, counts, history>>
        /\ UNCHANGED <<keeper, document>>
    BY <1>6 DEF mcpVars
  <2>2. StoreTypes' /\ GrantInv' /\ KeeperSound'
    <3>1. \A w \in RemoteCall \cup Form : Renewing(w)' => Renewing(w)
      BY <2>1 DEF Renewing
    <3> QED  BY <1>1, <2>1, <3>1, TypesUnchanged, GrantsUnchanged, LockIsKept DEF StoreInv
  <2> QED  BY <1>1, <2>1, <2>2, ClientsUnchanged DEF McpInv, StoreInv
<1> QED  BY <1>2, <1>3, <1>4, <1>5, <1>6 DEF McpNext

\* The invariant holds of every state.
THEOREM McpInvariant == McpSpec => []McpInv
BY McpInvInit, McpInvNext, PTL DEF McpSpec

\* Types.
THEOREM McpIsTyped == McpSpec => []McpTypeOK
<1>1. McpInv => McpTypeOK
  BY TypesOfParts DEF McpInv, StoreInv
<1> QED  BY <1>1, McpInvariant, PTL

\* The permissions a call was challenged for stay pending, and tokens that were
\* replaced stay replaced.
THEOREM PermissionsAreKept == McpSpec => []GrantsAreKept
<1>1. McpInv => GrantsAreKept
  BY StoredIsNotReplaced DEF McpInv, GrantsAreKept
<1> QED  BY <1>1, McpInvariant, PTL

\* Calls run at most once and are told truly.
THEOREM CallsAreToldTruly == McpSpec => []CallsAreTrue
<1>1. McpInv => CallsAreTrue
  <2> SUFFICES ASSUME McpInv, NEW c \in RemoteCall
               PROVE  /\ remote[c].ran <= 1
                      /\ remote[c].outcome \in {"failed", "not_executed"} => remote[c].ran = 0
                      /\ remote[c].outcome = "completed" => remote[c].ran = 1
                      /\ remote[c].at \in {"bound", "expired", "again"} =>
                            same_session(client[remote[c].client].conn, remote[c].conn)
    BY DEF CallsAreTrue
  <2>1. CallSound(remote[c]) /\ ClientSound
    BY DEF McpInv, ClientInv, CallsSound
  <2>2. {"bound", "expired", "again"} \subseteq Talks
    BY DEF Talks
  <2> QED  BY <2>1, <2>2 DEF CallSound, ClientSound
<1> QED  BY <1>1, McpInvariant, PTL
=============================================================================
