---------------------------- MODULE SessionProofs ----------------------------
(***************************************************************************)
(* Proofs about SessionHandle, for any prompts, any number of messages and *)
(* of failing saves.  The archive of the conversation (messages, events),  *)
(* the live document, the copy a save writes and the disk are four         *)
(* versions of one history, and five threads move them: the interface, the *)
(* worker, the autosave, a title request and a process's receipt.          *)
(*                                                                         *)
(* SessionInv says how they stay in line.  Threads: who holds io, and who  *)
(* waits for its result.  SaveSound: the disk begins what the save began   *)
(* with, which begins what is live; what is not dirty is on the disk.      *)
(* LinkSound: what is live begins the archive, with the exceptions that a  *)
(* stage may withdraw, so that a save that fails shortens the document by  *)
(* what its stage added and by nothing else.  ReceiptsFound and            *)
(* StaysValid: a receipt that moves events moves the same ones in both,    *)
(* and no event is left after the messages it follows.                     *)
(*                                                                         *)
(* TurnSound, Apart and NothingLost say in which place each prompt is,     *)
(* InputSound that none is both in a document's input and among its        *)
(* messages, and LastSound that the last captured input is the live one.   *)
(* Once a title has crossed a failed preparation (crossed), LinkSound and  *)
(* InputSound promise nothing, as SavedIsTrue and InputIsKept then do not. *)
(***************************************************************************)
EXTENDS SessionHandle, NaturalsInduction, SequenceTheorems, WellFoundedInduction, TLAPS

-----------------------------------------------------------------------------
(* Sequences.                                                              *)

Begins(s, t) == Len(s) <= Len(t) /\ \A i \in 1..Len(s) : s[i] = t[i]

\* IsPrefix, position by position.
LEMMA PrefixBegins ==
    ASSUME NEW S, NEW s \in Seq(S), NEW t \in Seq(S)
    PROVE  IsPrefix(s, t) <=> Begins(s, t)
BY SubSeqProperties DEF IsPrefix, Begins

\* A sequence begins itself.
LEMMA BeginsItself ==
    ASSUME NEW S, NEW s \in Seq(S)
    PROVE  Begins(s, s)
BY LenProperties DEF Begins

\* What begins a beginning begins the whole.
LEMMA BeginsFurther ==
    ASSUME NEW S, NEW s \in Seq(S), NEW t \in Seq(S), NEW u \in Seq(S),
           Begins(s, t), Begins(t, u)
    PROVE  Begins(s, u)
<1>1. Len(s) \in Nat /\ Len(t) \in Nat /\ Len(u) \in Nat
  BY LenProperties
<1> QED  BY <1>1 DEF Begins

\* A beginning that is as long is the whole.
LEMMA BeginsAll ==
    ASSUME NEW S, NEW s \in Seq(S), NEW t \in Seq(S), Begins(s, t), Len(t) <= Len(s)
    PROVE  s = t
<1>1. Len(s) \in Nat /\ Len(t) \in Nat
  BY LenProperties
<1> QED  BY <1>1, SeqEqual DEF Begins

\* The first n.
LEMMA CutProperties ==
    ASSUME NEW S, NEW s \in Seq(S), NEW n \in 0..Len(s)
    PROVE  /\ SubSeq(s, 1, n) \in Seq(S)
           /\ Len(SubSeq(s, 1, n)) = n
           /\ \A i \in 1..n : SubSeq(s, 1, n)[i] = s[i]
BY SubSeqProperties

\* Cut to the length of a beginning, it is the beginning.
LEMMA CutToBeginning ==
    ASSUME NEW S, NEW s \in Seq(S), NEW t \in Seq(S), Begins(s, t)
    PROVE  SubSeq(t, 1, Len(s)) = s
<1>1. Len(s) \in 0..Len(t) /\ Len(t) \in Nat
  BY LenProperties DEF Begins
<1>2. /\ SubSeq(t, 1, Len(s)) \in Seq(S)
      /\ Len(SubSeq(t, 1, Len(s))) = Len(s)
      /\ \A i \in 1..Len(s) : SubSeq(t, 1, Len(s))[i] = t[i]
  BY <1>1, CutProperties
<1> QED  BY <1>1, <1>2, SeqEqual DEF Begins

\* s, and what t has beyond it.
Extended(s, t) == s \o SubSeq(t, Len(s) + 1, Len(t))

\* The extension begins with s and continues as t does.
LEMMA ExtendedProperties ==
    ASSUME NEW S, NEW s \in Seq(S), NEW t \in Seq(S)
    PROVE  /\ Extended(s, t) \in Seq(S)
           /\ Len(Extended(s, t)) = IF Len(s) <= Len(t) THEN Len(t) ELSE Len(s)
           /\ \A i \in 1..Len(s) : Extended(s, t)[i] = s[i]
           /\ \A i \in (Len(s) + 1)..Len(t) : Extended(s, t)[i] = t[i]
           /\ Begins(s, Extended(s, t))
<1> DEFINE tail == SubSeq(t, Len(s) + 1, Len(t))
<1>1. Len(s) \in Nat /\ Len(t) \in Nat
  BY LenProperties
<1>2. \A i \in (Len(s) + 1)..Len(t) : t[i] \in S
  BY <1>1, ElementOfSeq
<1>3. /\ tail \in Seq(S)
      /\ Len(tail) = IF Len(s) + 1 <= Len(t) THEN Len(t) - (Len(s) + 1) + 1 ELSE 0
      /\ \A i \in 1..(Len(t) - (Len(s) + 1) + 1) : tail[i] = t[Len(s) + 1 + i - 1]
  BY <1>1, <1>2, SubSeqProperties
<1> HIDE DEF tail
<1>4. /\ s \o tail \in Seq(S)
      /\ Len(s \o tail) = Len(s) + Len(tail)
      /\ \A i \in 1..(Len(s) + Len(tail)) :
            (s \o tail)[i] = IF i <= Len(s) THEN s[i] ELSE tail[i - Len(s)]
  BY <1>3, ConcatProperties
<1> DEFINE u == s \o tail
<1>5. u \in Seq(S) /\ Len(u) = Len(s) + Len(tail)
  BY <1>4
<1>6. \A i \in 1..(Len(s) + Len(tail)) : u[i] = IF i <= Len(s) THEN s[i] ELSE tail[i - Len(s)]
  BY <1>4
<1> HIDE DEF u
<1>7. Len(u) = IF Len(s) <= Len(t) THEN Len(t) ELSE Len(s)
  BY <1>1, <1>3, <1>5
<1>8. \A i \in 1..Len(s) : u[i] = s[i]
  BY <1>1, <1>3, <1>6
<1>9. \A i \in (Len(s) + 1)..Len(t) : u[i] = t[i]
  <2> TAKE i \in (Len(s) + 1)..Len(t)
  <2>1. i \in 1..(Len(s) + Len(tail)) /\ ~(i <= Len(s)) /\ i - Len(s) \in 1..(Len(t) - (Len(s) + 1) + 1)
    BY <1>1, <1>3
  <2>2. u[i] = tail[i - Len(s)] /\ tail[i - Len(s)] = t[Len(s) + 1 + (i - Len(s)) - 1]
    BY <2>1, <1>3, <1>6
  <2> QED  BY <2>2, <1>1
<1>10. Begins(s, u)
  BY <1>1, <1>7, <1>8 DEF Begins
<1>11. u = Extended(s, t)
  BY DEF Extended, u, tail
<1> QED  BY <1>5, <1>7, <1>8, <1>9, <1>10, <1>11

\* Extending a beginning of t gives t.
LEMMA ExtendedBeginning ==
    ASSUME NEW S, NEW s \in Seq(S), NEW t \in Seq(S), Begins(s, t)
    PROVE  Extended(s, t) = t
<1>1. Len(s) \in Nat /\ Len(t) \in Nat /\ Len(s) <= Len(t)
  BY LenProperties DEF Begins
<1>2. /\ Extended(s, t) \in Seq(S)
      /\ Len(Extended(s, t)) = IF Len(s) <= Len(t) THEN Len(t) ELSE Len(s)
      /\ \A i \in 1..Len(s) : Extended(s, t)[i] = s[i]
      /\ \A i \in (Len(s) + 1)..Len(t) : Extended(s, t)[i] = t[i]
  BY ExtendedProperties
<1>3. \A i \in 1..Len(t) : Extended(s, t)[i] = t[i]
  BY <1>1, <1>2 DEF Begins
<1> QED  BY <1>1, <1>2, <1>3, SeqEqual

\* Append keeps what was there and puts e behind it.
LEMMA AppendedProperties ==
    ASSUME NEW S, NEW s \in Seq(S), NEW e \in S
    PROVE  /\ Append(s, e) \in Seq(S)
           /\ Len(Append(s, e)) = Len(s) + 1
           /\ \A i \in 1..Len(s) : Append(s, e)[i] = s[i]
           /\ Append(s, e)[Len(s) + 1] = e
           /\ Begins(s, Append(s, e))
<1>1. Len(s) \in Nat
  BY LenProperties
<1> QED  BY <1>1 DEF Begins

\* What begins s with e appended, and is no longer than s, begins s.
LEMMA BothAppended ==
    ASSUME NEW S, NEW s \in Seq(S), NEW t \in Seq(S), NEW e \in S, Begins(s, t)
    PROVE  Begins(s, Append(t, e))
BY AppendedProperties, BeginsFurther

\* RemoveAt keeps what precedes k, and what follows moves one down.
LEMMA RemovedProperties ==
    ASSUME NEW S, NEW s \in Seq(S), NEW k \in 1..Len(s)
    PROVE  /\ RemoveAt(s, k) \in Seq(S)
           /\ Len(RemoveAt(s, k)) = Len(s) - 1
           /\ \A i \in 1..(k - 1) : RemoveAt(s, k)[i] = s[i]
           /\ \A i \in k..(Len(s) - 1) : RemoveAt(s, k)[i] = s[i + 1]
<1>1. Len(s) \in Nat /\ k \in Nat
  BY LenProperties
<1>2. /\ \A i \in 1..(k - 1) : s[i] \in S
      /\ \A i \in (k + 1)..Len(s) : s[i] \in S
  BY <1>1, ElementOfSeq
<1> DEFINE a == SubSeq(s, 1, k - 1)
           b == SubSeq(s, k + 1, Len(s))
<1>3. a \in Seq(S) /\ Len(a) = k - 1 /\ \A i \in 1..(k - 1) : a[i] = s[i]
  BY <1>1, CutProperties
<1>4. /\ b \in Seq(S)
      /\ Len(b) = IF k + 1 <= Len(s) THEN Len(s) - (k + 1) + 1 ELSE 0
      /\ \A i \in 1..(Len(s) - (k + 1) + 1) : b[i] = s[k + 1 + i - 1]
  BY <1>1, <1>2, SubSeqProperties
<1> HIDE DEF a, b
<1>5. /\ a \o b \in Seq(S)
      /\ Len(a \o b) = Len(a) + Len(b)
      /\ \A i \in 1..(Len(a) + Len(b)) : (a \o b)[i] = IF i <= Len(a) THEN a[i] ELSE b[i - Len(a)]
  BY <1>3, <1>4, ConcatProperties
<1>6. Len(a) + Len(b) = Len(s) - 1
  BY <1>1, <1>3, <1>4
<1>7. \A i \in 1..(k - 1) : (a \o b)[i] = s[i]
  BY <1>1, <1>3, <1>5, <1>6
<1>8. \A i \in k..(Len(s) - 1) : (a \o b)[i] = s[i + 1]
  <2> TAKE i \in k..(Len(s) - 1)
  <2>1. /\ i \in 1..(Len(a) + Len(b)) /\ ~(i <= Len(a))
        /\ i - Len(a) \in 1..(Len(s) - (k + 1) + 1)
        /\ k + 1 + (i - Len(a)) - 1 = i + 1
    BY <1>1, <1>3, <1>6
  <2>2. (a \o b)[i] = b[i - Len(a)]
    BY <1>5, <2>1
  <2>3. b[i - Len(a)] = s[k + 1 + (i - Len(a)) - 1]
    BY <1>4, <2>1
  <2> QED  BY <2>1, <2>2, <2>3
<1>9. RemoveAt(s, k) = a \o b
  BY DEF RemoveAt, a, b
<1> QED  BY <1>5, <1>6, <1>7, <1>8, <1>9

\* InsertAt keeps what precedes k, and what follows moves one up.
LEMMA InsertedProperties ==
    ASSUME NEW S, NEW s \in Seq(S), NEW k \in 1..(Len(s) + 1), NEW e \in S
    PROVE  /\ InsertAt(s, k, e) \in Seq(S)
           /\ Len(InsertAt(s, k, e)) = Len(s) + 1
           /\ \A i \in 1..(k - 1) : InsertAt(s, k, e)[i] = s[i]
           /\ InsertAt(s, k, e)[k] = e
           /\ \A i \in (k + 1)..(Len(s) + 1) : InsertAt(s, k, e)[i] = s[i - 1]
<1>1. Len(s) \in Nat /\ k \in Nat
  BY LenProperties
<1>2. \A i \in k..Len(s) : s[i] \in S
  BY <1>1, ElementOfSeq
<1> DEFINE a == SubSeq(s, 1, k - 1)
           b == SubSeq(s, k, Len(s))
           c == Append(a, e)
<1>3. a \in Seq(S) /\ Len(a) = k - 1 /\ \A i \in 1..(k - 1) : a[i] = s[i]
  BY <1>1, CutProperties
<1>4. /\ b \in Seq(S)
      /\ Len(b) = IF k <= Len(s) THEN Len(s) - k + 1 ELSE 0
      /\ \A i \in 1..(Len(s) - k + 1) : b[i] = s[k + i - 1]
  BY <1>1, <1>2, SubSeqProperties
<1> HIDE DEF a, b
<1>5. /\ c \in Seq(S) /\ Len(c) = k
      /\ \A i \in 1..(k - 1) : c[i] = s[i]
      /\ c[k] = e
  BY <1>1, <1>3, AppendedProperties
<1>6. c = a \o <<e>>
  BY <1>3
<1> HIDE DEF c
<1>7. /\ c \o b \in Seq(S)
      /\ Len(c \o b) = Len(c) + Len(b)
      /\ \A i \in 1..(Len(c) + Len(b)) : (c \o b)[i] = IF i <= Len(c) THEN c[i] ELSE b[i - Len(c)]
  BY <1>4, <1>5, ConcatProperties
<1>8. Len(c) + Len(b) = Len(s) + 1
  BY <1>1, <1>4, <1>5
<1>9. (\A i \in 1..(k - 1) : (c \o b)[i] = s[i]) /\ (c \o b)[k] = e
  BY <1>1, <1>5, <1>7, <1>8
<1>10. \A i \in (k + 1)..(Len(s) + 1) : (c \o b)[i] = s[i - 1]
  <2> TAKE i \in (k + 1)..(Len(s) + 1)
  <2>1. /\ i \in 1..(Len(c) + Len(b)) /\ ~(i <= Len(c))
        /\ i - Len(c) \in 1..(Len(s) - k + 1)
        /\ k + (i - Len(c)) - 1 = i - 1
    BY <1>1, <1>5, <1>8
  <2>2. (c \o b)[i] = b[i - Len(c)]
    BY <1>7, <2>1
  <2>3. b[i - Len(c)] = s[k + (i - Len(c)) - 1]
    BY <1>4, <2>1
  <2> QED  BY <2>1, <2>2, <2>3
<1>11. InsertAt(s, k, e) = c \o b
  BY <1>6 DEF InsertAt, a, b
<1> QED  BY <1>7, <1>8, <1>9, <1>10, <1>11

\* Front drops the last.
LEMMA FrontProperties ==
    ASSUME NEW S, NEW s \in Seq(S), Len(s) > 0
    PROVE  /\ Front(s) \in Seq(S)
           /\ Len(Front(s)) = Len(s) - 1
           /\ \A i \in 1..(Len(s) - 1) : Front(s)[i] = s[i]
<1>1. Len(s) - 1 \in 0..Len(s)
  BY LenProperties
<1> QED  BY <1>1, CutProperties DEF Front
-----------------------------------------------------------------------------
(* Records.                                                                *)

SaveState ==
    [by : Writer \cup {Nobody}, stage : {"Preserve", "Begin", "Accept"}, step : {"copy", "write"},
     copy : Document, before : Document, edited : BOOLEAN, stale : BOOLEAN, displaced : Nat]

DocIs(d, ms, es, input, back) ==
    /\ d \in Document
    /\ d.messages = ms /\ d.events = es /\ d.input = input /\ d.returned = back

\* The fields of a document are of their types.
LEMMA DocFields ==
    ASSUME NEW d \in Document
    PROVE  /\ d.messages \in Seq(Message) /\ d.events \in Seq(HistoryEvent)
           /\ d.input \in Input /\ d.returned \in SUBSET (1..MaxMessages)
BY DEF Document

\* A document is its fields.
LEMMA SameDoc ==
    ASSUME NEW d \in Document, NEW e \in Document,
           d.messages = e.messages, d.events = e.events, d.input = e.input,
           d.returned = e.returned
    PROVE  d = e
BY DEF Document

\* A document with another input.
LEMMA DocWithInput ==
    ASSUME NEW d \in Document, NEW input \in Input
    PROVE  DocIs([d EXCEPT !.input = input], d.messages, d.events, input, d.returned)
BY DEF DocIs, Document

\* A document with other events.
LEMMA DocWithEvents ==
    ASSUME NEW d \in Document, NEW es \in Seq(HistoryEvent)
    PROVE  DocIs([d EXCEPT !.events = es], d.messages, es, d.input, d.returned)
BY DEF DocIs, Document

\* A document with other returned messages.
LEMMA DocWithReturned ==
    ASSUME NEW d \in Document, NEW back \in SUBSET (1..MaxMessages)
    PROVE  DocIs([d EXCEPT !.returned = back], d.messages, d.events, d.input, back)
BY DEF DocIs, Document

\* A document with another history.
LEMMA DocWithHistory ==
    ASSUME NEW d \in Document, NEW ms \in Seq(Message), NEW es \in Seq(HistoryEvent)
    PROVE  DocIs([d EXCEPT !.messages = ms, !.events = es], ms, es, d.input, d.returned)
BY DEF DocIs, Document

\* A document that follows the archive.
LEMMA DocWithArchive ==
    ASSUME NEW d \in Document, NEW ms \in Seq(Message), NEW es \in Seq(HistoryEvent),
           NEW back \in SUBSET (1..MaxMessages)
    PROVE  DocIs([d EXCEPT !.messages = ms, !.events = es, !.returned = back],
                 ms, es, d.input, back)
BY DEF DocIs, Document

\* A document whose queued prompt is accepted.
LEMMA DocAccepting ==
    ASSUME NEW d \in Document
    PROVE  /\ DocIs([d EXCEPT !.input.queued = {}], d.messages, d.events,
                    [draft |-> d.input.draft, queued |-> {}], d.returned)
           /\ [draft |-> d.input.draft, queued |-> {}] \in Input
<1>1. d.input \in Input
  BY DocFields
<1>2. [d.input EXCEPT !.queued = {}] = [draft |-> d.input.draft, queued |-> {}]
  BY <1>1 DEF Input
<1>3. [draft |-> d.input.draft, queued |-> {}] \in Input
  BY <1>1 DEF Input
<1>4. [d EXCEPT !.input.queued = {}] = [d EXCEPT !.input = [d.input EXCEPT !.queued = {}]]
  BY DEF Document
<1>5. DocIs([d EXCEPT !.input = [draft |-> d.input.draft, queued |-> {}]], d.messages, d.events,
            [draft |-> d.input.draft, queued |-> {}], d.returned)
  BY <1>3, DocWithInput
<1> QED  BY <1>2, <1>3, <1>4, <1>5

\* A new session's document is one.
LEMMA EmptyIsDocument == Empty \in Document
<1>1. [draft |-> {}, queued |-> {}] \in Input
  BY DEF Input
<1>2. <<>> \in Seq(Message) /\ <<>> \in Seq(HistoryEvent)
  BY EmptySeq
<1> QED  BY <1>1, <1>2 DEF Empty, Document

SaveIs(s, by, stage, step, copy, before, edited, stale, displaced) ==
    /\ s \in SaveState
    /\ s.by = by /\ s.stage = stage /\ s.step = step /\ s.copy = copy /\ s.before = before
    /\ s.edited = edited /\ s.stale = stale /\ s.displaced = displaced

\* The fields of no save.
LEMMA NoSaveIs ==
    SaveIs(NoSave, Nobody, "Preserve", "copy", Empty, Empty, FALSE, FALSE, 0)
<1>1. PICK f \in BOOLEAN : f = FALSE
  OBVIOUS
<1>2. PICK e \in Document : e = Empty
  BY EmptyIsDocument
<1>3. SaveIs([by |-> Nobody, stage |-> "Preserve", step |-> "copy", copy |-> e,
              before |-> e, edited |-> f, stale |-> f, displaced |-> 0],
             Nobody, "Preserve", "copy", e, e, f, f, 0)
  BY DEF SaveIs, SaveState
<1> QED  BY <1>1, <1>2, <1>3 DEF NoSave

\* The fields of a save that begins.
LEMMA SavingIs ==
    ASSUME NEW by \in Writer, NEW stage \in {"Preserve", "Begin", "Accept"},
           NEW displaced \in Nat, live \in Document
    PROVE  SaveIs(SavingWith(by, stage, displaced),
                  by, stage, "copy", Empty, live, FALSE, FALSE, displaced)
<1>1. PICK f \in BOOLEAN : f = FALSE
  OBVIOUS
<1>2. PICK e \in Document : e = Empty
  BY EmptyIsDocument
<1>3. PICK d \in Document : d = live
  OBVIOUS
<1>4. SaveIs([[by |-> Nobody, stage |-> "Preserve", step |-> "copy", copy |-> e,
               before |-> e, edited |-> f, stale |-> f, displaced |-> 0]
              EXCEPT !.by = by, !.stage = stage, !.before = d, !.displaced = displaced],
             by, stage, "copy", e, d, f, f, displaced)
  BY DEF SaveIs, SaveState
<1> QED  BY <1>1, <1>2, <1>3, <1>4 DEF SavingWith, NoSave

\* The fields of a save that has copied what is live.
LEMMA CopyingIs ==
    ASSUME NEW s \in SaveState, NEW d \in Document
    PROVE  SaveIs([s EXCEPT !.step = "write", !.copy = d],
                  s.by, s.stage, "write", d, s.before, s.edited, s.stale, s.displaced)
BY DEF SaveIs, SaveState

\* The fields of a save during which the document changed.
LEMMA ChangedIs ==
    ASSUME NEW s \in SaveState, NEW edited \in BOOLEAN, NEW stale \in BOOLEAN
    PROVE  SaveIs([s EXCEPT !.edited = edited, !.stale = stale],
                  s.by, s.stage, s.step, s.copy, s.before, edited, stale, s.displaced)
BY DEF SaveIs, SaveState

\* The fields of a save are of their types.
LEMMA SaveFields ==
    ASSUME NEW s \in SaveState
    PROVE  /\ s.by \in Writer \cup {Nobody} /\ s.stage \in {"Preserve", "Begin", "Accept"}
           /\ s.step \in {"copy", "write"} /\ s.copy \in Document /\ s.before \in Document
           /\ s.edited \in BOOLEAN /\ s.stale \in BOOLEAN /\ s.displaced \in Nat
BY DEF SaveState

\* A save is its fields.
LEMMA SameSave ==
    ASSUME NEW s \in SaveState, NEW t \in SaveState,
           s.by = t.by, s.stage = t.stage, s.step = t.step, s.copy = t.copy,
           s.before = t.before, s.edited = t.edited, s.stale = t.stale,
           s.displaced = t.displaced
    PROVE  s = t
BY DEF SaveState

\* A save that nobody makes is not changed by a capture.
LEMMA ChangedNoSave ==
    ASSUME save = NoSave
    PROVE  Changed = NoSave
<1>1. SaveIs(NoSave, Nobody, "Preserve", "copy", Empty, Empty, FALSE, FALSE, 0)
  BY NoSaveIs
<1>2. PICK f \in BOOLEAN : f = FALSE
  OBVIOUS
<1>3. PICK s \in SaveState : s = NoSave
  BY <1>1 DEF SaveIs
<1>4. SaveIs([s EXCEPT !.edited = f, !.stale = f],
             s.by, s.stage, s.step, s.copy, s.before, f, f, s.displaced)
  BY ChangedIs
<1>5. (save # NoSave) = f /\ (save.step = "write") = f
  BY <1>1, <1>2 DEF SaveIs
<1>6. Changed = [s EXCEPT !.edited = f, !.stale = f]
  BY <1>3, <1>5 DEF Changed
<1>7. s.edited = f /\ s.stale = f
  BY <1>1, <1>2, <1>3 DEF SaveIs
<1>8. PICK t \in SaveState : t = [s EXCEPT !.edited = f, !.stale = f]
  BY <1>4 DEF SaveIs
<1>9. /\ t.by = s.by /\ t.stage = s.stage /\ t.step = s.step /\ t.copy = s.copy
      /\ t.before = s.before /\ t.edited = s.edited /\ t.stale = s.stale
      /\ t.displaced = s.displaced
  BY <1>4, <1>7, <1>8 DEF SaveIs
<1>10. t = s
  BY ONLY s \in SaveState, t \in SaveState, <1>9, SameSave
<1> QED  BY <1>3, <1>6, <1>8, <1>10

Results == [{"ui", "worker"} -> {"none", "ok", "error"}]

ResultIs(r, s, by, outcome) ==
    /\ r \in Results /\ r[by] = outcome
    /\ \A w \in {"ui", "worker"} : w # by => r[w] = s[w]

\* Telling one thread its result leaves the other's alone.
LEMMA ResultTold ==
    ASSUME NEW s \in Results, NEW by \in {"ui", "worker"}, NEW outcome \in {"none", "ok", "error"}
    PROVE  ResultIs([s EXCEPT ![by] = outcome], s, by, outcome)
BY DEF ResultIs, Results
-----------------------------------------------------------------------------
(* The inductive invariant.                                                *)

Typed ==
    /\ HandleTypeOK /\ save \in SaveState
    /\ Len(messages) <= MaxMessages /\ Len(live.messages) <= MaxMessages

\* Who holds io, and who waits for a result.
Threads ==
    /\ save.by = Nobody => save = NoSave
    /\ save.by = "ui" => ui \in {"beginning", "returning"} /\ result["ui"] = "none"
    /\ save.by = "worker" =>
           worker \in {"accepting", "answering", "ending"} /\ result["worker"] = "none"
    /\ save.stage = "Begin" <=> save.by = "ui" /\ ui = "beginning"
    /\ save.stage = "Accept" <=> save.by = "worker" /\ worker = "accepting"
    /\ result["ui"] # "none" => ui \in {"beginning", "returning"}
    /\ result["worker"] # "none" => worker \in {"accepting", "answering", "ending"}
    /\ ui \notin {"loop", "capture"} => worker = "idle"

DocBegins(d, e) == Begins(d.messages, e.messages) /\ Begins(d.events, e.events)

\* While a receipt is saved it is the first event beyond the saved ones.
ReceiptSaved ==
    /\ Len(live.events) = Len(save.before.events) + 1
    /\ Len(live.events) <= Len(events)
    /\ live.events[Len(live.events)].kind = "receipt"
    /\ events[Len(live.events)] = live.events[Len(live.events)]
    /\ save.displaced = 0 \/ save.displaced \in Len(live.events)..Len(events)

\* The disk lags behind what is live, and a save behind what it saves.
SaveSound ==
    /\ save.by # Nobody => dirty /\ DocBegins(disk, save.before) /\ DocBegins(save.before, live)
    /\ ~dirty => disk = live
    /\ DocBegins(disk, live)
    /\ save.step = "write" =>
           /\ save.copy.messages = live.messages /\ save.copy.events = live.events
           /\ ~save.stale => save.copy = live
    /\ save.step = "copy" => ~save.stale
    /\ save.by = "receipt" => ReceiptSaved

\* A turn is prepared; its prompt is the last message while it is Beginning, and
\* is not yet one, or no more one, while it is OnItsWay.
Beginning == ui \in {"begin", "beginning"}
Turning == ui \in {"starting", "begin", "beginning", "withdrawing"}
OnItsWay == ui \in {"starting", "withdrawing"}

\* The messages that are not being accepted, and those of them nobody took back.
Settled == IF worker = "accepting" THEN Len(messages) - 1 ELSE Len(messages)
Kept == (1..Settled) \ returned

\* The prompts of the messages beyond the first n.
Joined(ms, n, m) == UNION {ms[i] : i \in (n + 1)..m}

\* The prompts of a turn.
TurnSound ==
    /\ Beginning => Len(messages) = from + 1 /\ messages[from + 1] = sending
    /\ OnItsWay => Len(messages) = from
    /\ ui = "starting" => from < MaxMessages
    /\ ~Turning => sending = {}
    /\ worker = "idle" => submission = {} /\ unshown = {}
    /\ returned \subseteq 1..Len(messages)
    /\ worker # "idle" \/ Beginning => returned \subseteq 1..from /\ from < Settled
    /\ worker # "idle" =>
           submission \cup unshown = Joined(messages, from, Settled)
    /\ worker = "accepting" => messages[Len(messages)] = queued /\ recorded

\* A prompt is in one place.
Apart ==
    /\ composer \cap paused = {} /\ (composer \cup paused) \cap queued = {}
    /\ \A i \in Kept : messages[i] \cap (composer \cup paused \cup queued) = {}
    /\ \A i, j \in Kept : i # j => messages[i] \cap messages[j] = {}
    /\ composer \cup paused \cup queued \subseteq written
    /\ \A i \in 1..Len(messages) : messages[i] \subseteq written

\* What a withdrawal takes back is not in a document.
Unsaved(doc) ==
    /\ Len(doc.messages) <= from
    /\ \E i \in 1..Len(events) : i > Len(doc.events) /\ events[i] = Start

\* The start is noted and no checkpoint has taken it, or one has given it back.
Unstarted == ui \in {"starting", "begin", "withdrawing"} \/ (ui = "beginning" /\ result["ui"] = "error")

LinkSound ==
    crossed \/
    /\ Begins(live.messages, messages) /\ Begins(live.events, events)
    /\ Unstarted => Unsaved(live)
    /\ save.stage = "Begin" => Unsaved(save.before)
    /\ worker = "accepting" /\ save.stage # "Accept" /\ result["worker"] # "ok" =>
           Len(live.messages) < Len(messages)
    /\ save.stage = "Accept" => Len(save.before.messages) < Len(messages)
    /\ worker = "accepting" /\ (save.stage = "Accept" \/ result["worker"] = "ok") =>
           Len(live.messages) = Len(messages)

OneIn(es) ==
    \A i, j \in 1..Len(es) : es[i].kind = "receipt" /\ es[j].kind = "receipt" => i = j

\* A receipt that is live was noted, no later.
ReceiptsFound ==
    /\ OneIn(events) /\ OneIn(live.events)
    /\ \A i \in 1..Len(live.events) : live.events[i].kind = "receipt" =>
           \E j \in 1..Len(events) : j <= i /\ events[j].kind = "receipt"

\* The messages no withdrawal takes back, in the archive and in the document.
Floor == IF Beginning THEN from ELSE Settled
Base == IF save.stage \in {"Begin", "Accept"} THEN save.before ELSE live

StaysValid ==
    /\ Valid(live)
    /\ save.by # Nobody => Valid(save.before)
    /\ \A i \in 1..Len(events) :
           events[i].after <= Floor \/ events[i].after <= Len(Base.messages)

Inputs(doc) == doc.input.draft \cup doc.input.queued

\* No prompt is in a document's input and in its messages, or in the archive's.
Clear(doc) == \A i \in (1..Len(doc.messages)) \ returned : doc.messages[i] \cap Inputs(doc) = {}
KeptFrom(doc) == \A i \in Kept : messages[i] \cap Inputs(doc) = {}

InputSound ==
    crossed \/
    /\ Clear(live) /\ Clear(disk) /\ (save.step = "write" => Clear(save.copy))
    /\ KeptFrom(live)
    /\ recorded => live.input.draft \cap queued = {}
    /\ save.stage \in {"Begin", "Accept"} =>
           /\ ~save.edited /\ save.before.input.draft = live.input.draft
           /\ KeptFrom(save.before)

LastSound == last \in {NoInput, live.input}

\* A prompt that is no message yet, or no more, is nowhere else.
SendingSound ==
    OnItsWay =>
        /\ sending \cap (composer \cup paused \cup queued) = {} /\ sending \subseteq written
        /\ \A i \in Kept : messages[i] \cap sending = {}
        /\ ui = "starting" => sending \cap Inputs(live) = {}

SessionInv ==
    /\ Typed /\ Threads /\ SaveSound /\ TurnSound /\ Apart /\ NothingLost
    /\ LinkSound /\ ReceiptsFound /\ StaysValid /\ InputSound /\ LastSound /\ SendingSound

-----------------------------------------------------------------------------
(* Types.                                                                  *)

\* The type invariant, one variable at a time.
LEMMA HandleTypes ==
    HandleTypeOK <=>
        /\ written \in SUBSET Prompt /\ composer \in SUBSET Prompt /\ paused \in SUBSET Prompt
        /\ queued \in SUBSET Prompt /\ unshown \in SUBSET Prompt
        /\ sending \in SUBSET Prompt /\ submission \in SUBSET Prompt
        /\ from \in 0..MaxMessages
        /\ ui \in {"loop", "capture", "starting", "begin", "beginning", "withdrawing",
                         "returned", "returning"}
        /\ worker \in {"idle", "asking", "accepting", "sampling", "answering", "ending", "done"}
        /\ background \in {"idle", "saving"}
        /\ namer \in {"none", "asked", "saving", "done"}
        /\ receipt \in {"none", "saving", "done"}
        /\ recorded \in BOOLEAN /\ failed \in BOOLEAN /\ dirty \in BOOLEAN /\ crossed \in BOOLEAN
        /\ messages \in Seq(Message) /\ events \in Seq(HistoryEvent)
        /\ returned \in SUBSET (1..MaxMessages)
        /\ live \in Document /\ disk \in Document
        /\ last \in Input \cup {NoInput}
        /\ save.by \in Writer \cup {Nobody} /\ save.step \in {"copy", "write"}
        /\ result \in Results
        /\ faults \in 0..MaxFaults
BY DEF HandleTypeOK, Results

\* The same of the next state.
LEMMA NextHandleTypes ==
    HandleTypeOK' <=>
        /\ written' \in SUBSET Prompt /\ composer' \in SUBSET Prompt /\ paused' \in SUBSET Prompt
        /\ queued' \in SUBSET Prompt /\ unshown' \in SUBSET Prompt
        /\ sending' \in SUBSET Prompt /\ submission' \in SUBSET Prompt
        /\ from' \in 0..MaxMessages
        /\ ui' \in {"loop", "capture", "starting", "begin", "beginning", "withdrawing",
                         "returned", "returning"}
        /\ worker' \in {"idle", "asking", "accepting", "sampling", "answering", "ending", "done"}
        /\ background' \in {"idle", "saving"}
        /\ namer' \in {"none", "asked", "saving", "done"}
        /\ receipt' \in {"none", "saving", "done"}
        /\ recorded' \in BOOLEAN /\ failed' \in BOOLEAN /\ dirty' \in BOOLEAN
        /\ crossed' \in BOOLEAN
        /\ messages' \in Seq(Message) /\ events' \in Seq(HistoryEvent)
        /\ returned' \in SUBSET (1..MaxMessages)
        /\ live' \in Document /\ disk' \in Document
        /\ last' \in Input \cup {NoInput}
        /\ save'.by \in Writer \cup {Nobody} /\ save'.step \in {"copy", "write"}
        /\ result' \in Results
        /\ faults' \in 0..MaxFaults
BY DEF HandleTypeOK, Results

\* The lengths that are compared.
LEMMA Lengths ==
    ASSUME Typed
    PROVE  /\ Len(messages) \in Nat /\ Len(events) \in Nat
           /\ live \in Document /\ disk \in Document
           /\ live.messages \in Seq(Message) /\ live.events \in Seq(HistoryEvent)
           /\ disk.messages \in Seq(Message) /\ disk.events \in Seq(HistoryEvent)
           /\ messages \in Seq(Message) /\ events \in Seq(HistoryEvent)
           /\ Len(live.messages) \in Nat /\ Len(live.events) \in Nat
           /\ Len(disk.messages) \in Nat /\ Len(disk.events) \in Nat
           /\ save \in SaveState /\ save.copy \in Document /\ save.before \in Document
           /\ save.before.messages \in Seq(Message) /\ save.before.events \in Seq(HistoryEvent)
           /\ Len(save.before.messages) \in Nat /\ Len(save.before.events) \in Nat
           /\ save.copy.messages \in Seq(Message) /\ save.copy.events \in Seq(HistoryEvent)
           /\ MaxMessages \in Nat
<1>1. live \in Document /\ disk \in Document /\ messages \in Seq(Message) /\ events \in Seq(HistoryEvent)
  BY HandleTypes DEF Typed
<1>2. save \in SaveState
  BY DEF Typed
<1>3. save.copy \in Document /\ save.before \in Document
  BY <1>2, SaveFields
<1>4. \A d \in Document : d.messages \in Seq(Message) /\ d.events \in Seq(HistoryEvent)
  BY DocFields
<1>5. \A s \in Seq(Message) : Len(s) \in Nat
  BY LenProperties
<1>6. \A s \in Seq(HistoryEvent) : Len(s) \in Nat
  BY LenProperties
<1> QED  BY <1>1, <1>2, <1>3, <1>4, <1>5, <1>6, BoundsAssumption

-----------------------------------------------------------------------------
(* What the parts of a step do to the handle.                              *)

\* checkpoint brings the document up to the archive.
LEMMA SyncedIs ==
    ASSUME Typed
    PROVE  DocIs(Synced, Extended(live.messages, messages), Extended(live.events, events),
                 live.input, returned)
<1>1. live \in Document /\ messages \in Seq(Message) /\ events \in Seq(HistoryEvent)
      /\ live.messages \in Seq(Message) /\ live.events \in Seq(HistoryEvent)
  BY Lengths
<1>2. returned \in SUBSET (1..MaxMessages)
  BY HandleTypes DEF Typed
<1>3. PICK ms \in Seq(Message) : ms = Extended(live.messages, messages)
  BY <1>1, ExtendedProperties
<1>4. PICK es \in Seq(HistoryEvent) : es = Extended(live.events, events)
  BY <1>1, ExtendedProperties
<1>5. PICK d \in Document : d = live
  BY <1>1
<1>6. PICK back \in SUBSET (1..MaxMessages) : back = returned
  BY <1>2
<1>7. DocIs([d EXCEPT !.messages = ms, !.events = es, !.returned = back], ms, es, d.input, back)
  BY DocWithArchive
<1>8. Synced = [d EXCEPT !.messages = ms, !.events = es, !.returned = back]
  BY <1>3, <1>4, <1>5, <1>6 DEF Synced, Extended
<1> QED  BY <1>3, <1>4, <1>5, <1>6, <1>7, <1>8

\* capture_input changes nothing but the input.
CaptureIs(draft, queue) ==
    /\ recorded' = TRUE /\ disk' = disk
    /\ last' = [draft |-> draft, queued |-> queue]
    /\ live' \in Document
    /\ live'.messages = live.messages /\ live'.events = live.events
    /\ live'.returned = live.returned
    /\ live'.input = [draft |-> draft, queued |-> queue]
       \/ (last = [draft |-> draft, queued |-> queue] /\ live'.input = live.input)
    /\ save' \in SaveState
    /\ save'.by = save.by /\ save'.stage = save.stage /\ save'.step = save.step
    /\ save'.copy = save.copy /\ save'.before = save.before /\ save'.displaced = save.displaced
    /\ save = NoSave => save' = NoSave
    /\ \/ live' = live /\ save' = save /\ dirty' = dirty
       \/ dirty' = TRUE /\ (save'.stale <=> save.step = "write")

\* capture_input, in terms of the document's fields.
LEMMA CaptureEffect ==
    ASSUME Typed, NEW draft \in SUBSET Prompt, NEW queue \in SUBSET Prompt,
           CapturedInto(draft, queue)
    PROVE  CaptureIs(draft, queue)
<1> DEFINE captured == [draft |-> draft, queued |-> queue]
<1>1. captured \in Input
  BY DEF Input
<1>2. PICK input \in Input : input = captured
  BY <1>1
<1>3. PICK d \in Document : d = live
  BY Lengths
<1>4. PICK s \in SaveState : s = save
  BY DEF Typed
<1>5. /\ last' = input /\ recorded' = TRUE /\ disk' = disk
      /\ IF last = input \/ live.input = input
         THEN live' = live /\ dirty' = dirty /\ save' = save
         ELSE live' = [live EXCEPT !.input = input] /\ dirty' = TRUE /\ save' = Changed
  BY <1>2 DEF CapturedInto
<1>6. CASE last = input \/ live.input = input
  BY <1>2, <1>3, <1>4, <1>5, <1>6 DEF CaptureIs
<1>7. CASE ~(last = input \/ live.input = input)
  <2>1. live' = [d EXCEPT !.input = input] /\ dirty' = TRUE /\ save' = Changed
    BY <1>3, <1>5, <1>7
  <2>2. DocIs([d EXCEPT !.input = input], d.messages, d.events, input, d.returned)
    BY DocWithInput
  <2>3. PICK e \in BOOLEAN : e = (save # NoSave)
    OBVIOUS
  <2>4. PICK f \in BOOLEAN : f = (save.step = "write")
    OBVIOUS
  <2>5. SaveIs([s EXCEPT !.edited = e, !.stale = f],
               s.by, s.stage, s.step, s.copy, s.before, e, f, s.displaced)
    BY ChangedIs
  <2>6. Changed = [s EXCEPT !.edited = e, !.stale = f]
    BY <1>4, <2>3, <2>4 DEF Changed
  <2>7. save = NoSave => save' = NoSave
    BY <2>1, ChangedNoSave
  <2>8. /\ save' \in SaveState
        /\ save'.by = save.by /\ save'.stage = save.stage /\ save'.step = save.step
        /\ save'.copy = save.copy /\ save'.before = save.before
        /\ save'.displaced = save.displaced
        /\ save'.stale = f
    BY <1>4, <2>1, <2>5, <2>6 DEF SaveIs
  <2>9. /\ live' \in Document /\ live'.messages = live.messages /\ live'.events = live.events
        /\ live'.returned = live.returned /\ live'.input = input
    BY <1>3, <2>1, <2>2 DEF DocIs
  <2> QED  BY <1>2, <1>5, <2>1, <2>4, <2>7, <2>8, <2>9 DEF CaptureIs
<1> QED  BY <1>6, <1>7

\* A checkpoint that is refused, and one that is taken.
CheckpointRefused(by) ==
    /\ save = NoSave /\ result[by] = "none" /\ Shrunk
    /\ ResultIs(result', result, by, "error")
    /\ UNCHANGED <<live, dirty, last, save, disk>>

CheckpointTaken(by, stage) ==
    /\ save = NoSave /\ result[by] = "none"
    /\ Len(live.messages) <= Len(messages) /\ Len(live.events) <= Len(events)
    /\ DocIs(live', Extended(live.messages, messages), Extended(live.events, events),
             IF stage = "Accept" THEN [draft |-> live.input.draft, queued |-> {}] ELSE live.input,
             returned)
    /\ last' = IF stage = "Accept" THEN NoInput ELSE last
    /\ dirty' = TRUE
    /\ SaveIs(save', by, stage, "copy", Empty, live, FALSE, FALSE, 0)
    /\ UNCHANGED <<result, disk>>

\* checkpoint is refused, or the document follows the archive and a save begins.
LEMMA CheckpointEffect ==
    ASSUME Typed, NEW by \in {"ui", "worker"}, NEW stage \in {"Preserve", "Begin", "Accept"},
           Checkpoint(by, stage)
    PROVE  CheckpointRefused(by) \/ CheckpointTaken(by, stage)
<1>1. /\ save = NoSave /\ result[by] = "none" /\ disk' = disk
      /\ IF Shrunk
         THEN result' = [result EXCEPT ![by] = "error"] /\ UNCHANGED <<live, dirty, last, save>>
         ELSE /\ live' = IF stage = "Accept" THEN [Synced EXCEPT !.input.queued = {}] ELSE Synced
              /\ last' = IF stage = "Accept" THEN NoInput ELSE last
              /\ dirty' = TRUE
              /\ save' = SavingWith(by, stage, 0)
              /\ result' = result
  BY DEF Checkpoint
<1>2. CASE Shrunk
  <2>1. result \in Results
    BY HandleTypes DEF Typed
  <2>2. ResultIs([result EXCEPT ![by] = "error"], result, by, "error")
    BY <2>1, ResultTold
  <2> QED  BY <1>1, <1>2, <2>2 DEF CheckpointRefused
<1>3. CASE ~Shrunk
  <2>1. Len(live.messages) <= Len(messages) /\ Len(live.events) <= Len(events)
    BY <1>3, Lengths DEF Shrunk
  <2>2. DocIs(Synced, Extended(live.messages, messages), Extended(live.events, events),
              live.input, returned)
    BY SyncedIs
  <2>3. PICK d \in Document : d = Synced
    BY <2>2 DEF DocIs
  <2>4. DocIs([d EXCEPT !.input.queued = {}], d.messages, d.events,
              [draft |-> d.input.draft, queued |-> {}], d.returned)
    BY DocAccepting
  <2>5. live' = IF stage = "Accept" THEN [d EXCEPT !.input.queued = {}] ELSE d
    BY <1>1, <1>3, <2>3
  <2>6. DocIs(live', Extended(live.messages, messages), Extended(live.events, events),
             IF stage = "Accept" THEN [draft |-> live.input.draft, queued |-> {}] ELSE live.input,
             returned)
    BY <2>2, <2>3, <2>4, <2>5 DEF DocIs
  <2>7. by \in Writer /\ 0 \in Nat /\ live \in Document
    BY Lengths DEF Writer
  <2>8. SaveIs(SavingWith(by, stage, 0), by, stage, "copy", Empty, live, FALSE, FALSE, 0)
    BY <2>7, SavingIs
  <2> QED  BY <1>1, <1>3, <2>1, <2>6, <2>8 DEF CheckpointTaken
<1> QED  BY <1>2, <1>3
CopyIs ==
    /\ save.by # Nobody /\ save.step = "copy" /\ Valid(live)
    /\ SaveIs(save', save.by, save.stage, "write", live, save.before, save.edited, save.stale,
              save.displaced)
    /\ UNCHANGED <<inputs, threads, archive, live, dirty, last, result, disk, faults, crossed>>

\* save_locked_io copies the live document.
LEMMA CopyEffect ==
    ASSUME Typed, Threads, Copy
    PROVE  CopyIs
<1>1. PICK d \in Document : d = live
  BY Lengths
<1>2. PICK s \in SaveState : s = save
  BY DEF Typed
<1>3. SaveIs([s EXCEPT !.step = "write", !.copy = d],
             s.by, s.stage, "write", d, s.before, s.edited, s.stale, s.displaced)
  BY CopyingIs
<1>4. /\ save # NoSave /\ save.step = "copy" /\ Valid(live)
      /\ save' = [save EXCEPT !.step = "write", !.copy = live]
      /\ UNCHANGED <<inputs, threads, archive, live, dirty, last, result, disk, faults, crossed>>
  BY DEF Copy
<1>5. save.by # Nobody
  BY <1>4 DEF Threads
<1> QED  BY <1>1, <1>2, <1>3, <1>4, <1>5 DEF CopyIs

\* The writer is told, if it waits, and io is free.
ReturnIs(outcome) ==
    /\ save.by # Nobody /\ save' = NoSave
    /\ \/ save.by \in {"ui", "worker"} /\ ResultIs(result', result, save.by, outcome)
       \/ save.by \notin {"ui", "worker"} /\ result' = result
    /\ background' \in {"idle", "saving"}
    /\ namer' \in {"none", "asked", "saving", "done"}
    /\ receipt' \in {"none", "saving", "done"}
    /\ UNCHANGED <<ui, worker, failed>>

\* A save that returns lets io go and tells whoever waits.
LEMMA ReturnEffect ==
    ASSUME Typed, Threads, save # NoSave, NEW outcome \in {"ok", "error"}, Returns(outcome)
    PROVE  ReturnIs(outcome)
<1>1. save.by # Nobody
  BY DEF Threads
<1>2. /\ result \in Results /\ background \in {"idle", "saving"}
      /\ namer \in {"none", "asked", "saving", "done"}
      /\ receipt \in {"none", "saving", "done"}
  BY HandleTypes DEF Typed
<1>3. /\ result' = IF save.by \in {"ui", "worker"}
                   THEN [result EXCEPT ![save.by] = outcome] ELSE result
      /\ background' = IF save.by = "autosave" THEN "idle" ELSE background
      /\ namer' = IF save.by = "namer" THEN "done" ELSE namer
      /\ receipt' = IF save.by = "receipt" THEN (IF outcome = "ok" THEN "done" ELSE "none") ELSE receipt
      /\ save' = NoSave
      /\ UNCHANGED <<ui, worker, failed>>
  BY DEF Returns
<1>4. save.by \in {"ui", "worker"} => ResultIs(result', result, save.by, outcome)
  <2> HAVE save.by \in {"ui", "worker"}
  <2>1. ResultIs([result EXCEPT ![save.by] = outcome], result, save.by, outcome)
    BY <1>2, ResultTold
  <2> QED  BY <1>3, <2>1
<1> QED  BY <1>1, <1>2, <1>3, <1>4 DEF ReturnIs

\* What is written is what was copied.
WriteIs ==
    /\ save.step = "write" /\ disk' = save.copy /\ dirty' = save.stale
    /\ ReturnIs("ok")
    /\ UNCHANGED <<inputs, archive, live, last, faults, crossed>>

\* save_locked_io after its write: the disk holds the copy.
LEMMA WriteEffect ==
    ASSUME Typed, Threads, SaveSound, WriteDocument
    PROVE  WriteIs
<1>1. /\ save.step = "write" /\ disk' = Appended(save.copy) /\ dirty' = save.stale
      /\ Returns("ok")
      /\ UNCHANGED <<inputs, archive, live, last, faults, crossed>>
  BY DEF WriteDocument, StillDirty
<1>2. save # NoSave
  BY <1>1, NoSaveIs DEF SaveIs
<1>3. /\ save.copy.messages = live.messages /\ save.copy.events = live.events
      /\ Begins(disk.messages, live.messages) /\ Begins(disk.events, live.events)
  BY <1>1 DEF SaveSound, DocBegins
<1>4. PICK d \in Document : d = save.copy
  BY Lengths
<1>5. /\ disk.messages \in Seq(Message) /\ disk.events \in Seq(HistoryEvent)
      /\ d.messages \in Seq(Message) /\ d.events \in Seq(HistoryEvent)
  BY <1>4, Lengths
<1>6. Extended(disk.messages, d.messages) = d.messages
  BY <1>3, <1>4, <1>5, ExtendedBeginning
<1>7. Extended(disk.events, d.events) = d.events
  BY <1>3, <1>4, <1>5, ExtendedBeginning
<1>8. Appended(d) = [d EXCEPT !.messages = d.messages, !.events = d.events]
  BY <1>6, <1>7 DEF Appended, Extended
<1>9. Appended(d) = d
  BY <1>8 DEF Document
<1> QED  BY <1>1, <1>2, <1>4, <1>9, ReturnEffect DEF WriteIs

\* A save fails: a preparation or a receipt is withdrawn.
Withdrawn ==
    /\ save.stage \in {"Begin", "Accept"}
    /\ DocIs(live', save.before.messages, save.before.events,
             IF save.edited THEN live.input ELSE save.before.input, live.returned)
    /\ last' = NoInput /\ UNCHANGED events

Unnoted ==
    /\ save.stage = "Preserve" /\ save.by = "receipt"
    /\ DocIs(live', live.messages, save.before.events, live.input, live.returned)
    /\ events' = WithoutReceipt /\ UNCHANGED last

FailIs ==
    /\ ReturnIs("error")
    /\ \/ Withdrawn
       \/ Unnoted
       \/ save.stage = "Preserve" /\ save.by # "receipt" /\ UNCHANGED <<live, last, events>>
    /\ faults' \in {faults, faults + 1} /\ (faults' # faults => faults < MaxFaults)
    /\ UNCHANGED <<inputs, messages, returned, dirty, disk, crossed>>

\* A save that fails, with what its stage or its receipt withdraws.
LEMMA FailEffect ==
    ASSUME Typed, Threads, SaveSound, SaveFails
    PROVE  FailIs
<1>1. /\ save # NoSave
      /\ Returns("error")
      /\ UNCHANGED <<inputs, messages, returned, dirty, disk, crossed>>
      /\ faults' = faults \/ (faults < MaxFaults /\ faults' = faults + 1)
  BY DEF SaveFails
<1>a. save.stage \in {"Begin", "Accept"} => live' = RolledBack /\ last' = NoInput /\ UNCHANGED events
  <2>1. save.stage \in {"Begin", "Accept"} => save.by # "receipt"
    BY DEF Threads
  <2> QED  BY <2>1 DEF SaveFails
<1>b. save.stage = "Preserve" /\ save.by = "receipt" =>
          /\ live' = [live EXCEPT !.events = Front(live.events)]
          /\ events' = WithoutReceipt /\ UNCHANGED last
  BY DEF SaveFails
<1>c. save.stage = "Preserve" /\ save.by # "receipt" => UNCHANGED <<live, last, events>>
  BY DEF SaveFails
<1>2. ReturnIs("error")
  BY <1>1, ReturnEffect
<1>3. save.by # Nobody /\ save.stage \in {"Preserve", "Begin", "Accept"}
  BY <1>2, SaveFields DEF ReturnIs, Typed
<1>4. /\ live.messages \in Seq(Message) /\ live.events \in Seq(HistoryEvent)
      /\ save.before.messages \in Seq(Message) /\ save.before.events \in Seq(HistoryEvent)
      /\ save.before \in Document
  BY Lengths
<1>5. PICK d \in Document : d = live
  BY Lengths
<1>6. Begins(save.before.messages, live.messages) /\ Begins(save.before.events, live.events)
  BY <1>3 DEF SaveSound, DocBegins
<1>7. SubSeq(live.messages, 1, Len(save.before.messages)) = save.before.messages
  BY <1>4, <1>6, CutToBeginning
<1>8. SubSeq(live.events, 1, Len(save.before.events)) = save.before.events
  BY <1>4, <1>6, CutToBeginning
<1>9. CASE save.stage \in {"Begin", "Accept"}
  <2>1. PICK ms \in Seq(Message) : ms = save.before.messages
    BY <1>4
  <2>2. PICK es \in Seq(HistoryEvent) : es = save.before.events
    BY <1>4
  <2>3. PICK input \in Input : input = save.before.input
    BY <1>4, DocFields
  <2>4. DocIs([d EXCEPT !.messages = ms, !.events = es], ms, es, d.input, d.returned)
    BY DocWithHistory
  <2>5. PICK p \in Document : p = [d EXCEPT !.messages = ms, !.events = es]
    BY <2>4 DEF DocIs
  <2>6. Prefix(live) = p
    BY <1>5, <1>7, <1>8, <2>1, <2>2, <2>5 DEF Prefix
  <2>7. DocIs([p EXCEPT !.input = input], p.messages, p.events, input, p.returned)
    BY DocWithInput
  <2>8. live' = IF save.edited THEN p ELSE [p EXCEPT !.input = input]
    BY <1>a, <1>9, <2>3, <2>6 DEF RolledBack
  <2>9. DocIs(live', save.before.messages, save.before.events,
              IF save.edited THEN live.input ELSE save.before.input, live.returned)
    BY <1>5, <2>1, <2>2, <2>3, <2>4, <2>5, <2>7, <2>8 DEF DocIs
  <2> QED  BY <1>1, <1>a, <1>2, <1>9, <2>9 DEF FailIs, Withdrawn
<1>10. CASE save.stage = "Preserve" /\ save.by = "receipt"
  <2>1. Len(live.events) = Len(save.before.events) + 1
    BY <1>10 DEF SaveSound, ReceiptSaved
  <2>2. Len(save.before.events) \in Nat
    BY Lengths
  <2>3. Front(live.events) = SubSeq(live.events, 1, Len(save.before.events))
    BY <2>1, <2>2 DEF Front
  <2>4. PICK es \in Seq(HistoryEvent) : es = save.before.events
    BY <1>4
  <2>5. live' = [d EXCEPT !.events = es]
    BY <1>b, <1>5, <1>8, <1>10, <2>3, <2>4
  <2>6. DocIs([d EXCEPT !.events = es], d.messages, es, d.input, d.returned)
    BY DocWithEvents
  <2>7. DocIs(live', live.messages, save.before.events, live.input, live.returned)
    BY <1>5, <2>4, <2>5, <2>6
  <2> QED  BY <1>1, <1>b, <1>2, <1>10, <2>7 DEF FailIs, Unnoted
<1>11. CASE save.stage = "Preserve" /\ save.by # "receipt"
  BY <1>1, <1>c, <1>2, <1>11 DEF FailIs
<1> QED  BY <1>3, <1>9, <1>10, <1>11

FlushIs ==
    /\ dirty /\ save = NoSave
    /\ SaveIs(save', "autosave", "Preserve", "copy", Empty, live, FALSE, FALSE, 0)
    /\ background' = "saving"
    /\ UNCHANGED <<inputs, ui, worker, namer, receipt, failed, archive,
                   live, dirty, last, result, disk, faults, crossed>>

\* The autosave thread begins a save or finds nothing to do.
LEMMA FlushEffect ==
    ASSUME Typed, Flush
    PROVE  FlushIs
<1>1. "autosave" \in Writer /\ "Preserve" \in {"Preserve", "Begin", "Accept"} /\ 0 \in Nat
  BY DEF Writer
<1>2. live \in Document
  BY Lengths
<1> QED  BY <1>1, <1>2, SavingIs DEF Flush, FlushIs

\* The event moves to pos, or is added there.
Moved(es, at, pos, event) ==
    InsertAt(IF at = 0 THEN es ELSE RemoveAt(es, at), pos, event)

\* An event that is put at an earlier place, or comes new.
LEMMA MovedProperties ==
    ASSUME NEW S, NEW es \in Seq(S), NEW e \in S, NEW at \in 0..Len(es),
           NEW pos \in 1..(Len(es) + 1), at = 0 \/ pos <= at
    PROVE  /\ Moved(es, at, pos, e) \in Seq(S)
           /\ Len(Moved(es, at, pos, e)) = IF at = 0 THEN Len(es) + 1 ELSE Len(es)
           /\ \A i \in 1..(pos - 1) : Moved(es, at, pos, e)[i] = es[i]
           /\ Moved(es, at, pos, e)[pos] = e
           /\ \A i \in pos..Len(es) : i # at =>
                 \E j \in (pos + 1)..Len(Moved(es, at, pos, e)) : Moved(es, at, pos, e)[j] = es[i]
           /\ \A j \in (pos + 1)..Len(Moved(es, at, pos, e)) :
                 \E i \in pos..Len(es) : i # at /\ Moved(es, at, pos, e)[j] = es[i]
<1>1. Len(es) \in Nat /\ pos \in Nat /\ at \in Nat
  BY LenProperties
<1> DEFINE m == Moved(es, at, pos, e)
<1>2. CASE at = 0
  <2>0. PICK n \in Seq(S) : n = InsertAt(es, pos, e)
    BY InsertedProperties
  <2>1. m = n
    BY <1>2, <2>0 DEF Moved
  <2> HIDE DEF m
  <2>a. /\ Len(n) = Len(es) + 1
        /\ \A i \in 1..(pos - 1) : n[i] = es[i]
        /\ n[pos] = e
        /\ \A i \in (pos + 1)..(Len(es) + 1) : n[i] = es[i - 1]
    <3>1. /\ Len(InsertAt(es, pos, e)) = Len(es) + 1
          /\ \A i \in 1..(pos - 1) : InsertAt(es, pos, e)[i] = es[i]
          /\ InsertAt(es, pos, e)[pos] = e
          /\ \A i \in (pos + 1)..(Len(es) + 1) : InsertAt(es, pos, e)[i] = es[i - 1]
      BY InsertedProperties
    <3> QED  BY <2>0, <3>1
  <2>2. /\ m \in Seq(S)
        /\ Len(m) = Len(es) + 1
        /\ \A i \in 1..(pos - 1) : m[i] = es[i]
        /\ m[pos] = e
        /\ \A i \in (pos + 1)..(Len(es) + 1) : m[i] = es[i - 1]
    BY <2>1, <2>a
  <2>3. \A i \in pos..Len(es) : \E j \in (pos + 1)..Len(m) : m[j] = es[i]
    <3> TAKE i \in pos..Len(es)
    <3>1. i + 1 \in (pos + 1)..(Len(es) + 1) /\ (i + 1) - 1 = i
      BY <1>1
    <3>2. m[i + 1] = es[i]
      BY <2>2, <3>1
    <3> QED  BY <2>2, <3>1, <3>2
  <2>4. \A j \in (pos + 1)..Len(m) : \E i \in pos..Len(es) : i # at /\ m[j] = es[i]
    <3> TAKE j \in (pos + 1)..Len(m)
    <3>1. j - 1 \in pos..Len(es) /\ j - 1 # at /\ j \in (pos + 1)..(Len(es) + 1)
      BY <1>1, <1>2, <2>2
    <3>2. m[j] = es[j - 1]
      BY <2>2, <3>1
    <3> QED  BY <3>1, <3>2
  <2> QED  BY <1>2, <2>2, <2>3, <2>4 DEF m
<1>3. CASE at # 0
  <2>1. at \in 1..Len(es) /\ pos <= at
    BY <1>1, <1>3
  <2>2. PICK r \in Seq(S) : r = RemoveAt(es, at)
    BY <2>1, RemovedProperties
  <2>3. /\ Len(r) = Len(es) - 1
        /\ \A i \in 1..(at - 1) : r[i] = es[i]
        /\ \A i \in at..(Len(es) - 1) : r[i] = es[i + 1]
    BY <2>1, <2>2, RemovedProperties
  <2>4. pos \in 1..(Len(r) + 1)
    BY <1>1, <2>1, <2>3
  <2>0. PICK n \in Seq(S) : n = InsertAt(r, pos, e)
    BY <2>4, InsertedProperties
  <2>5. m = n
    BY <1>3, <2>0, <2>2 DEF Moved
  <2> HIDE DEF m
  <2>a. /\ Len(n) = Len(r) + 1
        /\ \A i \in 1..(pos - 1) : n[i] = r[i]
        /\ n[pos] = e
        /\ \A i \in (pos + 1)..(Len(r) + 1) : n[i] = r[i - 1]
    <3>1. /\ Len(InsertAt(r, pos, e)) = Len(r) + 1
          /\ \A i \in 1..(pos - 1) : InsertAt(r, pos, e)[i] = r[i]
          /\ InsertAt(r, pos, e)[pos] = e
          /\ \A i \in (pos + 1)..(Len(r) + 1) : InsertAt(r, pos, e)[i] = r[i - 1]
      BY <2>4, InsertedProperties
    <3> QED  BY <2>0, <3>1
  <2>6. /\ m \in Seq(S)
        /\ Len(m) = Len(r) + 1
        /\ \A i \in 1..(pos - 1) : m[i] = r[i]
        /\ m[pos] = e
        /\ \A i \in (pos + 1)..(Len(r) + 1) : m[i] = r[i - 1]
    BY <2>5, <2>a
  <2>7. Len(m) = Len(es)
    BY <1>1, <2>3, <2>6
  <2>8. \A i \in 1..(pos - 1) : m[i] = es[i]
    BY <1>1, <2>1, <2>3, <2>6
  <2>9. \A i \in (pos + 1)..at : m[i] = es[i - 1]
    <3> TAKE i \in (pos + 1)..at
    <3>1. i \in (pos + 1)..(Len(r) + 1) /\ i - 1 \in 1..(at - 1)
      BY <1>1, <2>1, <2>3
    <3> QED  BY <2>3, <2>6, <3>1
  <2>10. \A i \in (at + 1)..Len(es) : m[i] = es[i]
    <3> TAKE i \in (at + 1)..Len(es)
    <3>1. i \in (pos + 1)..(Len(r) + 1) /\ i - 1 \in at..(Len(es) - 1) /\ (i - 1) + 1 = i
      BY <1>1, <2>1, <2>3
    <3>2. m[i] = r[i - 1] /\ r[i - 1] = es[(i - 1) + 1]
      BY <2>3, <2>6, <3>1
    <3> QED  BY <3>1, <3>2
  <2>11. \A i \in pos..Len(es) : i # at => \E j \in (pos + 1)..Len(m) : m[j] = es[i]
    <3> TAKE i \in pos..Len(es)
    <3>1. CASE i < at
      <4>1. i + 1 \in (pos + 1)..at /\ (i + 1) - 1 = i /\ i + 1 \in (pos + 1)..Len(m)
        BY <1>1, <2>1, <2>7, <3>1
      <4>2. m[i + 1] = es[i]
        BY <2>9, <4>1
      <4> QED  BY <4>1, <4>2
    <3>2. CASE i > at
      <4>1. i \in (at + 1)..Len(es) /\ i \in (pos + 1)..Len(m)
        BY <1>1, <2>1, <2>7, <3>2
      <4> QED  BY <2>10, <4>1
    <3> QED  BY <1>1, <3>1, <3>2
  <2>12. \A j \in (pos + 1)..Len(m) : \E i \in pos..Len(es) : i # at /\ m[j] = es[i]
    <3> TAKE j \in (pos + 1)..Len(m)
    <3>1. CASE j <= at
      <4>1. j \in (pos + 1)..at /\ j - 1 \in pos..Len(es) /\ j - 1 # at
        BY <1>1, <2>1, <2>7, <3>1
      <4> QED  BY <2>9, <4>1
    <3>2. CASE j > at
      <4>1. j \in (at + 1)..Len(es) /\ j \in pos..Len(es) /\ j # at
        BY <1>1, <2>1, <2>7, <3>2
      <4> QED  BY <2>10, <4>1
    <3> QED  BY <1>1, <3>1, <3>2
  <2> QED  BY <1>3, <2>6, <2>7, <2>8, <2>11, <2>12 DEF m
<1> QED  BY <1>2, <1>3
\* The event at pos goes, or moves to at.
Unmoved(es, pos, at) ==
    IF at = 0 THEN RemoveAt(es, pos) ELSE InsertAt(RemoveAt(es, pos), at, es[pos])

\* An event that is taken back from where it was put.
LEMMA UnmovedProperties ==
    ASSUME NEW S, NEW es \in Seq(S), NEW pos \in 1..Len(es), NEW at \in Nat,
           at = 0 \/ at \in pos..Len(es)
    PROVE  /\ Unmoved(es, pos, at) \in Seq(S)
           /\ Len(Unmoved(es, pos, at)) = IF at = 0 THEN Len(es) - 1 ELSE Len(es)
           /\ \A i \in 1..(pos - 1) : Unmoved(es, pos, at)[i] = es[i]
           /\ \A i \in (pos + 1)..Len(es) :
                 \E j \in pos..Len(Unmoved(es, pos, at)) : Unmoved(es, pos, at)[j] = es[i]
           /\ \A j \in pos..Len(Unmoved(es, pos, at)) : j # at =>
                 \E i \in (pos + 1)..Len(es) : Unmoved(es, pos, at)[j] = es[i]
           /\ at # 0 => Unmoved(es, pos, at)[at] = es[pos]
<1> DEFINE m == Unmoved(es, pos, at)
<1>1. Len(es) \in Nat /\ pos \in Nat
  BY LenProperties
<1>2. PICK r \in Seq(S) : r = RemoveAt(es, pos)
  BY RemovedProperties
<1>3. /\ Len(r) = Len(es) - 1
      /\ \A i \in 1..(pos - 1) : r[i] = es[i]
      /\ \A i \in pos..(Len(es) - 1) : r[i] = es[i + 1]
  BY <1>2, RemovedProperties
<1>4. PICK e \in S : e = es[pos]
  BY ElementOfSeq
<1>5. CASE at = 0
  <2>1. m = r
    BY <1>2, <1>5 DEF Unmoved
  <2> HIDE DEF m
  <2>2. m \in Seq(S) /\ Len(m) = Len(es) - 1 /\ \A i \in 1..(pos - 1) : m[i] = es[i]
    BY <1>3, <2>1
  <2>3. \A i \in (pos + 1)..Len(es) : \E j \in pos..Len(m) : m[j] = es[i]
    <3> TAKE i \in (pos + 1)..Len(es)
    <3>1. i - 1 \in pos..(Len(es) - 1) /\ (i - 1) + 1 = i
      BY <1>1
    <3> QED  BY <1>3, <2>1, <2>2, <3>1
  <2>4. \A j \in pos..Len(m) : \E i \in (pos + 1)..Len(es) : m[j] = es[i]
    <3> TAKE j \in pos..Len(m)
    <3>1. j + 1 \in (pos + 1)..Len(es) /\ j \in pos..(Len(es) - 1)
      BY <1>1, <2>2
    <3> QED  BY <1>3, <2>1, <3>1
  <2> QED  BY <1>5, <2>2, <2>3, <2>4 DEF m
<1>6. CASE at # 0
  <2>1. at \in pos..Len(es) /\ at \in 1..(Len(r) + 1)
    BY <1>1, <1>3, <1>6
  <2>2. PICK n \in Seq(S) : n = InsertAt(r, at, e)
    BY <2>1, InsertedProperties
  <2>3. /\ Len(n) = Len(r) + 1
        /\ \A i \in 1..(at - 1) : n[i] = r[i]
        /\ n[at] = e
        /\ \A i \in (at + 1)..(Len(r) + 1) : n[i] = r[i - 1]
    <3>1. /\ Len(InsertAt(r, at, e)) = Len(r) + 1
          /\ \A i \in 1..(at - 1) : InsertAt(r, at, e)[i] = r[i]
          /\ InsertAt(r, at, e)[at] = e
          /\ \A i \in (at + 1)..(Len(r) + 1) : InsertAt(r, at, e)[i] = r[i - 1]
      BY <2>1, InsertedProperties
    <3> QED  BY <2>2, <3>1
  <2>4. m = n
    BY <1>2, <1>4, <1>6, <2>2 DEF Unmoved
  <2> HIDE DEF m
  <2>5. Len(m) = Len(es) /\ m \in Seq(S) /\ m[at] = es[pos]
    BY <1>1, <1>3, <1>4, <2>3, <2>4
  <2>6. \A i \in 1..(pos - 1) : m[i] = es[i]
    BY <1>1, <1>3, <2>1, <2>3, <2>4
  <2>7. \A j \in pos..(at - 1) : m[j] = es[j + 1]
    <3> TAKE j \in pos..(at - 1)
    <3>1. j \in 1..(at - 1) /\ j \in pos..(Len(es) - 1)
      BY <1>1, <2>1
    <3> QED  BY <1>3, <2>3, <2>4, <3>1
  <2>8. \A j \in (at + 1)..Len(es) : m[j] = es[j]
    <3> TAKE j \in (at + 1)..Len(es)
    <3>1. j \in (at + 1)..(Len(r) + 1) /\ j - 1 \in pos..(Len(es) - 1) /\ (j - 1) + 1 = j
      BY <1>1, <1>3, <2>1
    <3>2. n[j] = r[j - 1] /\ r[j - 1] = es[(j - 1) + 1]
      BY <1>3, <2>3, <3>1
    <3> QED  BY <2>4, <3>1, <3>2
  <2>9. \A i \in (pos + 1)..Len(es) : \E j \in pos..Len(m) : m[j] = es[i]
    <3> TAKE i \in (pos + 1)..Len(es)
    <3>1. CASE i <= at
      <4>1. i - 1 \in pos..(at - 1) /\ (i - 1) + 1 = i /\ i - 1 \in pos..Len(m)
        BY <1>1, <2>1, <2>5, <3>1
      <4> QED  BY <2>7, <4>1
    <3>2. CASE i > at
      <4>1. i \in (at + 1)..Len(es) /\ i \in pos..Len(m)
        BY <1>1, <2>1, <2>5, <3>2
      <4> QED  BY <2>8, <4>1
    <3> QED  BY <1>1, <2>1, <3>1, <3>2
  <2>10. \A j \in pos..Len(m) : j # at => \E i \in (pos + 1)..Len(es) : m[j] = es[i]
    <3> TAKE j \in pos..Len(m)
    <3>1. CASE j < at
      <4>1. j \in pos..(at - 1) /\ j + 1 \in (pos + 1)..Len(es)
        BY <1>1, <2>1, <2>5, <3>1
      <4> QED  BY <2>7, <4>1
    <3>2. CASE j > at
      <4>1. j \in (at + 1)..Len(es) /\ j \in (pos + 1)..Len(es)
        BY <1>1, <2>1, <2>5, <3>2
      <4> QED  BY <2>8, <4>1
    <3> QED  BY <1>1, <2>1, <3>1, <3>2
  <2> QED  BY <1>6, <2>5, <2>6, <2>9, <2>10 DEF m
<1> QED  BY <1>5, <1>6

\* A receipt is an event.
LEMMA ReceiptIsEvent ==
    ASSUME Typed, NEW n \in 0..MaxMessages
    PROVE  Receipt(n) \in HistoryEvent /\ Receipt(n).kind = "receipt" /\ Receipt(n).after = n
BY DEF Receipt, HistoryEvent

\* append_event notes the receipt where it can be saved at once.
NoteIs(at) ==
    /\ (at = 0 /\ Noted = {}) \/ (at \in Noted /\ Len(live.events) < at)
    /\ events' = Moved(events, at, Len(live.events) + 1, Receipt(Len(live.messages)))
    /\ DocIs(live', live.messages, Append(live.events, Receipt(Len(live.messages))),
             live.input, live.returned)
    /\ dirty' = TRUE
    /\ SaveIs(save', "receipt", "Preserve", "copy", Empty, live, FALSE, FALSE, at)
    /\ receipt' = "saving"

AppendReceiptIs ==
    /\ save = NoSave
    /\ Len(live.messages) <= Len(messages) /\ Len(live.events) <= Len(events)
    /\ \/ receipt' = "done" /\ UNCHANGED <<events, live, dirty, save>>
       \/ \E at \in 0..Len(events) : NoteIs(at)
    /\ UNCHANGED <<inputs, ui, worker, background, namer, failed, messages, returned,
                   last, result, disk, faults, crossed>>

\* append_event of a receipt, in terms of the archive and the document.
LEMMA AppendReceiptEffect ==
    ASSUME Typed, AppendReceipt
    PROVE  AppendReceiptIs
<1> DEFINE pick == IF Noted = {} THEN 0 ELSE CHOOSE i \in Noted : TRUE
           event == Receipt(Len(live.messages))
<1>1. /\ save = NoSave
      /\ ~Shrunk
      /\ UNCHANGED <<inputs, ui, worker, background, namer, failed, messages, returned,
                     last, result, disk, faults, crossed>>
  BY DEF AppendReceipt
<1>2. Len(live.messages) <= Len(messages) /\ Len(live.events) <= Len(events)
  BY <1>1, Lengths DEF Shrunk
<1>3. Noted \subseteq 1..Len(events)
  BY Lengths, LenProperties DEF Noted
<1>4. pick \in 0..Len(events) /\ ((pick = 0 /\ Noted = {}) \/ pick \in Noted)
  <2>1. CASE Noted = {}
    BY <2>1, Lengths
  <2>2. CASE Noted # {}
    <3>1. (CHOOSE i \in Noted : TRUE) \in Noted
      BY <2>2
    <3>2. pick = CHOOSE i \in Noted : TRUE
      BY <2>2
    <3>3. PICK p \in Noted : p = pick
      BY <3>1, <3>2
    <3> HIDE DEF pick
    <3>4. p \in 1..Len(events) /\ Len(events) \in Nat
      BY <1>3, Lengths
    <3>5. p \in 0..Len(events)
      BY <3>4
    <3> QED  BY <3>3, <3>5
  <2> QED  BY <2>1, <2>2
<1>5. PICK at \in 0..Len(events) : at = pick
  BY <1>4
<1>6. IF at \in 1..Len(live.events)
      THEN receipt' = "done" /\ UNCHANGED <<events, live, dirty, save>>
      ELSE /\ events' = InsertAt(IF at = 0 THEN events ELSE RemoveAt(events, at),
                                 Len(live.events) + 1, event)
           /\ live' = [live EXCEPT !.events = Append(live.events, event)]
           /\ dirty' = TRUE
           /\ save' = SavingWith("receipt", "Preserve", at)
           /\ receipt' = "saving"
  BY <1>5 DEF AppendReceipt, After, Position
<1>7. CASE at \in 1..Len(live.events)
  BY <1>1, <1>2, <1>6, <1>7 DEF AppendReceiptIs
<1>8. CASE at \notin 1..Len(live.events)
  <2>1. event \in HistoryEvent
    <3>1. Len(live.messages) \in 0..MaxMessages
      BY Lengths DEF Typed
    <3> QED  BY <3>1, ReceiptIsEvent
  <2>2. live \in Document /\ live.events \in Seq(HistoryEvent)
    BY Lengths
  <2>3. PICK es \in Seq(HistoryEvent) : es = Append(live.events, event)
    BY <2>1, <2>2, AppendedProperties
  <2>4. PICK d \in Document : d = live
    BY <2>2
  <2>5. DocIs([d EXCEPT !.events = es], d.messages, es, d.input, d.returned)
    BY DocWithEvents
  <2>6. "receipt" \in Writer /\ "Preserve" \in {"Preserve", "Begin", "Accept"} /\ at \in Nat
    BY Lengths DEF Writer
  <2>7. SaveIs(SavingWith("receipt", "Preserve", at),
               "receipt", "Preserve", "copy", Empty, live, FALSE, FALSE, at)
    BY <2>2, <2>6, SavingIs
  <2> HIDE DEF pick
  <2>8. (at = 0 /\ Noted = {}) \/ (at \in Noted /\ Len(live.events) < at)
    <3>1. (at = 0 /\ Noted = {}) \/ at \in Noted
      BY <1>4, <1>5
    <3>2. at \in Nat /\ Len(live.events) \in Nat
      BY Lengths
    <3>3. at \in Noted => at \in 1..Len(events)
      BY <1>3
    <3> QED  BY <1>8, <3>1, <3>2, <3>3
  <2>9. DocIs(live', live.messages, Append(live.events, event), live.input, live.returned)
    BY <1>6, <1>8, <2>3, <2>4, <2>5
  <2>10. NoteIs(at)
    BY <1>6, <1>8, <2>7, <2>8, <2>9 DEF NoteIs, Moved
  <2> QED  BY <1>1, <1>2, <2>10 DEF AppendReceiptIs
<1> QED  BY <1>7, <1>8

TitleAt(n) == [kind |-> "title", after |-> n]

\* naming_result keeps the archive and the document aligned, if they are.
TitleIs ==
    /\ save = NoSave /\ dirty' = TRUE
    /\ SaveIs(save', "namer", "Preserve", "copy", Empty, live, FALSE, FALSE, 0)
    /\ namer' = "saving"
    /\ \/ /\ Begins(live.messages, messages) /\ Begins(live.events, events)
          /\ DocIs(live', messages, Append(events, TitleAt(Len(messages))), live.input, live.returned)
          /\ events' = Append(events, TitleAt(Len(messages)))
          /\ crossed' = (crossed \/ NewPrompt \/ NewStart)
       \/ /\ ~(Begins(live.messages, messages) /\ Begins(live.events, events))
          /\ DocIs(live', live.messages, Append(live.events, TitleAt(Len(live.messages))),
                   live.input, live.returned)
          /\ UNCHANGED <<events, crossed>>
    /\ UNCHANGED <<inputs, ui, worker, background, receipt, failed, messages, returned,
                   last, result, disk, faults>>

\* A title is asked for, or its save begins.
LEMMA TitleEffect ==
    ASSUME Typed, Title
    PROVE  TitleIs
<1> DEFINE doc == IF Linked THEN [Synced EXCEPT !.returned = live.returned] ELSE live
           event == [kind |-> "title", after |-> Len(doc.messages)]
<1>1. /\ save = NoSave /\ dirty' = TRUE /\ namer' = "saving"
      /\ save' = SavingWith("namer", "Preserve", 0)
      /\ live' = [doc EXCEPT !.events = Append(doc.events, event)]
      /\ events' = IF Linked THEN Append(events, event) ELSE events
      /\ crossed' = (crossed \/ (Linked /\ (NewPrompt \/ NewStart)))
      /\ UNCHANGED <<inputs, ui, worker, background, receipt, failed, messages, returned,
                     last, result, disk, faults>>
  BY DEF Title
<1>2. /\ live \in Document /\ messages \in Seq(Message) /\ events \in Seq(HistoryEvent)
      /\ live.messages \in Seq(Message) /\ live.events \in Seq(HistoryEvent)
  BY Lengths
<1>3. Linked <=> Begins(live.messages, messages) /\ Begins(live.events, events)
  BY <1>2, PrefixBegins DEF Linked
<1>4. "namer" \in Writer /\ "Preserve" \in {"Preserve", "Begin", "Accept"} /\ 0 \in Nat
  BY DEF Writer
<1>5. SaveIs(save', "namer", "Preserve", "copy", Empty, live, FALSE, FALSE, 0)
  BY <1>1, <1>2, <1>4, SavingIs
<1>6. live.returned \in SUBSET (1..MaxMessages)
  BY <1>2, DocFields
<1>7. CASE Linked
  <2>1. DocIs(Synced, Extended(live.messages, messages), Extended(live.events, events),
              live.input, returned)
    BY SyncedIs
  <2>2. Extended(live.messages, messages) = messages
    BY <1>2, <1>3, <1>7, ExtendedBeginning
  <2>3. Extended(live.events, events) = events
    BY <1>2, <1>3, <1>7, ExtendedBeginning
  <2>4. PICK s \in Document : s = Synced
    BY <2>1 DEF DocIs
  <2>5. PICK back \in SUBSET (1..MaxMessages) : back = live.returned
    BY <1>6
  <2>6. DocIs([s EXCEPT !.returned = back], s.messages, s.events, s.input, back)
    BY DocWithReturned
  <2>7. PICK d \in Document : d = [s EXCEPT !.returned = back]
    BY <2>6 DEF DocIs
  <2>8. doc = d
    BY <1>7, <2>4, <2>5, <2>7
  <2> HIDE DEF doc
  <2>9. /\ d.messages = messages /\ d.events = events /\ d.input = live.input
        /\ d.returned = live.returned
    BY <2>1, <2>2, <2>3, <2>4, <2>5, <2>6, <2>7 DEF DocIs
  <2>10. event = TitleAt(Len(messages))
    BY <2>8, <2>9 DEF TitleAt
  <2>11. TitleAt(Len(messages)) \in HistoryEvent
    <3>1. Len(messages) \in 0..MaxMessages
      BY Lengths DEF Typed
    <3> QED  BY <3>1 DEF TitleAt, HistoryEvent
  <2>12. PICK es \in Seq(HistoryEvent) : es = Append(events, TitleAt(Len(messages)))
    BY <1>2, <2>11, AppendedProperties
  <2>13. DocIs([d EXCEPT !.events = es], d.messages, es, d.input, d.returned)
    BY DocWithEvents
  <2>14. live' = [d EXCEPT !.events = es]
    BY <1>1, <2>8, <2>9, <2>10, <2>12
  <2>15. DocIs(live', messages, Append(events, TitleAt(Len(messages))), live.input, live.returned)
    BY <2>9, <2>12, <2>13, <2>14
  <2>16. /\ events' = Append(events, TitleAt(Len(messages)))
         /\ crossed' = (crossed \/ NewPrompt \/ NewStart)
    BY <1>1, <1>7, <2>8, <2>9, <2>10
  <2> QED  BY <1>1, <1>3, <1>5, <1>7, <2>15, <2>16 DEF TitleIs
<1>8. CASE ~Linked
  <2>1. doc = live /\ event = TitleAt(Len(live.messages))
    BY <1>8 DEF TitleAt
  <2>2. TitleAt(Len(live.messages)) \in HistoryEvent
    <3>1. Len(live.messages) \in 0..MaxMessages
      BY Lengths DEF Typed
    <3> QED  BY <3>1 DEF TitleAt, HistoryEvent
  <2>3. PICK es \in Seq(HistoryEvent) : es = Append(live.events, TitleAt(Len(live.messages)))
    BY <1>2, <2>2, AppendedProperties
  <2>4. PICK d \in Document : d = live
    BY <1>2
  <2>5. DocIs([d EXCEPT !.events = es], d.messages, es, d.input, d.returned)
    BY DocWithEvents
  <2>6. live' = [d EXCEPT !.events = es]
    BY <1>1, <2>1, <2>3, <2>4
  <2>7. DocIs(live', live.messages, Append(live.events, TitleAt(Len(live.messages))),
              live.input, live.returned)
    BY <2>3, <2>4, <2>5, <2>6
  <2>8. crossed \in BOOLEAN
    BY HandleTypes DEF Typed
  <2>9. events' = events /\ crossed' = crossed
    BY <1>1, <1>8, <2>8
  <2> QED  BY <1>1, <1>3, <1>5, <1>8, <2>7, <2>9 DEF TitleIs
<1> QED  BY <1>7, <1>8
-----------------------------------------------------------------------------
(* Each step keeps the types.                                              *)

HandleFine ==
    /\ live \in Document /\ disk \in Document /\ last \in Input \cup {NoInput}
    /\ save \in SaveState /\ dirty \in BOOLEAN /\ Len(live.messages) <= MaxMessages

ArchiveFine ==
    /\ messages \in Seq(Message) /\ events \in Seq(HistoryEvent)
    /\ returned \in SUBSET (1..MaxMessages) /\ Len(messages) <= MaxMessages

InputsFine ==
    /\ written \in SUBSET Prompt /\ composer \in SUBSET Prompt /\ paused \in SUBSET Prompt
    /\ queued \in SUBSET Prompt /\ unshown \in SUBSET Prompt
    /\ sending \in SUBSET Prompt /\ submission \in SUBSET Prompt
    /\ from \in 0..MaxMessages /\ recorded \in BOOLEAN

ThreadsFine ==
    /\ ui \in {"loop", "capture", "starting", "begin", "beginning", "withdrawing",
                         "returned", "returning"}
    /\ worker \in {"idle", "asking", "accepting", "sampling", "answering", "ending", "done"}
    /\ background \in {"idle", "saving"}
    /\ namer \in {"none", "asked", "saving", "done"}
    /\ receipt \in {"none", "saving", "done"}
    /\ failed \in BOOLEAN /\ crossed \in BOOLEAN /\ result \in Results /\ faults \in 0..MaxFaults

\* The types, in the parts that different steps change.
LEMMA TypedParts == Typed <=> HandleFine /\ ArchiveFine /\ InputsFine /\ ThreadsFine
<1>1. save \in SaveState => save.by \in Writer \cup {Nobody} /\ save.step \in {"copy", "write"}
  BY SaveFields
<1> QED  BY <1>1, HandleTypes DEF Typed, HandleFine, ArchiveFine, InputsFine, ThreadsFine

\* The same in the next state.
LEMMA NextTypedParts == Typed' <=> HandleFine' /\ ArchiveFine' /\ InputsFine' /\ ThreadsFine'
<1>1. save' \in SaveState => save'.by \in Writer \cup {Nobody} /\ save'.step \in {"copy", "write"}
  BY SaveFields
<1> QED  BY <1>1, NextHandleTypes DEF Typed, HandleFine, ArchiveFine, InputsFine, ThreadsFine

\* Capturing input keeps the document's type.
LEMMA CaptureFine ==
    ASSUME Typed, NEW draft \in SUBSET Prompt, NEW queue \in SUBSET Prompt, CaptureIs(draft, queue)
    PROVE  HandleFine' /\ recorded' \in BOOLEAN
<1>1. [draft |-> draft, queued |-> queue] \in Input
  BY DEF Input
<1>2. HandleFine
  BY TypedParts
<1> QED  BY <1>1, <1>2 DEF CaptureIs, HandleFine

\* The extension by the archive is within the bound.
LEMMA ExtendedFine ==
    ASSUME Typed, Len(live.messages) <= Len(messages)
    PROVE  /\ Extended(live.messages, messages) \in Seq(Message)
           /\ Len(Extended(live.messages, messages)) = Len(messages)
<1>1. live.messages \in Seq(Message) /\ messages \in Seq(Message)
  BY Lengths
<1> QED  BY <1>1, ExtendedProperties

\* A checkpoint keeps the document's type.
LEMMA CheckpointFine ==
    ASSUME Typed, NEW by \in {"ui", "worker"}, NEW stage \in {"Preserve", "Begin", "Accept"},
           CheckpointRefused(by) \/ CheckpointTaken(by, stage)
    PROVE  HandleFine' /\ result' \in Results
<1>1. HandleFine /\ result \in Results /\ ArchiveFine
  BY TypedParts DEF ThreadsFine
<1>2. CASE CheckpointRefused(by)
  BY <1>1, <1>2 DEF CheckpointRefused, HandleFine, ResultIs
<1>3. CASE CheckpointTaken(by, stage)
  <2>1. Len(Extended(live.messages, messages)) = Len(messages)
    BY <1>3, ExtendedFine DEF CheckpointTaken
  <2> QED  BY <1>1, <1>3, <2>1 DEF CheckpointTaken, HandleFine, ArchiveFine, SaveIs, DocIs
<1> QED  BY <1>2, <1>3

\* A save that returns keeps the types.
LEMMA ReturnFine ==
    ASSUME Typed, NEW outcome \in {"ok", "error"}, ReturnIs(outcome)
    PROVE  /\ save' \in SaveState
           /\ ui' = ui /\ worker' = worker /\ failed' = failed /\ result' \in Results
           /\ background' \in {"idle", "saving"}
           /\ namer' \in {"none", "asked", "saving", "done"}
           /\ receipt' \in {"none", "saving", "done"}
<1>1. result \in Results
  BY TypedParts DEF ThreadsFine
<1>2. NoSave \in SaveState
  BY NoSaveIs DEF SaveIs
<1> QED  BY <1>1, <1>2 DEF ReturnIs, ResultIs

\* The steps of a save.
LEMMA SavingTyped ==
    ASSUME Typed, Threads, SaveSound, Saving
    PROVE  Typed'
<1>1. HandleFine /\ ArchiveFine /\ InputsFine /\ ThreadsFine
  BY TypedParts
<1>2. CASE Copy
  <2>1. CopyIs
    BY <1>2, CopyEffect
  <2>2. HandleFine'
    BY <1>1, <2>1 DEF CopyIs, HandleFine, SaveIs
  <2>3. ArchiveFine' /\ InputsFine' /\ ThreadsFine'
    BY <1>1, <2>1 DEF CopyIs, ArchiveFine, InputsFine, ThreadsFine, inputs, threads, archive
  <2> QED  BY <2>2, <2>3, NextTypedParts
<1>3. CASE WriteDocument
  <2>1. WriteIs
    BY <1>3, WriteEffect
  <2>2. save.copy \in Document /\ save.stale \in BOOLEAN
    BY SaveFields DEF Typed
  <2>3. ReturnIs("ok")
    BY <2>1 DEF WriteIs
  <2>4. /\ save' \in SaveState
        /\ ui' = ui /\ worker' = worker /\ failed' = failed /\ result' \in Results
        /\ background' \in {"idle", "saving"}
        /\ namer' \in {"none", "asked", "saving", "done"}
        /\ receipt' \in {"none", "saving", "done"}
    BY <2>3, ReturnFine
  <2>5. HandleFine'
    BY <1>1, <2>1, <2>2, <2>4 DEF WriteIs, HandleFine
  <2>6. ArchiveFine' /\ InputsFine' /\ ThreadsFine'
    BY <1>1, <2>1, <2>4 DEF WriteIs, ArchiveFine, InputsFine, ThreadsFine, inputs, archive
  <2> QED  BY <2>5, <2>6, NextTypedParts
<1>4. CASE SaveFails
  <2>1. FailIs
    BY <1>4, FailEffect
  <2>2. ReturnIs("error")
    BY <2>1 DEF FailIs
  <2>3. /\ save' \in SaveState
        /\ ui' = ui /\ worker' = worker /\ failed' = failed /\ result' \in Results
        /\ background' \in {"idle", "saving"}
        /\ namer' \in {"none", "asked", "saving", "done"}
        /\ receipt' \in {"none", "saving", "done"}
    BY <2>2, ReturnFine
  <2>4. faults' \in 0..MaxFaults
    BY <1>1, <2>1, BoundsAssumption DEF FailIs, ThreadsFine
  <2>5. UNCHANGED <<inputs, messages, returned, dirty, disk, crossed>>
    BY <2>1 DEF FailIs
  <2>6. InputsFine' /\ ThreadsFine'
    BY <1>1, <2>3, <2>4, <2>5 DEF InputsFine, ThreadsFine, inputs
  <2>7. save.by # Nobody
    BY <2>2 DEF ReturnIs
  <2>8. live' \in Document /\ last' \in Input \cup {NoInput} /\ Len(live'.messages) <= MaxMessages
        /\ events' \in Seq(HistoryEvent)
    <3>1. CASE Withdrawn
      <4>1. Len(save.before.messages) <= Len(live.messages)
        BY <2>7 DEF SaveSound, DocBegins, Begins
      <4>2. /\ Len(save.before.messages) \in Nat /\ Len(live.messages) \in Nat /\ MaxMessages \in Nat
        BY Lengths
      <4>3. Len(save.before.messages) <= MaxMessages
        BY <1>1, <4>1, <4>2 DEF HandleFine
      <4> QED  BY <1>1, <3>1, <4>3 DEF Withdrawn, DocIs, HandleFine, ArchiveFine
    <3>2. CASE Unnoted
      <4>1. /\ Len(live.events) = Len(save.before.events) + 1
            /\ Len(live.events) <= Len(events)
            /\ save.displaced = 0 \/ save.displaced \in Len(live.events)..Len(events)
        BY <3>2 DEF Unnoted, SaveSound, ReceiptSaved
      <4>2. Len(save.before.events) \in Nat /\ Len(events) \in Nat /\ Len(live.events) \in Nat
            /\ events \in Seq(HistoryEvent)
        BY Lengths
      <4>3. PICK pos \in 1..Len(events) : pos = Len(save.before.events) + 1
        BY <4>1, <4>2
      <4>4. PICK at \in Nat : at = save.displaced
        BY SaveFields DEF Typed
      <4>5. at = 0 \/ at \in pos..Len(events)
        BY <4>1, <4>3, <4>4
      <4>6. Unmoved(events, pos, at) \in Seq(HistoryEvent)
        BY <4>2, <4>5, UnmovedProperties
      <4>7. events' = Unmoved(events, pos, at)
        BY <3>2, <4>3, <4>4 DEF Unnoted, WithoutReceipt, Unmoved
      <4> QED  BY <1>1, <3>2, <4>6, <4>7 DEF Unnoted, DocIs, HandleFine
    <3>3. CASE UNCHANGED <<live, last, events>>
      BY <1>1, <3>3 DEF HandleFine, ArchiveFine
    <3> QED  BY <2>1, <3>1, <3>2, <3>3 DEF FailIs
  <2>9. HandleFine' /\ ArchiveFine'
    BY <1>1, <2>3, <2>5, <2>8 DEF HandleFine, ArchiveFine
  <2> QED  BY <2>6, <2>9, NextTypedParts
<1> QED  BY <1>2, <1>3, <1>4 DEF Saving

\* Keys, and the queue.
LEMMA UserTyped ==
    ASSUME Typed, User
    PROVE  Typed'
<1>1. HandleFine /\ ArchiveFine /\ InputsFine /\ ThreadsFine
  BY TypedParts
<1>2. ASSUME NEW p \in Prompt, Type(p)
      PROVE  Typed'
  <2>1. /\ written' = written \cup {p} /\ composer' = composer \cup {p}
        /\ CapturedInto(composer' \cup paused, queued) /\ result' = result
        /\ UNCHANGED <<paused, queued, unshown, sending, submission, from, threads, archive,
                       faults, crossed>>
    BY <1>2 DEF Type, Captures
  <2>2. PICK draft \in SUBSET Prompt : draft = composer' \cup paused
    BY <1>1, <2>1 DEF InputsFine
  <2>3. PICK queue \in SUBSET Prompt : queue = queued
    BY <1>1 DEF InputsFine
  <2>4. CapturedInto(draft, queue)
    BY <2>1, <2>2, <2>3
  <2>5. CaptureIs(draft, queue)
    BY <2>4, CaptureEffect
  <2>6. HandleFine' /\ recorded' \in BOOLEAN
    BY <2>5, CaptureFine
  <2>7. InputsFine' /\ ArchiveFine' /\ ThreadsFine'
    BY <1>1, <2>1, <2>6 DEF InputsFine, ArchiveFine, ThreadsFine, threads, archive
  <2> QED  BY <2>6, <2>7, NextTypedParts
<1>3. CASE Queue
  <2>1. HandleFine' /\ ArchiveFine'
    BY <1>1, <1>3 DEF Queue, HandleFine, ArchiveFine, archive, handle
  <2>2. InputsFine' /\ ThreadsFine'
    BY <1>1, <1>3 DEF Queue, InputsFine, ThreadsFine, handle
  <2> QED  BY <2>1, <2>2, NextTypedParts
<1>4. CASE TakeBack
  <2>1. HandleFine' /\ ArchiveFine'
    BY <1>1, <1>4 DEF TakeBack, HandleFine, ArchiveFine, archive, handle
  <2>2. InputsFine' /\ ThreadsFine'
    BY <1>1, <1>4 DEF TakeBack, InputsFine, ThreadsFine, handle
  <2> QED  BY <2>1, <2>2, NextTypedParts
<1>5. CASE Send
  <2>1. /\ Len(messages) < MaxMessages
        /\ \/ sending' = composer /\ composer' = {} /\ queued' = queued
           \/ sending' = queued /\ queued' = {} /\ composer' = composer
        /\ CapturedInto(composer' \cup paused, queued') /\ result' = result
        /\ from' = Len(messages)
        /\ events' = Append(events, [kind |-> "start", after |-> from'])
        /\ ui' = "starting"
        /\ UNCHANGED <<written, paused, unshown, submission, worker, background, namer, receipt,
                       failed, messages, returned, faults, crossed>>
    BY <1>5 DEF Send, Captures, Start
  <2>2. PICK draft \in SUBSET Prompt : draft = composer' \cup paused
    BY <1>1, <2>1 DEF InputsFine
  <2>3. PICK queue \in SUBSET Prompt : queue = queued'
    BY <1>1, <2>1 DEF InputsFine
  <2>4. CapturedInto(draft, queue)
    BY <2>1, <2>2, <2>3
  <2>5. CaptureIs(draft, queue)
    BY <2>4, CaptureEffect
  <2>6. HandleFine' /\ recorded' \in BOOLEAN
    BY <2>5, CaptureFine
  <2>7. Len(messages) \in 0..MaxMessages /\ Len(messages) + 1 <= MaxMessages
    BY <2>1, Lengths
  <2>8. InputsFine' /\ ThreadsFine'
    BY <1>1, <2>1, <2>6, <2>7 DEF InputsFine, ThreadsFine
  <2>9. PICK event \in HistoryEvent : event = [kind |-> "start", after |-> from']
    BY <2>1, <2>7 DEF HistoryEvent
  <2>10. Append(events, event) \in Seq(HistoryEvent)
    BY <1>1, AppendedProperties DEF ArchiveFine
  <2>11. ArchiveFine'
    BY <1>1, <2>1, <2>9, <2>10 DEF ArchiveFine
  <2> QED  BY <2>6, <2>8, <2>11, NextTypedParts
<1> QED  BY <1>2, <1>3, <1>4, <1>5 DEF User
\* A set of positions has a last one.
LEMMA LastPosition ==
    ASSUME NEW n \in Nat, NEW I \in SUBSET (1..n), I # {}
    PROVE  \E k \in I : \A j \in I : j <= k
<1> DEFINE Back == {n - i : i \in I}
<1>0. \A i \in I : n - i \in Nat
  OBVIOUS
<1>1. Back \subseteq Nat /\ Back # {}
  BY <1>0
<1>2. PICK b \in Back : \A c \in Back : ~(<<c, b>> \in OpToRel(<, Nat))
  BY <1>1, NatLessThanWellFounded, WFMin
<1>3. PICK k \in I : b = n - k
  BY <1>2
<1>4. \A c \in Back : ~(c < b)
  BY <1>1, <1>2 DEF OpToRel
<1>5. \A j \in I : ~(n - j < n - k)
  BY <1>3, <1>4
<1>6. \A j \in I : j <= k
  BY <1>5
<1> QED  BY <1>6

\* A withdrawal takes the last start out of the events.
StartGone ==
    \/ events' = events /\ \A i \in 1..Len(events) : events[i] # Start
    \/ \E k \in 1..Len(events) :
          /\ events' = RemoveAt(events, k) /\ events[k] = Start
          /\ \A j \in 1..Len(events) : events[j] = Start => j <= k

\* withdraw_event removes one start from the events.
LEMMA WithoutStartEffect ==
    ASSUME Typed, events' = WithoutStart
    PROVE  StartGone
<1>1. events \in Seq(HistoryEvent) /\ Len(events) \in Nat
  BY Lengths
<1>2. DOMAIN events = 1..Len(events)
  BY <1>1, LenProperties
<1> DEFINE I == {i \in 1..Len(events) : events[i] = Start}
           Is(i) == events[i] = Start /\ \A j \in 1..Len(events) : events[j] = Start => j <= i
<1>3. CASE I = {}
  <2>1. ~\E i \in DOMAIN events : events[i] = Start
    BY <1>2, <1>3
  <2>2. events' = events
    BY <2>1 DEF WithoutStart
  <2> QED  BY <1>3, <2>2 DEF StartGone
<1>4. CASE I # {}
  <2>1. \E i \in DOMAIN events : events[i] = Start
    BY <1>2, <1>4
  <2>2. \E k \in 1..Len(events) : Is(k)
    <3>1. PICK k \in I : \A j \in I : j <= k
      BY <1>1, <1>4, LastPosition
    <3> QED  BY <3>1
  <2>3. events' = RemoveAt(events, CHOOSE i \in 1..Len(events) : Is(i))
    BY <1>2, <2>1 DEF WithoutStart
  <2>4. PICK k \in 1..Len(events) : k = (CHOOSE i \in 1..Len(events) : Is(i)) /\ Is(k)
    BY <2>2
  <2>5. events' = RemoveAt(events, k)
    BY <2>3, <2>4
  <2> QED  BY <2>4, <2>5 DEF StartGone
<1> QED  BY <1>3, <1>4

\* Events without a start are events.
LEMMA StartGoneFine ==
    ASSUME Typed, StartGone
    PROVE  events' \in Seq(HistoryEvent)
<1>1. events \in Seq(HistoryEvent)
  BY Lengths
<1> QED  BY <1>1, RemovedProperties DEF StartGone

\* Taking a result leaves the other's alone.
LEMMA TakesFine ==
    ASSUME Typed, NEW by \in {"ui", "worker"}, NEW outcome, TakesResult(by, outcome)
    PROVE  ResultIs(result', result, by, "none") /\ result[by] = outcome
<1>1. result \in Results
  BY TypedParts DEF ThreadsFine
<1>2. ResultIs([result EXCEPT ![by] = "none"], result, by, "none")
  BY <1>1, ResultTold
<1> QED  BY <1>2 DEF TakesResult

\* The interface.
LEMMA InterfaceTyped ==
    ASSUME Typed, Threads, TurnSound, Interface
    PROVE  Typed'
<1>1. HandleFine /\ ArchiveFine /\ InputsFine /\ ThreadsFine
  BY TypedParts
<1>2. CASE CaptureInput
  <2>1. /\ CapturedInto(composer \cup paused, queued) /\ result' = result /\ ui' = "loop"
        /\ UNCHANGED <<written, composer, paused, queued, unshown, sending, submission, from,
                       worker, background, namer, receipt, failed, archive, faults, crossed>>
    BY <1>2 DEF CaptureInput, Captures
  <2>2. composer \cup paused \in SUBSET Prompt /\ queued \in SUBSET Prompt
    BY <1>1 DEF InputsFine
  <2>3. HandleFine' /\ recorded' \in BOOLEAN
    BY <2>1, <2>2, CaptureEffect, CaptureFine
  <2>4. ArchiveFine' /\ InputsFine' /\ ThreadsFine'
    BY <1>1, <2>1, <2>3 DEF ArchiveFine, InputsFine, ThreadsFine, archive
  <2> QED  BY <2>3, <2>4, NextTypedParts
<1>3. CASE BeginCheckpoint
  <2>1. /\ Checkpoint("ui", "Begin") /\ ui' = "beginning"
        /\ UNCHANGED <<inputs, worker, background, namer, receipt, failed, archive, faults, crossed>>
    BY <1>3 DEF BeginCheckpoint
  <2>2. HandleFine' /\ result' \in Results
    BY <2>1, CheckpointEffect, CheckpointFine
  <2>3. ArchiveFine' /\ InputsFine' /\ ThreadsFine'
    BY <1>1, <2>1, <2>2 DEF ArchiveFine, InputsFine, ThreadsFine, archive, inputs
  <2> QED  BY <2>2, <2>3, NextTypedParts
<1>4. CASE Begun
  <2>1. /\ TakesResult("ui", "ok")
        /\ submission' = sending /\ sending' = {}
        /\ namer' = IF namer = "none" THEN "asked" ELSE namer
        /\ worker' = "asking" /\ failed' = FALSE
        /\ CapturedInto(composer \cup paused, queued)
        /\ ui' = "loop"
        /\ UNCHANGED <<written, composer, paused, queued, unshown, from,
                       background, receipt, archive, faults, crossed>>
    BY <1>4 DEF Begun
  <2>2. composer \cup paused \in SUBSET Prompt /\ queued \in SUBSET Prompt
    BY <1>1 DEF InputsFine
  <2>3. HandleFine' /\ recorded' \in BOOLEAN
    BY <2>1, <2>2, CaptureEffect, CaptureFine
  <2>4. result' \in Results
    BY <2>1, TakesFine DEF ResultIs
  <2>5. ArchiveFine' /\ InputsFine' /\ ThreadsFine'
    BY <1>1, <2>1, <2>3, <2>4 DEF ArchiveFine, InputsFine, ThreadsFine, archive
  <2> QED  BY <2>3, <2>5, NextTypedParts
<1>5. CASE NotBegun
  <2>1. /\ ui = "beginning"
        /\ TakesResult("ui", "error")
        /\ messages' = SubSeq(messages, 1, from)
        /\ ui' = "withdrawing"
        /\ UNCHANGED <<inputs, worker, background, namer, receipt, failed, events, returned,
                       live, dirty, last, save, disk, faults, crossed>>
    BY <1>5 DEF NotBegun
  <2>2. HandleFine'
    BY <1>1, <2>1 DEF HandleFine
  <2>3. result' \in Results
    BY <2>1, TakesFine DEF ResultIs
  <2>4. from \in 0..Len(messages)
    BY <1>1, <2>1 DEF TurnSound, Beginning, InputsFine
  <2>5. messages' \in Seq(Message) /\ Len(messages') = from
    BY <1>1, <2>1, <2>4, CutProperties DEF ArchiveFine
  <2>6. InputsFine' /\ ThreadsFine'
    BY <1>1, <2>1, <2>3 DEF InputsFine, ThreadsFine, inputs
  <2>7. ArchiveFine'
    BY <1>1, <2>1, <2>5 DEF ArchiveFine, InputsFine
  <2> QED  BY <2>2, <2>6, <2>7, NextTypedParts
<1>12. CASE PushPrompt
  <2>1. /\ ui = "starting" /\ messages' = Append(messages, sending) /\ ui' = "begin"
        /\ UNCHANGED <<inputs, worker, background, namer, receipt, failed, events, returned,
                       handle, faults, crossed>>
    BY <1>12 DEF PushPrompt
  <2>2. HandleFine' /\ InputsFine' /\ ThreadsFine'
    BY <1>1, <2>1 DEF HandleFine, InputsFine, ThreadsFine, inputs, handle
  <2>3. PICK m \in Message : m = sending
    BY <1>1 DEF InputsFine, Message
  <2>4. Append(messages, m) \in Seq(Message) /\ Len(Append(messages, m)) = Len(messages) + 1
    BY <1>1, AppendedProperties DEF ArchiveFine
  <2>5. Len(messages) = from /\ from < MaxMessages
    BY <2>1 DEF TurnSound, OnItsWay
  <2>6. Len(messages) + 1 <= MaxMessages
    BY <1>1, <2>5, BoundsAssumption DEF InputsFine
  <2>7. ArchiveFine'
    BY <1>1, <2>1, <2>3, <2>4, <2>6 DEF ArchiveFine
  <2> QED  BY <2>2, <2>7, NextTypedParts
<1>13. CASE Withdraw
  <2>1. /\ events' = WithoutStart
        /\ paused' = paused \cup queued \cup composer /\ queued' = {}
        /\ composer' = sending /\ sending' = {}
        /\ CapturedInto(composer' \cup paused', {}) /\ result' = result
        /\ ui' = "loop"
        /\ UNCHANGED <<written, unshown, submission, from, worker, background, namer, receipt,
                       failed, messages, returned, faults, crossed>>
    BY <1>13 DEF Withdraw, Captures
  <2>2. PICK draft \in SUBSET Prompt : draft = composer' \cup paused'
    BY <1>1, <2>1 DEF InputsFine
  <2>3. PICK queue \in SUBSET Prompt : queue = {}
    OBVIOUS
  <2>4. CaptureIs(draft, queue)
    BY <2>1, <2>2, <2>3, CaptureEffect
  <2>5. HandleFine' /\ recorded' \in BOOLEAN
    BY <2>4, CaptureFine
  <2>6. events' \in Seq(HistoryEvent)
    BY <2>1, WithoutStartEffect, StartGoneFine
  <2>7. InputsFine' /\ ThreadsFine'
    BY <1>1, <2>1, <2>5 DEF InputsFine, ThreadsFine
  <2>8. ArchiveFine'
    BY <1>1, <2>1, <2>6 DEF ArchiveFine
  <2> QED  BY <2>5, <2>7, <2>8, NextTypedParts
<1>6. CASE Show
  <2>1. /\ submission' = submission \cup unshown /\ unshown' = {}
        /\ CapturedInto(composer \cup paused, queued) /\ result' = result
        /\ UNCHANGED <<written, composer, paused, queued, sending, from, threads, archive,
                       faults, crossed>>
    BY <1>6 DEF Show, Captures
  <2>2. composer \cup paused \in SUBSET Prompt /\ queued \in SUBSET Prompt
    BY <1>1 DEF InputsFine
  <2>3. HandleFine' /\ recorded' \in BOOLEAN
    BY <2>1, <2>2, CaptureEffect, CaptureFine
  <2>4. ArchiveFine' /\ InputsFine' /\ ThreadsFine'
    BY <1>1, <2>1, <2>3 DEF ArchiveFine, InputsFine, ThreadsFine, archive, threads
  <2> QED  BY <2>3, <2>4, NextTypedParts
<1>7. CASE Finished
  <2>1. HandleFine' /\ ArchiveFine'
    BY <1>1, <1>7 DEF Finished, HandleFine, ArchiveFine, archive, handle
  <2>2. InputsFine' /\ ThreadsFine'
    BY <1>1, <1>7 DEF Finished, InputsFine, ThreadsFine, handle
  <2> QED  BY <2>1, <2>2, NextTypedParts
<1>8. CASE Paused
  <2>1. /\ worker' = "idle" /\ submission' = {} /\ unshown' = {} /\ queued' = {}
        /\ \/ composer' = paused \cup queued /\ paused' = {}
           \/ paused' = paused \cup queued /\ composer' = composer
        /\ CapturedInto(composer' \cup paused', {}) /\ result' = result
        /\ UNCHANGED <<written, sending, from, ui, background, namer, receipt, failed,
                       archive, faults, crossed>>
    BY <1>8 DEF Paused, Captures
  <2>2. PICK draft \in SUBSET Prompt : draft = composer' \cup paused'
    BY <1>1, <2>1 DEF InputsFine
  <2>3. PICK queue \in SUBSET Prompt : queue = {}
    OBVIOUS
  <2>4. CaptureIs(draft, queue)
    BY <2>1, <2>2, <2>3, CaptureEffect
  <2>5. HandleFine' /\ recorded' \in BOOLEAN
    BY <2>4, CaptureFine
  <2>6. ArchiveFine' /\ InputsFine' /\ ThreadsFine'
    BY <1>1, <2>1, <2>5 DEF ArchiveFine, InputsFine, ThreadsFine, archive
  <2> QED  BY <2>5, <2>6, NextTypedParts
<1>9. CASE Returned
  <2>1. /\ worker' = "idle" /\ submission' = {} /\ unshown' = {}
        /\ composer' = submission \cup unshown
        /\ paused' = paused \cup queued \cup composer /\ queued' = {}
        /\ returned' = returned \cup ((from + 1)..Len(messages))
        /\ events' = Append(events, [kind |-> "returned", after |-> Len(messages)])
        /\ CapturedInto(composer' \cup paused', {}) /\ result' = result
        /\ ui' = "returned"
        /\ UNCHANGED <<written, sending, from, background, namer, receipt, failed, messages,
                       faults, crossed>>
    BY <1>9 DEF Returned, Captures, ReturnedPrompts
  <2>2. PICK draft \in SUBSET Prompt : draft = composer' \cup paused'
    BY <1>1, <2>1 DEF InputsFine
  <2>3. PICK queue \in SUBSET Prompt : queue = {}
    OBVIOUS
  <2>4. CaptureIs(draft, queue)
    BY <2>1, <2>2, <2>3, CaptureEffect
  <2>5. HandleFine' /\ recorded' \in BOOLEAN
    BY <2>4, CaptureFine
  <2>6. InputsFine' /\ ThreadsFine'
    BY <1>1, <2>1, <2>5 DEF InputsFine, ThreadsFine
  <2>7. Len(messages) \in 0..MaxMessages /\ Len(messages) \in Nat /\ MaxMessages \in Nat
    BY <1>1, Lengths DEF ArchiveFine
  <2>8. (from + 1)..Len(messages) \subseteq 1..MaxMessages
    BY <1>1, <2>7 DEF InputsFine
  <2>9. PICK event \in HistoryEvent : event = [kind |-> "returned", after |-> Len(messages)]
    BY <2>7 DEF HistoryEvent
  <2>10. Append(events, event) \in Seq(HistoryEvent)
    BY <1>1, AppendedProperties DEF ArchiveFine
  <2>11. ArchiveFine'
    BY <1>1, <2>1, <2>8, <2>9, <2>10 DEF ArchiveFine
  <2> QED  BY <2>5, <2>6, <2>11, NextTypedParts
<1>10. CASE ReturnCheckpoint
  <2>1. /\ Checkpoint("ui", "Preserve") /\ ui' = "returning"
        /\ UNCHANGED <<inputs, worker, background, namer, receipt, failed, archive, faults, crossed>>
    BY <1>10 DEF ReturnCheckpoint
  <2>2. HandleFine' /\ result' \in Results
    BY <2>1, CheckpointEffect, CheckpointFine
  <2>3. ArchiveFine' /\ InputsFine' /\ ThreadsFine'
    BY <1>1, <2>1, <2>2 DEF ArchiveFine, InputsFine, ThreadsFine, archive, inputs
  <2> QED  BY <2>2, <2>3, NextTypedParts
<1>11. CASE ReturnSaved
  <2>1. PICK outcome \in {"ok", "error"} : TakesResult("ui", outcome)
    BY <1>11 DEF ReturnSaved
  <2>2. result' \in Results
    BY <2>1, TakesFine DEF ResultIs
  <2>3. HandleFine' /\ ArchiveFine'
    BY <1>1, <1>11 DEF ReturnSaved, HandleFine, ArchiveFine, archive
  <2>4. InputsFine' /\ ThreadsFine'
    BY <1>1, <1>11, <2>2 DEF ReturnSaved, InputsFine, ThreadsFine, inputs
  <2> QED  BY <2>3, <2>4, NextTypedParts
<1> QED  BY <1>2, <1>3, <1>4, <1>5, <1>6, <1>7, <1>8, <1>9, <1>10, <1>11, <1>12, <1>13 DEF Interface

\* The worker.
LEMMA WorkerTyped ==
    ASSUME Typed, TurnSound, Worker
    PROVE  Typed'
<1>1. HandleFine /\ ArchiveFine /\ InputsFine /\ ThreadsFine
  BY TypedParts
<1>2. ASSUME NEW m \in Message, Len(messages) < MaxMessages, messages' = Append(messages, m),
             events' = events, returned' = returned
      PROVE  ArchiveFine'
  <2>1. Append(messages, m) \in Seq(Message) /\ Len(Append(messages, m)) = Len(messages) + 1
    BY <1>1, AppendedProperties DEF ArchiveFine
  <2>2. Len(messages) + 1 <= MaxMessages
    BY <1>2, Lengths
  <2> QED  BY <1>1, <1>2, <2>1, <2>2 DEF ArchiveFine
<1>3. CASE Accept
  <2>1. PICK m \in Message : m = Deliverable
    BY <1>1 DEF Deliverable, InputsFine, Message
  <2>2. /\ Len(messages) < MaxMessages /\ messages' = Append(messages, m)
        /\ events' = events /\ returned' = returned
    BY <1>3, <2>1 DEF Accept
  <2>3. ArchiveFine'
    BY <1>2, <2>2
  <2>4. HandleFine' /\ InputsFine' /\ ThreadsFine'
    BY <1>1, <1>3 DEF Accept, HandleFine, InputsFine, ThreadsFine, handle, inputs
  <2> QED  BY <2>3, <2>4, NextTypedParts
<1>4. CASE AcceptCheckpoint
  <2>1. /\ Checkpoint("worker", "Accept")
        /\ UNCHANGED <<inputs, threads, archive, faults, crossed>>
    BY <1>4 DEF AcceptCheckpoint
  <2>2. HandleFine' /\ result' \in Results
    BY <2>1, CheckpointEffect, CheckpointFine
  <2>3. ArchiveFine' /\ InputsFine' /\ ThreadsFine'
    BY <1>1, <2>1, <2>2 DEF ArchiveFine, InputsFine, ThreadsFine, archive, inputs, threads
  <2> QED  BY <2>2, <2>3, NextTypedParts
<1>5. CASE Accepted
  <2>1. result' \in Results
    <3>1. TakesResult("worker", "ok")
      BY <1>5 DEF Accepted
    <3> QED  BY <3>1, TakesFine DEF ResultIs
  <2>2. HandleFine' /\ ArchiveFine'
    BY <1>1, <1>5 DEF Accepted, HandleFine, ArchiveFine, archive
  <2>3. InputsFine' /\ ThreadsFine'
    BY <1>1, <1>5, <2>1 DEF Accepted, InputsFine, ThreadsFine
  <2> QED  BY <2>2, <2>3, NextTypedParts
<1>6. CASE NotAccepted
  <2>1. TakesResult("worker", "error") /\ messages' = SubSeq(messages, 1, Len(messages) - 1)
        /\ worker = "accepting"
    BY <1>6 DEF NotAccepted
  <2>2. result' \in Results
    BY <2>1, TakesFine DEF ResultIs
  <2>3. from < Len(messages) - 1
    BY <2>1 DEF TurnSound, Settled
  <2>4. Len(messages) - 1 \in 0..Len(messages)
    BY <1>1, <2>3, Lengths DEF InputsFine
  <2>5. messages' \in Seq(Message) /\ Len(messages') = Len(messages) - 1
    BY <1>1, <2>1, <2>4, CutProperties DEF ArchiveFine
  <2>6. ArchiveFine'
    <3>1. Len(messages') <= MaxMessages
      BY <1>1, <2>4, <2>5, Lengths DEF ArchiveFine
    <3> QED  BY <1>1, <1>6, <2>5, <3>1 DEF NotAccepted, ArchiveFine
  <2>7. HandleFine' /\ InputsFine' /\ ThreadsFine'
    BY <1>1, <1>6, <2>2 DEF NotAccepted, HandleFine, InputsFine, ThreadsFine, inputs
  <2> QED  BY <2>6, <2>7, NextTypedParts
<1>7. CASE Ask
  <2>1. HandleFine' /\ ArchiveFine'
    BY <1>1, <1>7 DEF Ask, HandleFine, ArchiveFine, archive, handle
  <2>2. InputsFine' /\ ThreadsFine'
    BY <1>1, <1>7 DEF Ask, InputsFine, ThreadsFine, inputs, handle
  <2> QED  BY <2>1, <2>2, NextTypedParts
<1>8. CASE Stop
  <2>1. HandleFine' /\ ArchiveFine'
    BY <1>1, <1>8 DEF Stop, HandleFine, ArchiveFine, archive, handle
  <2>2. InputsFine' /\ ThreadsFine'
    BY <1>1, <1>8 DEF Stop, InputsFine, ThreadsFine, inputs, handle
  <2> QED  BY <2>1, <2>2, NextTypedParts
<1>9. CASE Completion
  <2>1. PICK m \in Message : m = NoPrompts
    BY DEF NoPrompts, Message
  <2>2. /\ Len(messages) < MaxMessages /\ messages' = Append(messages, m)
        /\ events' = events /\ returned' = returned
    BY <1>9, <2>1 DEF Completion
  <2>3. ArchiveFine'
    BY <1>2, <2>2
  <2>4. HandleFine' /\ InputsFine' /\ ThreadsFine'
    BY <1>1, <1>9 DEF Completion, HandleFine, InputsFine, ThreadsFine, handle, inputs
  <2> QED  BY <2>3, <2>4, NextTypedParts
<1>10. CASE KnowsCompletion
  <2>1. Len(messages) \in 0..MaxMessages
    BY <1>1, Lengths DEF ArchiveFine
  <2>2. PICK event \in HistoryEvent : event = Receipt(Len(messages))
    BY <2>1, ReceiptIsEvent
  <2>3. Append(events, event) \in Seq(HistoryEvent)
    BY <1>1, AppendedProperties DEF ArchiveFine
  <2>4. ArchiveFine'
    BY <1>1, <1>10, <2>2, <2>3 DEF KnowsCompletion, ArchiveFine
  <2>5. HandleFine' /\ InputsFine' /\ ThreadsFine'
    BY <1>1, <1>10 DEF KnowsCompletion, HandleFine, InputsFine, ThreadsFine, handle, inputs, threads
  <2> QED  BY <2>4, <2>5, NextTypedParts
<1>11. CASE WorkerCheckpoint
  <2>1. /\ Checkpoint("worker", "Preserve")
        /\ UNCHANGED <<inputs, threads, archive, faults, crossed>>
    BY <1>11 DEF WorkerCheckpoint
  <2>2. HandleFine' /\ result' \in Results
    BY <2>1, CheckpointEffect, CheckpointFine
  <2>3. ArchiveFine' /\ InputsFine' /\ ThreadsFine'
    BY <1>1, <2>1, <2>2 DEF ArchiveFine, InputsFine, ThreadsFine, archive, inputs, threads
  <2> QED  BY <2>2, <2>3, NextTypedParts
<1>12. CASE Answered \/ Ended
  <2>1. \E outcome \in {"ok", "error"} : TakesResult("worker", outcome)
    BY <1>12 DEF Answered, Ended
  <2>2. result' \in Results
    BY <2>1, TakesFine DEF ResultIs
  <2>3. HandleFine' /\ ArchiveFine'
    BY <1>1, <1>12 DEF Answered, Ended, HandleFine, ArchiveFine, archive
  <2>4. /\ worker' \in {"asking", "ending", "done"} /\ failed' \in BOOLEAN
        /\ UNCHANGED <<inputs, ui, background, namer, receipt, faults, crossed>>
    BY <1>1, <1>12 DEF Answered, Ended, ThreadsFine
  <2>5. InputsFine' /\ ThreadsFine'
    BY <1>1, <2>2, <2>4 DEF InputsFine, ThreadsFine, inputs
  <2> QED  BY <2>3, <2>5, NextTypedParts
<1> QED  BY <1>3, <1>4, <1>5, <1>6, <1>7, <1>8, <1>9, <1>10, <1>11, <1>12 DEF Worker

\* The other writers.
LEMMA OthersTyped ==
    ASSUME Typed, Flush \/ AppendReceipt \/ Title
    PROVE  Typed'
<1>1. HandleFine /\ ArchiveFine /\ InputsFine /\ ThreadsFine
  BY TypedParts
<1>2. CASE Flush
  <2>1. FlushIs
    BY <1>2, FlushEffect
  <2>2. HandleFine' /\ ArchiveFine'
    BY <1>1, <1>2, <2>1 DEF Flush, FlushIs, SaveIs, HandleFine, ArchiveFine, archive
  <2>3. InputsFine' /\ ThreadsFine'
    BY <1>1, <2>1 DEF FlushIs, InputsFine, ThreadsFine, inputs
  <2> QED  BY <2>2, <2>3, NextTypedParts
<1>3. CASE AppendReceipt
  <2>1. AppendReceiptIs
    BY <1>3, AppendReceiptEffect
  <2>2. InputsFine' /\ UNCHANGED <<messages, returned, last, disk>>
    BY <1>1, <2>1 DEF AppendReceiptIs, InputsFine, inputs
  <2>3. CASE receipt' = "done" /\ UNCHANGED <<events, live, dirty, save>>
    <3>1. HandleFine' /\ ArchiveFine' /\ ThreadsFine'
      BY <1>1, <2>1, <2>2, <2>3 DEF AppendReceiptIs, HandleFine, ArchiveFine, ThreadsFine
    <3> QED  BY <2>2, <3>1, NextTypedParts
  <2>4. ASSUME NEW at \in 0..Len(events), NoteIs(at)
        PROVE  Typed'
    <3>1. Len(live.messages) \in 0..MaxMessages /\ Len(live.events) \in Nat /\ Len(events) \in Nat
      BY <1>1, Lengths DEF HandleFine
    <3>2. PICK event \in HistoryEvent : event = Receipt(Len(live.messages))
      BY <3>1, ReceiptIsEvent
    <3>3. Len(live.events) <= Len(events)
      BY <2>1 DEF AppendReceiptIs
    <3>4. PICK pos \in 1..(Len(events) + 1) : pos = Len(live.events) + 1
      BY <3>1, <3>3
    <3>5. at = 0 \/ pos <= at
      BY <2>4, <3>1, <3>4 DEF NoteIs
    <3>6. Moved(events, at, pos, event) \in Seq(HistoryEvent)
      BY <1>1, <3>5, MovedProperties DEF ArchiveFine
    <3>7. HandleFine' /\ ArchiveFine'
      BY <1>1, <2>2, <2>4, <3>2, <3>4, <3>6 DEF NoteIs, HandleFine, ArchiveFine, DocIs, SaveIs
    <3>8. ThreadsFine'
      BY <1>1, <2>1, <2>4 DEF AppendReceiptIs, NoteIs, ThreadsFine
    <3> QED  BY <2>2, <3>7, <3>8, NextTypedParts
  <2> QED  BY <2>1, <2>3, <2>4 DEF AppendReceiptIs
<1>4. CASE Title
  <2>1. TitleIs
    BY <1>4, TitleEffect
  <2>2. InputsFine' /\ UNCHANGED <<messages, returned, last, disk>>
    BY <1>1, <2>1 DEF TitleIs, InputsFine, inputs
  <2>3. ThreadsFine'
    BY <1>1, <2>1 DEF TitleIs, ThreadsFine
  <2>4. PICK event \in HistoryEvent : event = TitleAt(Len(messages))
    <3>1. Len(messages) \in 0..MaxMessages
      BY <1>1, Lengths DEF ArchiveFine
    <3> QED  BY <3>1 DEF TitleAt, HistoryEvent
  <2>5. Append(events, event) \in Seq(HistoryEvent)
    BY <1>1, AppendedProperties DEF ArchiveFine
  <2>6. events' = Append(events, event) \/ events' = events
    BY <2>1, <2>4 DEF TitleIs
  <2>7. live' \in Document /\ (live'.messages = messages \/ live'.messages = live.messages)
    BY <2>1 DEF TitleIs, DocIs
  <2>8. HandleFine' /\ ArchiveFine'
    BY <1>1, <2>1, <2>2, <2>5, <2>6, <2>7 DEF TitleIs, HandleFine, ArchiveFine, SaveIs
  <2> QED  BY <2>2, <2>3, <2>8, NextTypedParts
<1> QED  BY <1>2, <1>3, <1>4
-----------------------------------------------------------------------------
(* Each step keeps Threads.                                                *)

\* No save has no writer and no stage.
LEMMA NoSaveFields == NoSave.by = Nobody /\ NoSave.stage = "Preserve" /\ NoSave.step = "copy"
BY DEF NoSave

\* Who saves, and at which stage.
SaverSame == save'.by = save.by /\ save'.stage = save.stage /\ (save = NoSave => save' = NoSave)

\* A save that did not move has the same writer.
LEMMA SameSaver ==
    ASSUME save' = save
    PROVE  SaverSame
BY DEF SaverSame

\* What a thread does while it neither saves nor is told of a save.
LEMMA ThreadsMove ==
    ASSUME Threads, SaverSame, result' = result,
           ui' \notin {"loop", "capture"} => worker' = "idle",
           ui' = ui \/ (ui \notin {"beginning", "returning"} /\ ui' \notin {"beginning", "returning"}),
           worker' = worker \/ (worker \notin {"accepting", "answering", "ending"}
                                /\ save.by # "worker" /\ result["worker"] = "none")
    PROVE  Threads'
BY DEF Threads, SaverSame

\* A thread that takes its result waits no more.
LEMMA ThreadsTold ==
    ASSUME Typed, Threads, SaverSame, NEW by \in {"ui", "worker"}, NEW outcome \in {"ok", "error"},
           TakesResult(by, outcome), worker # "idle" => ui \notin {"beginning", "returning"},
           by = "ui" => ui' = "loop" \/ (ui' = "withdrawing" /\ worker' = worker),
           by = "worker" => ui' = ui /\ worker' \notin {"idle", "accepting"}
                            /\ worker # "idle",
           by = "ui" => worker' = worker \/ (worker = "idle" /\ worker' = "asking")
    PROVE  Threads'
<1>1. ResultIs(result', result, by, "none") /\ result[by] = outcome
  BY TakesFine
<1>2. CASE by = "ui"
  <2>1. /\ result'["ui"] = "none" /\ result'["worker"] = result["worker"] /\ result["ui"] # "none"
    BY <1>1, <1>2 DEF ResultIs
  <2>2. save.by # "ui" /\ ui \in {"beginning", "returning"} /\ worker = "idle"
    BY <2>1 DEF Threads
  <2>3. /\ save.by # "worker" /\ result["worker"] = "none"
        /\ save.stage # "Begin" /\ save.stage # "Accept"
    BY <2>2 DEF Threads
  <2> QED  BY <1>2, <2>1, <2>2, <2>3 DEF Threads, SaverSame
<1>3. CASE by = "worker"
  <2>1. /\ result'["worker"] = "none" /\ result'["ui"] = result["ui"] /\ result["worker"] # "none"
    BY <1>1, <1>3 DEF ResultIs
  <2>2. save.by # "worker" /\ worker \in {"accepting", "answering", "ending"}
    BY <2>1 DEF Threads
  <2>3. save.by # "ui" /\ result["ui"] = "none" /\ ui \in {"loop", "capture"}
    BY <2>2 DEF Threads
  <2> QED  BY <1>3, <2>1, <2>2, <2>3 DEF Threads, SaverSame
<1> QED  BY <1>2, <1>3

\* A save that another thread begins.
LEMMA ThreadsOther ==
    ASSUME Threads, save = NoSave, save'.by \in {"autosave", "namer", "receipt"},
           save'.stage = "Preserve", UNCHANGED <<ui, worker, result>>
    PROVE  Threads'
BY DEF Threads, Nobody

\* Steps of a save keep who holds io and who waits.
LEMMA SavingThreads ==
    ASSUME Typed, Threads, SaveSound, Saving
    PROVE  Threads'
<1>1. CASE Copy
  <2>1. CopyIs
    BY <1>1, CopyEffect
  <2>2. /\ save'.by = save.by /\ save'.stage = save.stage /\ save.by # Nobody
        /\ UNCHANGED <<ui, worker, result>>
    BY <2>1 DEF CopyIs, SaveIs, threads
  <2> QED  BY <2>2 DEF Threads
<1>2. ASSUME NEW outcome \in {"ok", "error"}, ReturnIs(outcome)
      PROVE  Threads'
  <2>1. save'.by = Nobody /\ save'.stage = "Preserve" /\ save' = NoSave
        /\ ui' = ui /\ worker' = worker
    BY <1>2, NoSaveFields DEF ReturnIs
  <2>2. Nobody \notin {"ui", "worker"}
    BY DEF Nobody
  <2>3. CASE save.by \in {"ui", "worker"} /\ ResultIs(result', result, save.by, outcome)
    <3>1. CASE save.by = "ui"
      <4>1. result'["worker"] = result["worker"]
        BY <2>3, <3>1 DEF ResultIs
      <4> QED  BY <2>1, <2>2, <3>1, <4>1 DEF Threads
    <3>2. CASE save.by = "worker"
      <4>1. result'["ui"] = result["ui"]
        BY <2>3, <3>2 DEF ResultIs
      <4> QED  BY <2>1, <2>2, <3>2, <4>1 DEF Threads
    <3> QED  BY <2>3, <3>1, <3>2
  <2>4. CASE result' = result
    BY <2>1, <2>2, <2>4 DEF Threads
  <2> QED  BY <1>2, <2>3, <2>4 DEF ReturnIs
<1>3. CASE WriteDocument
  BY <1>2, <1>3, WriteEffect DEF WriteIs
<1>4. CASE SaveFails
  BY <1>2, <1>4, FailEffect DEF FailIs
<1> QED  BY <1>1, <1>3, <1>4 DEF Saving

\* Capturing input leaves a save's writer alone.
LEMMA CaptureSaver ==
    ASSUME Typed, NEW draft, NEW queue, draft \subseteq Prompt, queue \subseteq Prompt,
           CapturedInto(draft, queue)
    PROVE  SaverSame /\ CaptureIs(draft, queue)
<1>1. PICK d \in SUBSET Prompt : d = draft
  OBVIOUS
<1>2. PICK q \in SUBSET Prompt : q = queue
  OBVIOUS
<1>3. CaptureIs(d, q)
  BY <1>1, <1>2, CaptureEffect
<1> QED  BY <1>1, <1>2, <1>3 DEF CaptureIs, SaverSame

\* A checkpoint begins for a thread that then waits for it.
LEMMA CheckpointThreads ==
    ASSUME Typed, Threads, NEW by \in {"ui", "worker"},
           NEW stage \in {"Preserve", "Begin", "Accept"}, Checkpoint(by, stage),
           by = "ui" => /\ ui' \in {"beginning", "returning"} /\ worker' = worker
                        /\ worker = "idle" /\ (stage = "Begin" <=> ui' = "beginning")
                        /\ stage # "Accept",
           by = "worker" => /\ UNCHANGED <<ui, worker>>
                            /\ worker \in {"accepting", "answering", "ending"}
                            /\ (stage = "Accept" <=> worker = "accepting") /\ stage # "Begin"
    PROVE  Threads'
<1>1. CheckpointRefused(by) \/ CheckpointTaken(by, stage)
  BY CheckpointEffect
<1>2. Nobody \notin {"ui", "worker"} /\ NoSave.by = Nobody /\ NoSave.stage = "Preserve"
  BY NoSaveFields DEF Nobody
<1>3. save = NoSave
  BY <1>1 DEF CheckpointRefused, CheckpointTaken
<1>4. CASE CheckpointRefused(by)
  <2>1. result'["ui"] # result["ui"] => by = "ui"
    BY <1>4 DEF CheckpointRefused, ResultIs
  <2>2. result'["worker"] # result["worker"] => by = "worker"
    BY <1>4 DEF CheckpointRefused, ResultIs
  <2>3. save' = NoSave
    BY <1>4 DEF CheckpointRefused
  <2> QED  BY <1>2, <1>3, <2>1, <2>2, <2>3 DEF Threads
<1>5. CASE CheckpointTaken(by, stage)
  <2>1. save'.by = by /\ save'.stage = stage /\ result' = result /\ result[by] = "none"
    BY <1>5 DEF CheckpointTaken, SaveIs
  <2> QED  BY <1>2, <1>3, <2>1 DEF Threads
<1> QED  BY <1>1, <1>4, <1>5

\* Prompts wherever they are.
LEMMA InputSets ==
    ASSUME Typed
    PROVE  /\ composer \subseteq Prompt /\ paused \subseteq Prompt /\ queued \subseteq Prompt
           /\ sending \subseteq Prompt /\ submission \subseteq Prompt /\ unshown \subseteq Prompt
BY TypedParts DEF InputsFine

\* What the user does changes nobody's wait.
LEMMA UserThreads ==
    ASSUME Typed, Threads, User
    PROVE  Threads'
<1>1. /\ composer \subseteq Prompt /\ paused \subseteq Prompt /\ queued \subseteq Prompt
  BY InputSets
<1>2. ASSUME NEW p \in Prompt, Type(p)
      PROVE  Threads'
  <2>1. /\ CapturedInto(composer' \cup paused, queued) /\ composer' = composer \cup {p}
        /\ UNCHANGED <<result, ui, worker>>
    BY <1>2 DEF Type, Captures, threads
  <2>2. SaverSame
    BY <1>1, <2>1, CaptureSaver
  <2>3. ui' \notin {"loop", "capture"} => worker' = "idle"
    BY <2>1 DEF Threads
  <2> QED  BY <2>1, <2>2, <2>3, ThreadsMove
<1>3. CASE Queue \/ TakeBack
  <2>1. save' = save /\ result' = result /\ worker' = worker /\ ui = "loop" /\ ui' = "capture"
    BY <1>3 DEF Queue, TakeBack, handle
  <2> QED  BY <2>1, SameSaver, ThreadsMove
<1>4. CASE Send
  <2>1. /\ CapturedInto(composer' \cup paused, queued')
        /\ result' = result /\ ui = "loop" /\ ui' = "starting" /\ worker = "idle" /\ worker' = worker
        /\ composer' \subseteq Prompt /\ queued' \subseteq Prompt
    BY <1>1, <1>4 DEF Send, Captures
  <2>2. SaverSame
    BY <1>1, <2>1, CaptureSaver
  <2> QED  BY <2>1, <2>2, ThreadsMove
<1> QED  BY <1>2, <1>3, <1>4 DEF User

\* The interface waits for what it began.
LEMMA InterfaceThreads ==
    ASSUME Typed, Threads, Interface
    PROVE  Threads'
<1>1. /\ composer \subseteq Prompt /\ paused \subseteq Prompt /\ queued \subseteq Prompt
      /\ sending \subseteq Prompt /\ submission \subseteq Prompt /\ unshown \subseteq Prompt
  BY InputSets
<1>2. CASE CaptureInput
  <2>1. /\ CapturedInto(composer \cup paused, queued) /\ result' = result
        /\ ui = "capture" /\ ui' = "loop" /\ worker' = worker
    BY <1>2 DEF CaptureInput, Captures
  <2>2. SaverSame
    BY <1>1, <2>1, CaptureSaver
  <2> QED  BY <2>1, <2>2, ThreadsMove
<1>3. CASE BeginCheckpoint
  <2>1. /\ Checkpoint("ui", "Begin") /\ ui = "begin" /\ ui' = "beginning" /\ worker' = worker
    BY <1>3 DEF BeginCheckpoint
  <2>2. worker = "idle"
    BY <2>1 DEF Threads
  <2> QED  BY <2>1, <2>2, CheckpointThreads
<1>4. CASE Begun
  <2>1. /\ CapturedInto(composer \cup paused, queued)
        /\ TakesResult("ui", "ok") /\ ui = "beginning" /\ ui' = "loop" /\ worker' = "asking"
    BY <1>4 DEF Begun
  <2>2. SaverSame
    BY <1>1, <2>1, CaptureSaver
  <2>3. worker = "idle"
    BY <2>1 DEF Threads
  <2> QED  BY <2>1, <2>2, <2>3, ThreadsTold
<1>5. CASE NotBegun
  <2>1. /\ TakesResult("ui", "error") /\ ui = "beginning" /\ ui' = "withdrawing"
        /\ worker' = worker /\ save' = save
    BY <1>5 DEF NotBegun
  <2>2. worker = "idle"
    BY <2>1 DEF Threads
  <2> QED  BY <2>1, <2>2, SameSaver, ThreadsTold
<1>12. CASE PushPrompt
  <2>1. save' = save /\ result' = result /\ worker' = worker /\ ui = "starting" /\ ui' = "begin"
    BY <1>12 DEF PushPrompt, handle
  <2>2. worker = "idle"
    BY <2>1 DEF Threads
  <2> QED  BY <2>1, <2>2, SameSaver, ThreadsMove
<1>13. CASE Withdraw
  <2>1. /\ CapturedInto(composer' \cup paused', {}) /\ composer' = sending
        /\ paused' = paused \cup queued \cup composer
        /\ result' = result /\ ui = "withdrawing" /\ ui' = "loop" /\ worker' = worker
    BY <1>13 DEF Withdraw, Captures
  <2>2. SaverSame
    BY <1>1, <2>1, CaptureSaver
  <2> QED  BY <2>1, <2>2, ThreadsMove
<1>6. CASE Show
  <2>1. /\ CapturedInto(composer \cup paused, queued) /\ UNCHANGED <<result, ui, worker>>
    BY <1>6 DEF Show, Captures, threads
  <2>2. SaverSame
    BY <1>1, <2>1, CaptureSaver
  <2>3. ui' \notin {"loop", "capture"} => worker' = "idle"
    BY <2>1 DEF Threads
  <2> QED  BY <2>1, <2>2, <2>3, ThreadsMove
<1>7. CASE Finished
  <2>1. save' = save /\ result' = result /\ worker = "done" /\ worker' = "idle" /\ ui' = ui
    BY <1>7 DEF Finished, handle
  <2>2. save.by # "worker" /\ result["worker"] = "none"
    BY <2>1 DEF Threads
  <2> QED  BY <2>1, <2>2, SameSaver, ThreadsMove
<1>8. CASE Paused
  <2>1. /\ CapturedInto(composer' \cup paused', {}) /\ result' = result
        /\ worker = "done" /\ worker' = "idle" /\ ui' = ui
        /\ composer' \subseteq Prompt /\ paused' \subseteq Prompt
    BY <1>1, <1>8 DEF Paused, Captures
  <2>2. SaverSame
    BY <2>1, CaptureSaver
  <2>3. save.by # "worker" /\ result["worker"] = "none"
    BY <2>1 DEF Threads
  <2> QED  BY <2>1, <2>2, <2>3, ThreadsMove
<1>9. CASE Returned
  <2>1. /\ CapturedInto(composer' \cup paused', {}) /\ result' = result
        /\ worker = "done" /\ worker' = "idle" /\ ui = "loop" /\ ui' = "returned"
        /\ composer' \subseteq Prompt /\ paused' \subseteq Prompt
    BY <1>1, <1>9 DEF Returned, Captures, ReturnedPrompts
  <2>2. SaverSame
    BY <2>1, CaptureSaver
  <2>3. save.by # "worker" /\ result["worker"] = "none"
    BY <2>1 DEF Threads
  <2> QED  BY <2>1, <2>2, <2>3, ThreadsMove
<1>10. CASE ReturnCheckpoint
  <2>1. /\ Checkpoint("ui", "Preserve") /\ ui = "returned" /\ ui' = "returning" /\ worker' = worker
    BY <1>10 DEF ReturnCheckpoint
  <2>2. worker = "idle"
    BY <2>1 DEF Threads
  <2> QED  BY <2>1, <2>2, CheckpointThreads
<1>11. CASE ReturnSaved
  <2>1. PICK outcome \in {"ok", "error"} : TakesResult("ui", outcome)
    BY <1>11 DEF ReturnSaved
  <2>2. ui = "returning" /\ ui' = "loop" /\ worker' = worker /\ save' = save
    BY <1>11 DEF ReturnSaved
  <2>3. worker = "idle"
    BY <2>2 DEF Threads
  <2> QED  BY <2>1, <2>2, <2>3, SameSaver, ThreadsTold
<1> QED  BY <1>2, <1>3, <1>4, <1>5, <1>6, <1>7, <1>8, <1>9, <1>10, <1>11, <1>12, <1>13 DEF Interface

\* The worker waits for what it began.
LEMMA WorkerThreads ==
    ASSUME Typed, Threads, Worker
    PROVE  Threads'
<1>1. worker # "idle" => ui \in {"loop", "capture"}
  BY DEF Threads
<1>2. CASE Accept \/ Ask \/ Stop \/ Completion \/ KnowsCompletion
  <2>1. /\ save' = save /\ result' = result /\ ui' = ui
        /\ worker' = worker \/ worker \in {"asking", "sampling"}
        /\ worker # "idle"
    BY <1>2 DEF Accept, Ask, Stop, Completion, KnowsCompletion, handle, threads
  <2>2. worker \in {"asking", "sampling"} => save.by # "worker" /\ result["worker"] = "none"
    BY DEF Threads
  <2> QED  BY <1>1, <2>1, <2>2, SameSaver, ThreadsMove
<1>3. CASE AcceptCheckpoint
  <2>1. Checkpoint("worker", "Accept") /\ worker = "accepting" /\ UNCHANGED <<ui, worker>>
    BY <1>3 DEF AcceptCheckpoint, threads
  <2> QED  BY <2>1, CheckpointThreads
<1>4. CASE WorkerCheckpoint
  <2>1. Checkpoint("worker", "Preserve") /\ worker \in {"answering", "ending"} /\ UNCHANGED <<ui, worker>>
    BY <1>4 DEF WorkerCheckpoint, threads
  <2> QED  BY <2>1, CheckpointThreads
<1>5. CASE Accepted \/ NotAccepted \/ Answered \/ Ended
  <2>1. /\ \E outcome \in {"ok", "error"} : TakesResult("worker", outcome)
        /\ save' = save /\ ui' = ui /\ worker' \notin {"idle", "accepting"} /\ worker # "idle"
    BY <1>5 DEF Accepted, NotAccepted, Answered, Ended
  <2> QED  BY <1>1, <2>1, SameSaver, ThreadsTold
<1> QED  BY <1>2, <1>3, <1>4, <1>5 DEF Worker

\* Autosave, receipt and title take io only when it is free.
LEMMA OthersThreads ==
    ASSUME Typed, Threads, Flush \/ AppendReceipt \/ Title
    PROVE  Threads'
<1>1. CASE Flush
  <2>1. FlushIs
    BY <1>1, FlushEffect
  <2> QED  BY <2>1, ThreadsOther DEF FlushIs, SaveIs
<1>2. CASE AppendReceipt
  <2>1. AppendReceiptIs
    BY <1>2, AppendReceiptEffect
  <2>2. UNCHANGED <<ui, worker, result>> /\ save = NoSave
    BY <2>1 DEF AppendReceiptIs
  <2>3. CASE save' = save
    BY <2>2, <2>3 DEF Threads
  <2>4. ASSUME NEW at \in 0..Len(events), NoteIs(at)
        PROVE  Threads'
    BY <2>2, <2>4, ThreadsOther DEF NoteIs, SaveIs
  <2> QED  BY <2>1, <2>3, <2>4 DEF AppendReceiptIs
<1>3. CASE Title
  <2>1. TitleIs
    BY <1>3, TitleEffect
  <2> QED  BY <2>1, ThreadsOther DEF TitleIs, SaveIs
<1> QED  BY <1>1, <1>2, <1>3
-----------------------------------------------------------------------------
(* Each step keeps SaveSound.                                              *)

\* What touches neither documents nor the save keeps them in line.
LEMMA SaveFrame ==
    ASSUME SaveSound, UNCHANGED <<live, dirty, save, disk>>,
           save.by = "receipt" => UNCHANGED events
    PROVE  SaveSound'
<1>1. save.by = "receipt" => ReceiptSaved'
  BY DEF SaveSound, ReceiptSaved
<1> QED  BY <1>1 DEF SaveSound, DocBegins

\* Changing the input of the live document makes it dirty and a copy stale.
LEMMA SaveCapture ==
    ASSUME Typed, SaveSound, NEW draft, NEW queue, CaptureIs(draft, queue),
           save.by = "receipt" => UNCHANGED events
    PROVE  SaveSound'
<1>1. /\ live'.messages = live.messages /\ live'.events = live.events /\ disk' = disk
      /\ save'.by = save.by /\ save'.step = save.step /\ save'.copy = save.copy
      /\ save'.before = save.before /\ save'.displaced = save.displaced
      /\ \/ live' = live /\ save' = save /\ dirty' = dirty
         \/ dirty' = TRUE /\ (save'.stale <=> save.step = "write")
  BY DEF CaptureIs
<1>2. save.by = "receipt" => ReceiptSaved'
  BY <1>1 DEF SaveSound, ReceiptSaved
<1>3. save'.by # Nobody => dirty' /\ DocBegins(disk', save'.before) /\ DocBegins(save'.before, live')
  BY <1>1 DEF SaveSound, DocBegins
<1>4. /\ ~dirty' => disk' = live'
      /\ DocBegins(disk', live')
  BY <1>1 DEF SaveSound, DocBegins
<1>5. save'.step = "write" =>
           /\ save'.copy.messages = live'.messages /\ save'.copy.events = live'.events
           /\ ~save'.stale => save'.copy = live'
  BY <1>1 DEF SaveSound
<1>6. save'.step = "copy" => ~save'.stale
  BY <1>1 DEF SaveSound
<1> QED  BY <1>1, <1>2, <1>3, <1>4, <1>5, <1>6 DEF SaveSound, DocBegins

\* A save begins: what is live may have grown.
LEMMA SaveBegins ==
    ASSUME Typed, SaveSound, NEW by, NEW stage, NEW displaced,
           SaveIs(save', by, stage, "copy", Empty, live, FALSE, FALSE, displaced),
           dirty' = TRUE, disk' = disk, live' \in Document,
           Begins(live.messages, live'.messages), Begins(live.events, live'.events),
           by = "receipt" => ReceiptSaved'
    PROVE  SaveSound'
<1>1. /\ save'.by = by /\ save'.step = "copy" /\ save'.before = live /\ save'.stale = FALSE
  BY DEF SaveIs
<1>2. /\ disk.messages \in Seq(Message) /\ live.messages \in Seq(Message)
      /\ disk.events \in Seq(HistoryEvent) /\ live.events \in Seq(HistoryEvent)
  BY Lengths
<1>3. live'.messages \in Seq(Message) /\ live'.events \in Seq(HistoryEvent)
  BY DocFields
<1>4. DocBegins(disk, live)
  BY DEF SaveSound
<1>5. DocBegins(disk, live')
  BY <1>2, <1>3, <1>4, BeginsFurther DEF DocBegins
<1>6. DocBegins(live, live')
  BY DEF DocBegins
<1> QED  BY <1>1, <1>4, <1>5, <1>6 DEF SaveSound, DocBegins

\* A checkpoint extends the live document.
LEMMA SaveCheckpoint ==
    ASSUME Typed, SaveSound, NEW by \in {"ui", "worker"},
           NEW stage \in {"Preserve", "Begin", "Accept"}, Checkpoint(by, stage)
    PROVE  SaveSound'
<1>1. CheckpointRefused(by) \/ CheckpointTaken(by, stage)
  BY CheckpointEffect
<1>2. CASE CheckpointRefused(by)
  <2>1. save.by # "receipt"
    BY <1>2, NoSaveFields DEF CheckpointRefused, Nobody
  <2> QED  BY <1>2, <2>1, SaveFrame DEF CheckpointRefused
<1>3. CASE CheckpointTaken(by, stage)
  <2>1. /\ DocIs(live', Extended(live.messages, messages), Extended(live.events, events),
             IF stage = "Accept" THEN [draft |-> live.input.draft, queued |-> {}] ELSE live.input,
             returned)
        /\ dirty' = TRUE /\ disk' = disk
        /\ SaveIs(save', by, stage, "copy", Empty, live, FALSE, FALSE, 0)
    BY <1>3 DEF CheckpointTaken
  <2>2. /\ live.messages \in Seq(Message) /\ messages \in Seq(Message)
        /\ live.events \in Seq(HistoryEvent) /\ events \in Seq(HistoryEvent)
    BY Lengths
  <2>3. Begins(live.messages, Extended(live.messages, messages))
    BY <2>2, ExtendedProperties
  <2>4. Begins(live.events, Extended(live.events, events))
    BY <2>2, ExtendedProperties
  <2>5. /\ live' \in Document /\ Begins(live.messages, live'.messages)
        /\ Begins(live.events, live'.events)
    BY <2>1, <2>3, <2>4 DEF DocIs
  <2> QED  BY <2>1, <2>5, SaveBegins
<1> QED  BY <1>1, <1>2, <1>3

\* Each step of a save keeps disk, copy, before and live in line.
LEMMA SavingSound ==
    ASSUME Typed, Threads, SaveSound, Saving
    PROVE  SaveSound'
<1>1. /\ live.messages \in Seq(Message) /\ live.events \in Seq(HistoryEvent)
      /\ disk.messages \in Seq(Message) /\ disk.events \in Seq(HistoryEvent)
      /\ save.before.messages \in Seq(Message) /\ save.before.events \in Seq(HistoryEvent)
  BY Lengths
<1>2. NoSave.by = Nobody /\ NoSave.step = "copy" /\ ~NoSave.stale
  BY DEF NoSave
<1>3. CASE Copy
  <2>1. CopyIs
    BY <1>3, CopyEffect
  <2>2. /\ save'.by = save.by /\ save'.step = "write" /\ save'.copy = live
        /\ save'.before = save.before /\ save'.displaced = save.displaced
        /\ save.by # Nobody
        /\ UNCHANGED <<events, live, dirty, disk>>
    BY <2>1 DEF CopyIs, SaveIs, archive
  <2>3. save.by = "receipt" => ReceiptSaved'
    BY <2>2 DEF SaveSound, ReceiptSaved
  <2> QED  BY <2>2, <2>3 DEF SaveSound, DocBegins
<1>4. CASE WriteDocument
  <2>1. WriteIs
    BY <1>4, WriteEffect
  <2>2. /\ save' = NoSave /\ disk' = save.copy /\ dirty' = save.stale /\ live' = live
        /\ save.step = "write"
    BY <2>1 DEF WriteIs, ReturnIs
  <2>3. /\ save.copy.messages = live.messages /\ save.copy.events = live.events
        /\ ~save.stale => save.copy = live
    BY <2>2 DEF SaveSound
  <2>4. Begins(live.messages, live.messages) /\ Begins(live.events, live.events)
    BY <1>1, BeginsItself
  <2> QED  BY <1>2, <2>2, <2>3, <2>4 DEF SaveSound, DocBegins, Nobody
<1>5. CASE SaveFails
  <2>1. FailIs
    BY <1>5, FailEffect
  <2>2. save' = NoSave /\ dirty' = dirty /\ disk' = disk /\ save.by # Nobody
    BY <2>1 DEF FailIs, ReturnIs
  <2>3. dirty /\ DocBegins(disk, save.before) /\ DocBegins(disk, live)
    BY <2>2 DEF SaveSound
  <2>4. DocBegins(disk, live')
    <3>1. CASE Withdrawn
      BY <2>3, <3>1 DEF Withdrawn, DocIs, DocBegins
    <3>2. CASE Unnoted
      BY <2>3, <3>2 DEF Unnoted, DocIs, DocBegins
    <3>3. CASE live' = live
      BY <2>3, <3>3
    <3> QED  BY <2>1, <3>1, <3>2, <3>3 DEF FailIs
  <2>5. NoSave.by # "receipt"
    BY <1>2 DEF Nobody
  <2> QED  BY <1>2, <2>2, <2>3, <2>4, <2>5 DEF SaveSound, DocBegins
<1> QED  BY <1>3, <1>4, <1>5 DEF Saving

\* So do an autosave, a receipt and a title that begin.
LEMMA OthersSound ==
    ASSUME Typed, SaveSound, Flush \/ AppendReceipt \/ Title
    PROVE  SaveSound'
<1>1. /\ live \in Document /\ live.messages \in Seq(Message) /\ live.events \in Seq(HistoryEvent)
      /\ events \in Seq(HistoryEvent) /\ messages \in Seq(Message)
      /\ Len(live.events) \in Nat /\ Len(events) \in Nat
  BY Lengths
<1>2. Begins(live.messages, live.messages) /\ Begins(live.events, live.events)
  BY <1>1, BeginsItself
<1>3. CASE Flush
  <2>1. FlushIs
    BY <1>3, FlushEffect
  <2>2. SaveIs(save', "autosave", "Preserve", "copy", Empty, live, FALSE, FALSE, 0)
        /\ dirty' = TRUE /\ live' = live /\ disk' = disk
    BY <2>1, TypedParts DEF FlushIs, HandleFine
  <2>3. "autosave" = "receipt" => ReceiptSaved'
    OBVIOUS
  <2>4. live' \in Document /\ Begins(live.messages, live'.messages) /\ Begins(live.events, live'.events)
    BY <1>1, <1>2, <2>2
  <2> QED  BY <2>2, <2>3, <2>4, SaveBegins
<1>4. CASE AppendReceipt
  <2>1. AppendReceiptIs
    BY <1>4, AppendReceiptEffect
  <2>2. /\ disk' = disk /\ save = NoSave /\ Len(live.events) <= Len(events)
    BY <2>1 DEF AppendReceiptIs
  <2>3. CASE UNCHANGED <<events, live, dirty, save>>
    BY <2>2, <2>3, SaveFrame
  <2>4. ASSUME NEW at \in 0..Len(events), NoteIs(at)
        PROVE  SaveSound'
    <3>1. PICK event \in HistoryEvent : event = Receipt(Len(live.messages)) /\ event.kind = "receipt"
      <4>1. Len(live.messages) \in 0..MaxMessages
        BY Lengths, TypedParts DEF HandleFine
      <4> QED  BY <4>1, ReceiptIsEvent
    <3>2. /\ events' = Moved(events, at, Len(live.events) + 1, event)
          /\ DocIs(live', live.messages, Append(live.events, event), live.input, live.returned)
          /\ dirty' = TRUE
          /\ SaveIs(save', "receipt", "Preserve", "copy", Empty, live, FALSE, FALSE, at)
          /\ at = 0 \/ Len(live.events) < at
      BY <2>4, <3>1 DEF NoteIs
    <3>3. /\ Append(live.events, event) \in Seq(HistoryEvent)
          /\ Len(Append(live.events, event)) = Len(live.events) + 1
          /\ Append(live.events, event)[Len(live.events) + 1] = event
          /\ Begins(live.events, Append(live.events, event))
      BY <1>1, AppendedProperties
    <3>4. PICK pos \in 1..(Len(events) + 1) : pos = Len(live.events) + 1
      BY <1>1, <2>2
    <3>5. at = 0 \/ pos <= at
      BY <1>1, <3>2, <3>4
    <3>6. /\ Len(Moved(events, at, pos, event)) = IF at = 0 THEN Len(events) + 1 ELSE Len(events)
          /\ Moved(events, at, pos, event)[pos] = event
      BY <1>1, <3>5, MovedProperties
    <3>7. /\ live'.messages = live.messages /\ live'.events = Append(live.events, event)
          /\ live' \in Document
      BY <3>2 DEF DocIs
    <3>8. Len(live'.events) = pos /\ live'.events[pos] = event
      BY <3>3, <3>4, <3>7
    <3>9. Len(events') = (IF at = 0 THEN Len(events) + 1 ELSE Len(events)) /\ events'[pos] = event
      BY <3>2, <3>4, <3>6
    <3>10. pos <= Len(events') /\ (at = 0 \/ at \in pos..Len(events'))
      BY <1>1, <3>4, <3>5, <3>9
    <3>11. save'.before = live /\ save'.displaced = at
      BY <3>2 DEF SaveIs
    <3>12. ReceiptSaved'
      BY <3>1, <3>4, <3>8, <3>9, <3>10, <3>11 DEF ReceiptSaved
    <3>13. Begins(live.messages, live'.messages) /\ Begins(live.events, live'.events)
      BY <1>2, <3>3, <3>7
    <3> QED  BY <2>2, <3>2, <3>7, <3>12, <3>13, SaveBegins
  <2> QED  BY <2>1, <2>3, <2>4 DEF AppendReceiptIs
<1>5. CASE Title
  <2>1. TitleIs
    BY <1>5, TitleEffect
  <2>2. /\ dirty' = TRUE /\ disk' = disk
        /\ SaveIs(save', "namer", "Preserve", "copy", Empty, live, FALSE, FALSE, 0)
    BY <2>1 DEF TitleIs
  <2>3. live' \in Document /\ Begins(live.messages, live'.messages) /\ Begins(live.events, live'.events)
    <3>1. CASE /\ Begins(live.messages, messages) /\ Begins(live.events, events)
               /\ DocIs(live', messages, Append(events, TitleAt(Len(messages))), live.input,
                        live.returned)
      <4>1. PICK event \in HistoryEvent : event = TitleAt(Len(messages))
        <5>1. Len(messages) \in 0..MaxMessages
          BY Lengths, TypedParts DEF ArchiveFine
        <5> QED  BY <5>1 DEF TitleAt, HistoryEvent
      <4>2. Begins(live.events, Append(events, event))
        BY <1>1, <3>1, BothAppended
      <4> QED  BY <3>1, <4>1, <4>2 DEF DocIs
    <3>2. CASE DocIs(live', live.messages, Append(live.events, TitleAt(Len(live.messages))),
                     live.input, live.returned)
      <4>1. PICK event \in HistoryEvent : event = TitleAt(Len(live.messages))
        <5>1. Len(live.messages) \in 0..MaxMessages
          BY Lengths, TypedParts DEF HandleFine
        <5> QED  BY <5>1 DEF TitleAt, HistoryEvent
      <4>2. Begins(live.events, Append(live.events, event))
        BY <1>1, AppendedProperties
      <4> QED  BY <1>2, <3>2, <4>1, <4>2 DEF DocIs
    <3> QED  BY <2>1, <3>1, <3>2 DEF TitleIs
  <2>4. "namer" = "receipt" => ReceiptSaved'
    OBVIOUS
  <2> QED  BY <2>2, <2>3, <2>4, SaveBegins
<1> QED  BY <1>3, <1>4, <1>5

\* A step of the user, the interface or the worker changes the handle by a
\* capture or a checkpoint, or not at all.
LEMMA ActorSound ==
    ASSUME Typed, SaveSound, User \/ Interface \/ Worker
    PROVE  SaveSound'
<1>1. /\ composer \subseteq Prompt /\ paused \subseteq Prompt /\ queued \subseteq Prompt
      /\ sending \subseteq Prompt /\ submission \subseteq Prompt /\ unshown \subseteq Prompt
  BY InputSets
<1>2. ASSUME NEW p \in Prompt, Type(p)
      PROVE  SaveSound'
  <2>1. /\ CapturedInto(composer' \cup paused, queued) /\ composer' \subseteq Prompt
        /\ events' = events
    BY <1>1, <1>2 DEF Type, Captures, archive
  <2> QED  BY <1>1, <2>1, CaptureSaver, SaveCapture
<1>3. CASE CaptureInput \/ Show
  <2>1. CapturedInto(composer \cup paused, queued) /\ events' = events
    BY <1>3 DEF CaptureInput, Show, Captures, archive
  <2> QED  BY <1>1, <2>1, CaptureSaver, SaveCapture
<1>4. CASE Begun
  <2>1. CapturedInto(composer \cup paused, queued) /\ events' = events
    BY <1>4 DEF Begun, archive
  <2> QED  BY <1>1, <2>1, CaptureSaver, SaveCapture
<1>5. CASE Send
  <2>1. /\ CapturedInto(composer' \cup paused, queued') /\ save.by # "receipt"
        /\ composer' \subseteq Prompt /\ queued' \subseteq Prompt
    BY <1>1, <1>5 DEF Send, Captures, ArchiveLocked
  <2> QED  BY <1>1, <2>1, CaptureSaver, SaveCapture
<1>6. CASE Withdraw \/ Returned
  <2>1. /\ CapturedInto(composer' \cup paused', {}) /\ save.by # "receipt"
        /\ composer' \subseteq Prompt /\ paused' \subseteq Prompt
    BY <1>1, <1>6 DEF Withdraw, Returned, ReturnedPrompts, Captures, ArchiveLocked
  <2> QED  BY <2>1, CaptureSaver, SaveCapture
<1>7. CASE Paused
  <2>1. /\ CapturedInto(composer' \cup paused', {}) /\ events' = events
        /\ composer' \subseteq Prompt /\ paused' \subseteq Prompt
    BY <1>1, <1>7 DEF Paused, Captures, archive
  <2> QED  BY <2>1, CaptureSaver, SaveCapture
<1>8. CASE BeginCheckpoint \/ ReturnCheckpoint
  <2>1. Checkpoint("ui", "Begin") \/ Checkpoint("ui", "Preserve")
    BY <1>8 DEF BeginCheckpoint, ReturnCheckpoint
  <2> QED  BY <2>1, SaveCheckpoint
<1>9. CASE AcceptCheckpoint \/ WorkerCheckpoint
  <2>1. Checkpoint("worker", "Accept") \/ Checkpoint("worker", "Preserve")
    BY <1>9 DEF AcceptCheckpoint, WorkerCheckpoint
  <2> QED  BY <2>1, SaveCheckpoint
<1>10. CASE KnowsCompletion
  <2>1. UNCHANGED <<live, dirty, save, disk>> /\ save.by # "receipt"
    BY <1>10 DEF KnowsCompletion, ArchiveLocked, handle
  <2> QED  BY <2>1, SaveFrame
<1>11. CASE Queue \/ TakeBack \/ PushPrompt \/ NotBegun \/ Finished \/ ReturnSaved
  <2>1. UNCHANGED <<events, live, dirty, save, disk>>
    BY <1>11 DEF Queue, TakeBack, PushPrompt, NotBegun, Finished, ReturnSaved, handle, archive
  <2> QED  BY <2>1, SaveFrame
<1>12. CASE Accept \/ Accepted \/ NotAccepted \/ Ask \/ Stop \/ Completion \/ Answered \/ Ended
  <2>1. UNCHANGED <<events, live, dirty, save, disk>>
    BY <1>12 DEF Accept, Accepted, NotAccepted, Ask, Stop, Completion, Answered, Ended,
                 handle, archive
  <2> QED  BY <2>1, SaveFrame
<1> QED  BY <1>2, <1>3, <1>4, <1>5, <1>6, <1>7, <1>8, <1>9, <1>10, <1>11, <1>12
         DEF User, Interface, Worker
-----------------------------------------------------------------------------
(* Each step keeps ReceiptsFound.                                          *)

IsReceipt(e) == e.kind = "receipt"

Found(es, ls) ==
    \A i \in 1..Len(ls) : IsReceipt(ls[i]) => \E j \in 1..Len(es) : j <= i /\ IsReceipt(es[j])

\* ReceiptsFound, by its parts.
LEMMA ReceiptsAre ==
    ReceiptsFound <=> OneIn(events) /\ OneIn(live.events) /\ Found(events, live.events)
BY DEF ReceiptsFound, Found, IsReceipt

\* The same in the next state.
LEMMA NextReceiptsAre ==
    ReceiptsFound' <=> OneIn(events') /\ OneIn(live'.events) /\ Found(events', live'.events)
BY DEF ReceiptsFound, Found, IsReceipt, OneIn

\* OneIn, said of receipts.
LEMMA OneReceiptIn ==
    ASSUME NEW es
    PROVE  OneIn(es) <=> \A i, j \in 1..Len(es) : IsReceipt(es[i]) /\ IsReceipt(es[j]) => i = j
BY DEF OneIn, IsReceipt

\* A beginning has no more receipts.
LEMMA OneInBeginning ==
    ASSUME NEW ls \in Seq(HistoryEvent), NEW ks \in Seq(HistoryEvent), Begins(ks, ls),
           OneIn(ls), NEW es, Found(es, ls)
    PROVE  OneIn(ks) /\ Found(es, ks)
<1>1. Len(ks) \in Nat /\ Len(ls) \in Nat
  BY LenProperties
<1> QED  BY <1>1, OneReceiptIn DEF Begins, Found

\* A sequence's receipt is found in itself.
LEMMA FoundItself ==
    ASSUME NEW es \in Seq(HistoryEvent)
    PROVE  Found(es, es)
<1>1. Len(es) \in Nat
  BY LenProperties
<1> QED  BY <1>1 DEF Found

\* Another event than a receipt is appended.
LEMMA OtherAppended ==
    ASSUME NEW es \in Seq(HistoryEvent), NEW ls \in Seq(HistoryEvent), NEW e \in HistoryEvent,
           ~IsReceipt(e)
    PROVE  /\ OneIn(es) => OneIn(Append(es, e))
           /\ Found(es, ls) => Found(Append(es, e), ls) /\ Found(es, Append(ls, e))
<1>1. Len(es) \in Nat /\ Len(ls) \in Nat
  BY LenProperties
<1>2. /\ Len(Append(es, e)) = Len(es) + 1
      /\ \A i \in 1..Len(es) : Append(es, e)[i] = es[i]
      /\ Append(es, e)[Len(es) + 1] = e
  BY AppendedProperties
<1>3. /\ Len(Append(ls, e)) = Len(ls) + 1
      /\ \A i \in 1..Len(ls) : Append(ls, e)[i] = ls[i]
      /\ Append(ls, e)[Len(ls) + 1] = e
  BY AppendedProperties
<1>4. PICK m \in Seq(HistoryEvent) : m = Append(es, e)
  BY AppendedProperties
<1>5. PICK n \in Seq(HistoryEvent) : n = Append(ls, e)
  BY AppendedProperties
<1>6. /\ Len(m) = Len(es) + 1 /\ m[Len(es) + 1] = e
      /\ \A i \in 1..Len(es) : m[i] = es[i]
  BY <1>2, <1>4
<1>7. /\ Len(n) = Len(ls) + 1 /\ n[Len(ls) + 1] = e
      /\ \A i \in 1..Len(ls) : n[i] = ls[i]
  BY <1>3, <1>5
<1>8. OneIn(es) => OneIn(m)
  BY <1>1, <1>6, OneReceiptIn
<1>9. Found(es, ls) => Found(m, ls)
  BY <1>1, <1>6 DEF Found
<1>10. Found(es, ls) => Found(es, n)
  BY <1>1, <1>7 DEF Found
<1> QED  BY <1>4, <1>5, <1>8, <1>9, <1>10

\* The first receipt is noted.
LEMMA FirstNoted ==
    ASSUME NEW es \in Seq(HistoryEvent), NEW ls \in Seq(HistoryEvent), NEW e \in HistoryEvent,
           \A i \in 1..Len(es) : ~IsReceipt(es[i]), Found(es, ls)
    PROVE  OneIn(Append(es, e)) /\ Found(Append(es, e), ls)
<1>1. Len(es) \in Nat /\ Len(ls) \in Nat
  BY LenProperties
<1>2. /\ Len(Append(es, e)) = Len(es) + 1
      /\ \A i \in 1..Len(es) : Append(es, e)[i] = es[i]
  BY AppendedProperties
<1>3. PICK m \in Seq(HistoryEvent) : m = Append(es, e)
  BY AppendedProperties
<1>4. Len(m) = Len(es) + 1 /\ \A i \in 1..Len(es) : m[i] = es[i]
  BY <1>2, <1>3
<1>5. OneIn(m) /\ Found(m, ls)
  BY <1>1, <1>4, OneReceiptIn DEF Found
<1> QED  BY <1>3, <1>5

\* Another event than a receipt is taken out.
LEMMA OtherRemoved ==
    ASSUME NEW es \in Seq(HistoryEvent), NEW ls \in Seq(HistoryEvent), NEW k \in 1..Len(es),
           ~IsReceipt(es[k]), OneIn(es), Found(es, ls)
    PROVE  OneIn(RemoveAt(es, k)) /\ Found(RemoveAt(es, k), ls)
<1>1. Len(es) \in Nat /\ Len(ls) \in Nat
  BY LenProperties
<1>2. PICK m \in Seq(HistoryEvent) : m = RemoveAt(es, k)
  BY RemovedProperties
<1>3. /\ Len(m) = Len(es) - 1
      /\ \A i \in 1..(k - 1) : m[i] = es[i]
      /\ \A i \in k..(Len(es) - 1) : m[i] = es[i + 1]
  BY <1>2, RemovedProperties
<1>4. OneIn(m)
  <2>1. SUFFICES ASSUME NEW i \in 1..Len(m), NEW j \in 1..Len(m), IsReceipt(m[i]), IsReceipt(m[j])
                 PROVE  i = j
    BY OneReceiptIn
  <2>2. \A a, b \in 1..Len(es) : IsReceipt(es[a]) /\ IsReceipt(es[b]) => a = b
    BY OneReceiptIn
  <2>0. \A n \in 1..Len(m) : \E a \in 1..Len(es) :
            /\ (a = n /\ n < k) \/ (a = n + 1 /\ n >= k)
            /\ es[a] = m[n]
    <3> TAKE n \in 1..Len(m)
    <3>1. CASE n < k
      <4>1. n \in 1..(k - 1) /\ n \in 1..Len(es)
        BY <1>1, <1>3, <3>1
      <4> QED  BY <1>3, <3>1, <4>1
    <3>2. CASE n >= k
      <4>1. n \in k..(Len(es) - 1) /\ n + 1 \in 1..Len(es)
        BY <1>1, <1>3, <3>2
      <4> QED  BY <1>3, <3>2, <4>1
    <3> QED  BY <1>1, <1>3, <3>1, <3>2
  <2>3. PICK a \in 1..Len(es) : ((a = i /\ i < k) \/ (a = i + 1 /\ i >= k)) /\ es[a] = m[i]
    BY <2>0
  <2>4. PICK b \in 1..Len(es) : ((b = j /\ j < k) \/ (b = j + 1 /\ j >= k)) /\ es[b] = m[j]
    BY <2>0
  <2>5. a = b
    BY <2>1, <2>2, <2>3, <2>4
  <2> QED  BY <1>1, <1>3, <2>3, <2>4, <2>5
<1>5. Found(m, ls)
  <2>1. SUFFICES ASSUME NEW i \in 1..Len(ls), IsReceipt(ls[i])
                 PROVE  \E j \in 1..Len(m) : j <= i /\ IsReceipt(m[j])
    BY DEF Found
  <2>2. PICK j \in 1..Len(es) : j <= i /\ IsReceipt(es[j])
    BY <2>1 DEF Found
  <2>3. CASE j < k
    <3>1. j \in 1..Len(m) /\ j \in 1..(k - 1)
      BY <1>1, <1>3, <2>3
    <3> QED  BY <1>3, <2>2, <3>1
  <2>4. CASE j > k
    <3>1. j - 1 \in 1..Len(m) /\ j - 1 \in k..(Len(es) - 1) /\ (j - 1) + 1 = j /\ j - 1 <= i
      BY <1>1, <1>3, <2>2, <2>4
    <3> QED  BY <1>3, <2>2, <3>1
  <2>5. j # k
    BY <2>2
  <2> QED  BY <1>1, <2>3, <2>4, <2>5
<1> QED  BY <1>2, <1>4, <1>5

\* What is live takes what it lacks.
LEMMA TailFound ==
    ASSUME NEW es \in Seq(HistoryEvent), NEW ls \in Seq(HistoryEvent),
           OneIn(es), OneIn(ls), Found(es, ls)
    PROVE  OneIn(Extended(ls, es)) /\ Found(es, Extended(ls, es))
<1>1. Len(es) \in Nat /\ Len(ls) \in Nat
  BY LenProperties
<1>2. PICK m \in Seq(HistoryEvent) : m = Extended(ls, es)
  BY ExtendedProperties
<1>3. /\ Len(m) = IF Len(ls) <= Len(es) THEN Len(es) ELSE Len(ls)
      /\ \A i \in 1..Len(ls) : m[i] = ls[i]
      /\ \A i \in (Len(ls) + 1)..Len(es) : m[i] = es[i]
  BY <1>2, ExtendedProperties
<1>4. \A i \in 1..Len(m) : i \in 1..Len(ls) \/ (i \in 1..Len(es) /\ i \in (Len(ls) + 1)..Len(es))
  BY <1>1, <1>3
<1>5. \A a, b \in 1..Len(es) : IsReceipt(es[a]) /\ IsReceipt(es[b]) => a = b
  BY OneReceiptIn
<1>6. \A a, b \in 1..Len(ls) : IsReceipt(ls[a]) /\ IsReceipt(ls[b]) => a = b
  BY OneReceiptIn
<1>7. \A i \in 1..Len(ls), j \in (Len(ls) + 1)..Len(es) : ~(IsReceipt(ls[i]) /\ IsReceipt(es[j]))
  <2> SUFFICES ASSUME NEW i \in 1..Len(ls), NEW j \in (Len(ls) + 1)..Len(es),
                      IsReceipt(ls[i]), IsReceipt(es[j])
               PROVE  FALSE
    OBVIOUS
  <2>1. PICK a \in 1..Len(es) : a <= i /\ IsReceipt(es[a])
    BY DEF Found
  <2>2. j \in 1..Len(es)
    BY <1>1
  <2>3. a = j
    BY <1>5, <2>1, <2>2
  <2> QED  BY <1>1, <2>1, <2>3
<1>8. OneIn(m)
  <2>1. SUFFICES ASSUME NEW i \in 1..Len(m), NEW j \in 1..Len(m), IsReceipt(m[i]), IsReceipt(m[j])
                 PROVE  i = j
    BY OneReceiptIn
  <2>2. CASE i \in 1..Len(ls) /\ j \in 1..Len(ls)
    BY <1>3, <1>6, <2>1, <2>2
  <2>3. CASE i \in (Len(ls) + 1)..Len(es) /\ j \in (Len(ls) + 1)..Len(es)
    <3>1. i \in 1..Len(es) /\ j \in 1..Len(es)
      BY <1>1, <2>3
    <3> QED  BY <1>3, <1>5, <2>1, <2>3, <3>1
  <2>4. CASE i \in 1..Len(ls) /\ j \in (Len(ls) + 1)..Len(es)
    BY <1>3, <1>7, <2>1, <2>4
  <2>5. CASE j \in 1..Len(ls) /\ i \in (Len(ls) + 1)..Len(es)
    BY <1>3, <1>7, <2>1, <2>5
  <2> QED  BY <1>4, <2>2, <2>3, <2>4, <2>5
<1>9. Found(es, m)
  <2>1. SUFFICES ASSUME NEW i \in 1..Len(m), IsReceipt(m[i])
                 PROVE  \E j \in 1..Len(es) : j <= i /\ IsReceipt(es[j])
    BY DEF Found
  <2>2. CASE i \in 1..Len(ls)
    BY <1>3, <2>1, <2>2 DEF Found
  <2>3. CASE i \in 1..Len(es) /\ i \in (Len(ls) + 1)..Len(es)
    <3>1. i <= i
      BY <1>1, <2>3
    <3> QED  BY <1>3, <2>1, <2>3, <3>1
  <2> QED  BY <1>4, <2>2, <2>3
<1> QED  BY <1>2, <1>8, <1>9

\* A receipt is noted where it is saved: the archive and what is live have it there.
LEMMA MovedFound ==
    ASSUME NEW es \in Seq(HistoryEvent), NEW ls \in Seq(HistoryEvent), NEW e \in HistoryEvent,
           NEW at \in 0..Len(es), Len(ls) <= Len(es), IsReceipt(e),
           OneIn(es), Found(es, ls),
           \/ at = 0 /\ \A i \in 1..Len(es) : ~IsReceipt(es[i])
           \/ at \in 1..Len(es) /\ IsReceipt(es[at]) /\ Len(ls) < at
    PROVE  /\ OneIn(Moved(es, at, Len(ls) + 1, e)) /\ OneIn(Append(ls, e))
           /\ Found(Moved(es, at, Len(ls) + 1, e), Append(ls, e))
<1>1. Len(es) \in Nat /\ Len(ls) \in Nat
  BY LenProperties
<1>2. PICK pos \in 1..(Len(es) + 1) : pos = Len(ls) + 1
  BY <1>1
<1>3. at = 0 \/ pos <= at
  BY <1>1, <1>2
<1>4. PICK m \in Seq(HistoryEvent) : m = Moved(es, at, pos, e)
  BY <1>3, MovedProperties
<1>5. /\ Len(m) = IF at = 0 THEN Len(es) + 1 ELSE Len(es)
      /\ \A i \in 1..(pos - 1) : m[i] = es[i]
      /\ m[pos] = e
      /\ \A j \in (pos + 1)..Len(m) : \E i \in pos..Len(es) : i # at /\ m[j] = es[i]
  <2>1. /\ Len(Moved(es, at, pos, e)) = IF at = 0 THEN Len(es) + 1 ELSE Len(es)
        /\ Moved(es, at, pos, e)[pos] = e
    BY <1>3, MovedProperties
  <2>2. \A i \in 1..(pos - 1) : Moved(es, at, pos, e)[i] = es[i]
    BY <1>3, MovedProperties
  <2>3. \A j \in (pos + 1)..Len(Moved(es, at, pos, e)) :
              \E i \in pos..Len(es) : i # at /\ Moved(es, at, pos, e)[j] = es[i]
    BY <1>3, MovedProperties
  <2> QED  BY <1>4, <2>1, <2>2, <2>3
<1>6. \A i \in 1..Len(es) : IsReceipt(es[i]) => i = at
  BY OneReceiptIn
<1>7. pos \in 1..Len(m)
  BY <1>1, <1>2, <1>3, <1>5
<1>8. \A j \in 1..Len(m) : IsReceipt(m[j]) => j = pos
  <2> SUFFICES ASSUME NEW j \in 1..Len(m), IsReceipt(m[j]), j # pos
               PROVE  FALSE
    OBVIOUS
  <2>1. CASE j < pos
    <3>1. j \in 1..(pos - 1) /\ j \in 1..Len(es)
      BY <1>1, <1>2, <2>1
    <3>2. j = at
      BY <1>5, <1>6, <3>1
    <3> QED  BY <1>1, <1>2, <1>3, <2>1, <3>1, <3>2
  <2>2. CASE j > pos
    <3>1. j \in (pos + 1)..Len(m)
      BY <1>1, <1>2, <1>5, <2>2
    <3>2. PICK i \in pos..Len(es) : i # at /\ m[j] = es[i]
      BY <1>5, <3>1
    <3>3. i \in 1..Len(es)
      BY <1>1, <1>2
    <3> QED  BY <1>6, <3>2, <3>3
  <2> QED  BY <1>1, <1>2, <1>5, <2>1, <2>2
<1>9. OneIn(m)
  BY <1>8, OneReceiptIn
<1>10. PICK n \in Seq(HistoryEvent) : n = Append(ls, e)
  BY AppendedProperties
<1>11. Len(n) = Len(ls) + 1 /\ \A i \in 1..Len(ls) : n[i] = ls[i]
  BY <1>10, AppendedProperties
<1>12. \A i \in 1..Len(n) : IsReceipt(n[i]) => i = pos
  <2> SUFFICES ASSUME NEW i \in 1..Len(n), IsReceipt(n[i]), i # pos
               PROVE  FALSE
    OBVIOUS
  <2>1. i \in 1..Len(ls) /\ IsReceipt(ls[i])
    BY <1>1, <1>2, <1>11
  <2>2. PICK j \in 1..Len(es) : j <= i /\ IsReceipt(es[j])
    BY <2>1 DEF Found
  <2>3. j = at
    BY <1>6, <2>2
  <2> QED  BY <1>1, <1>2, <1>3, <2>1, <2>2, <2>3
<1>13. OneIn(n)
  BY <1>12, OneReceiptIn
<1>14. Found(m, n)
  <2>1. pos <= pos
    BY <1>2
  <2> QED  BY <1>5, <1>7, <1>12, <2>1 DEF Found
<1> QED  BY <1>2, <1>4, <1>9, <1>10, <1>13, <1>14

\* It could not be saved, and goes back to where it was.
LEMMA UnmovedFound ==
    ASSUME NEW es \in Seq(HistoryEvent), NEW ls \in Seq(HistoryEvent), NEW pos \in 1..Len(es),
           NEW at \in Nat, at = 0 \/ at \in pos..Len(es), Len(ls) = pos, IsReceipt(es[pos]),
           IsReceipt(ls[pos]), NEW ks \in Seq(HistoryEvent), Begins(ks, ls), Len(ks) = pos - 1,
           OneIn(es), OneIn(ls)
    PROVE  OneIn(Unmoved(es, pos, at)) /\ OneIn(ks) /\ Found(Unmoved(es, pos, at), ks)
<1>1. Len(es) \in Nat /\ Len(ls) \in Nat
  BY LenProperties
<1>2. PICK m \in Seq(HistoryEvent) : m = Unmoved(es, pos, at)
  BY UnmovedProperties
<1>3. /\ Len(m) = IF at = 0 THEN Len(es) - 1 ELSE Len(es)
      /\ \A i \in 1..(pos - 1) : m[i] = es[i]
      /\ \A j \in pos..Len(m) : j # at => \E i \in (pos + 1)..Len(es) : m[j] = es[i]
  BY <1>2, UnmovedProperties
<1>4. \A i \in 1..Len(es) : IsReceipt(es[i]) => i = pos
  BY OneReceiptIn
<1>5. \A j \in 1..Len(m) : IsReceipt(m[j]) => j = at
  <2> SUFFICES ASSUME NEW j \in 1..Len(m), IsReceipt(m[j]), j # at
               PROVE  FALSE
    OBVIOUS
  <2>1. CASE j < pos
    <3>1. j \in 1..(pos - 1) /\ j \in 1..Len(es) /\ j # pos
      BY <1>1, <2>1
    <3> QED  BY <1>3, <1>4, <3>1
  <2>2. CASE j >= pos
    <3>1. j \in pos..Len(m)
      BY <1>1, <1>3, <2>2
    <3>2. PICK i \in (pos + 1)..Len(es) : m[j] = es[i]
      BY <1>3, <3>1
    <3>3. i \in 1..Len(es) /\ i # pos
      BY <1>1
    <3> QED  BY <1>4, <3>2, <3>3
  <2> QED  BY <1>1, <1>3, <2>1, <2>2
<1>6. OneIn(m)
  BY <1>5, OneReceiptIn
<1>7. \A i \in 1..Len(ks) : ~IsReceipt(ks[i])
  <2> SUFFICES ASSUME NEW i \in 1..Len(ks), IsReceipt(ks[i])
               PROVE  FALSE
    OBVIOUS
  <2>1. i \in 1..Len(ls) /\ ks[i] = ls[i] /\ pos \in 1..Len(ls) /\ i # pos
    BY <1>1 DEF Begins
  <2> QED  BY <2>1, OneReceiptIn
<1>8. OneIn(ks) /\ Found(m, ks)
  BY <1>7, OneReceiptIn DEF Found
<1> QED  BY <1>2, <1>6, <1>8
\* Capturing input leaves the events alone.
LEMMA CaptureKeeps ==
    ASSUME Typed, NEW draft, NEW queue, draft \subseteq Prompt, queue \subseteq Prompt,
           CapturedInto(draft, queue)
    PROVE  live'.events = live.events
<1>1. CaptureIs(draft, queue)
  BY CaptureSaver
<1> QED  BY <1>1 DEF CaptureIs

\* Steps that leave the events alone.
LEMMA ReceiptsFrame ==
    ASSUME ReceiptsFound, live'.events = live.events, events' = events
    PROVE  ReceiptsFound'
BY ReceiptsAre, NextReceiptsAre

\* An event that is no receipt.
LEMMA ReceiptsAppend ==
    ASSUME Typed, ReceiptsFound, live'.events = live.events, NEW e, e \in HistoryEvent,
           e.kind # "receipt", events' = Append(events, e)
    PROVE  ReceiptsFound'
<1>1. PICK f \in HistoryEvent : f = e
  OBVIOUS
<1>2. events \in Seq(HistoryEvent) /\ live.events \in Seq(HistoryEvent) /\ ~IsReceipt(f)
  BY <1>1, Lengths DEF IsReceipt
<1>3. OneIn(Append(events, f)) /\ Found(Append(events, f), live.events)
  BY <1>2, OtherAppended, ReceiptsAre
<1> QED  BY <1>1, <1>3, ReceiptsAre, NextReceiptsAre

\* A checkpoint adds no receipt the archive has not.
LEMMA ReceiptsCheckpoint ==
    ASSUME Typed, ReceiptsFound, NEW by \in {"ui", "worker"},
           NEW stage \in {"Preserve", "Begin", "Accept"}, Checkpoint(by, stage), events' = events
    PROVE  ReceiptsFound'
<1>1. CheckpointRefused(by) \/ CheckpointTaken(by, stage)
  BY CheckpointEffect
<1>2. CASE CheckpointRefused(by)
  BY <1>2, ReceiptsFrame DEF CheckpointRefused
<1>3. CASE CheckpointTaken(by, stage)
  <2>1. live'.events = Extended(live.events, events)
    BY <1>3 DEF CheckpointTaken, DocIs
  <2>2. events \in Seq(HistoryEvent) /\ live.events \in Seq(HistoryEvent)
    BY Lengths
  <2>3. OneIn(Extended(live.events, events)) /\ Found(events, Extended(live.events, events))
    BY <2>2, TailFound, ReceiptsAre
  <2> QED  BY <2>1, <2>3, ReceiptsAre, NextReceiptsAre
<1> QED  BY <1>1, <1>2, <1>3

\* A save that fails takes its receipt out of both.
LEMMA SavingReceipts ==
    ASSUME Typed, Threads, SaveSound, ReceiptsFound, Saving
    PROVE  ReceiptsFound'
<1>1. /\ live.events \in Seq(HistoryEvent) /\ save.before.events \in Seq(HistoryEvent)
      /\ events \in Seq(HistoryEvent) /\ Len(events) \in Nat /\ Len(live.events) \in Nat
      /\ Len(save.before.events) \in Nat
  BY Lengths
<1>2. OneIn(events) /\ OneIn(live.events) /\ Found(events, live.events)
  BY ReceiptsAre
<1>3. CASE Copy
  BY <1>3, CopyEffect, ReceiptsFrame DEF CopyIs, archive
<1>4. CASE WriteDocument
  BY <1>4, WriteEffect, ReceiptsFrame DEF WriteIs, archive
<1>5. CASE SaveFails
  <2>1. FailIs
    BY <1>5, FailEffect
  <2>2. save.by # Nobody
    BY <2>1 DEF FailIs, ReturnIs
  <2>3. Begins(save.before.events, live.events)
    BY <2>2 DEF SaveSound, DocBegins
  <2>4. CASE Withdrawn
    <3>1. events' = events /\ live'.events = save.before.events
      BY <2>4 DEF Withdrawn, DocIs
    <3>2. OneIn(save.before.events) /\ Found(events, save.before.events)
      BY <1>1, <1>2, <2>3, OneInBeginning
    <3> QED  BY <1>2, <3>1, <3>2, NextReceiptsAre
  <2>5. CASE Unnoted
    <3>1. ReceiptSaved
      BY <2>5 DEF Unnoted, SaveSound
    <3>2. PICK pos \in 1..Len(events) : pos = Len(live.events) /\ pos = Len(save.before.events) + 1
      BY <1>1, <3>1 DEF ReceiptSaved
    <3>3. PICK at \in Nat : at = save.displaced
      BY SaveFields DEF Typed
    <3>4. /\ at = 0 \/ at \in pos..Len(events)
          /\ IsReceipt(events[pos]) /\ IsReceipt(live.events[pos])
      BY <3>1, <3>2, <3>3 DEF ReceiptSaved, IsReceipt
    <3>5. PICK ks \in Seq(HistoryEvent) : ks = save.before.events
      BY <1>1
    <3>6. PICK ls \in Seq(HistoryEvent) : ls = live.events
      BY <1>1
    <3>a. Begins(ks, ls) /\ OneIn(ls)
      BY <1>2, <2>3, <3>5, <3>6
    <3>b. Len(ks) = pos - 1 /\ Len(ls) = pos
      <4>1. Len(ls) = pos
        BY <3>2, <3>6
      <4>2. pos = Len(ks) + 1 /\ Len(ks) \in Nat
        BY <1>1, <3>2, <3>5
      <4> QED  BY <4>1, <4>2
    <3>c. IsReceipt(ls[pos]) /\ IsReceipt(events[pos]) /\ OneIn(events)
      BY <1>2, <3>4, <3>6
    <3>7. at = 0 \/ at \in pos..Len(events)
      BY <3>4
    <3>8. OneIn(Unmoved(events, pos, at)) /\ OneIn(ks) /\ Found(Unmoved(events, pos, at), ks)
      BY <1>1, <3>7, <3>a, <3>b, <3>c, UnmovedFound
    <3>9. events' = Unmoved(events, pos, at) /\ live'.events = ks
      BY <2>5, <3>2, <3>3, <3>5 DEF Unnoted, DocIs, WithoutReceipt, Unmoved
    <3> QED  BY <3>8, <3>9, NextReceiptsAre
  <2>6. CASE UNCHANGED <<live, last, events>>
    BY <2>6, ReceiptsFrame
  <2> QED  BY <2>1, <2>4, <2>5, <2>6 DEF FailIs
<1> QED  BY <1>3, <1>4, <1>5 DEF Saving

\* The receipt is noted once.
LEMMA OthersReceipts ==
    ASSUME Typed, ReceiptsFound, Flush \/ AppendReceipt \/ Title
    PROVE  ReceiptsFound'
<1>1. /\ live.events \in Seq(HistoryEvent) /\ events \in Seq(HistoryEvent)
      /\ Len(events) \in Nat /\ Len(live.events) \in Nat
  BY Lengths
<1>2. OneIn(events) /\ OneIn(live.events) /\ Found(events, live.events)
  BY ReceiptsAre
<1>3. CASE Flush
  BY <1>3, FlushEffect, ReceiptsFrame DEF FlushIs, archive
<1>4. CASE AppendReceipt
  <2>1. AppendReceiptIs
    BY <1>4, AppendReceiptEffect
  <2>2. Len(live.events) <= Len(events)
    BY <2>1 DEF AppendReceiptIs
  <2>3. CASE UNCHANGED <<events, live, dirty, save>>
    BY <2>3, ReceiptsFrame
  <2>4. ASSUME NEW at \in 0..Len(events), NoteIs(at)
        PROVE  ReceiptsFound'
    <3>1. PICK event \in HistoryEvent : event = Receipt(Len(live.messages)) /\ IsReceipt(event)
      <4>1. Len(live.messages) \in 0..MaxMessages
        BY Lengths, TypedParts DEF HandleFine
      <4> QED  BY <4>1, ReceiptIsEvent DEF IsReceipt
    <3>2. /\ events' = Moved(events, at, Len(live.events) + 1, event)
          /\ live'.events = Append(live.events, event)
      BY <2>4, <3>1 DEF NoteIs, DocIs
    <3>3. DOMAIN events = 1..Len(events)
      BY <1>1, LenProperties
    <3>4. \/ at = 0 /\ \A i \in 1..Len(events) : ~IsReceipt(events[i])
          \/ at \in 1..Len(events) /\ IsReceipt(events[at]) /\ Len(live.events) < at
      BY <2>4, <3>3 DEF NoteIs, Noted, IsReceipt
    <3>5. PICK ls \in Seq(HistoryEvent) : ls = live.events
      BY <1>1
    <3>6. Len(ls) <= Len(events) /\ Found(events, ls)
          /\ (at = 0 \/ Len(ls) < at)
      BY <1>1, <1>2, <2>2, <3>4, <3>5
    <3>7. \/ at = 0 /\ \A i \in 1..Len(events) : ~IsReceipt(events[i])
          \/ at \in 1..Len(events) /\ IsReceipt(events[at]) /\ Len(ls) < at
      BY <3>4, <3>5
    <3>8. /\ OneIn(Moved(events, at, Len(ls) + 1, event)) /\ OneIn(Append(ls, event))
          /\ Found(Moved(events, at, Len(ls) + 1, event), Append(ls, event))
      BY <1>1, <1>2, <3>1, <3>6, <3>7, MovedFound
    <3> QED  BY <3>2, <3>5, <3>8, NextReceiptsAre
  <2> QED  BY <2>1, <2>3, <2>4 DEF AppendReceiptIs
<1>5. CASE Title
  <2>1. TitleIs
    BY <1>5, TitleEffect
  <2>2. CASE /\ DocIs(live', messages, Append(events, TitleAt(Len(messages))), live.input,
                      live.returned)
             /\ events' = Append(events, TitleAt(Len(messages)))
    <3>1. PICK event \in HistoryEvent : event = TitleAt(Len(messages))
      <4>1. Len(messages) \in 0..MaxMessages
        BY Lengths, TypedParts DEF ArchiveFine
      <4> QED  BY <4>1 DEF TitleAt, HistoryEvent
    <3>n. ~IsReceipt(event)
      BY <3>1 DEF TitleAt, IsReceipt
    <3>2. OneIn(Append(events, event))
      BY <1>1, <1>2, <3>1, <3>n, OtherAppended
    <3>3. Append(events, event) \in Seq(HistoryEvent)
      BY <1>1, AppendedProperties
    <3>4. Found(Append(events, event), Append(events, event))
      BY <3>3, FoundItself
    <3> QED  BY <2>2, <3>1, <3>2, <3>4, NextReceiptsAre DEF DocIs
  <2>3. CASE /\ DocIs(live', live.messages, Append(live.events, TitleAt(Len(live.messages))),
                      live.input, live.returned)
             /\ events' = events
    <3>1. PICK event \in HistoryEvent : event = TitleAt(Len(live.messages))
      <4>1. Len(live.messages) \in 0..MaxMessages
        BY Lengths, TypedParts DEF HandleFine
      <4> QED  BY <4>1 DEF TitleAt, HistoryEvent
    <3>n. ~IsReceipt(event)
      BY <3>1 DEF TitleAt, IsReceipt
    <3>2. OneIn(Append(live.events, event)) /\ Found(events, Append(live.events, event))
      BY <1>1, <1>2, <3>1, <3>n, OtherAppended
    <3> QED  BY <1>2, <2>3, <3>1, <3>2, NextReceiptsAre DEF DocIs
  <2> QED  BY <2>1, <2>2, <2>3 DEF TitleIs
<1> QED  BY <1>3, <1>4, <1>5

\* The interface and the worker note no receipt.
LEMMA ActorReceipts ==
    ASSUME Typed, ReceiptsFound, User \/ Interface \/ Worker
    PROVE  ReceiptsFound'
<1>1. /\ composer \subseteq Prompt /\ paused \subseteq Prompt /\ queued \subseteq Prompt
      /\ sending \subseteq Prompt /\ submission \subseteq Prompt /\ unshown \subseteq Prompt
  BY InputSets
<1>2. Len(messages) \in 0..MaxMessages
  BY Lengths, TypedParts DEF ArchiveFine
<1>3. ASSUME NEW p \in Prompt, Type(p)
      PROVE  ReceiptsFound'
  <2>1. /\ CapturedInto(composer' \cup paused, queued) /\ composer' \subseteq Prompt
        /\ events' = events
    BY <1>1, <1>3 DEF Type, Captures, archive
  <2>2. live'.events = live.events
    BY <1>1, <2>1, CaptureKeeps
  <2> QED  BY <2>1, <2>2, ReceiptsFrame
<1>4. CASE CaptureInput \/ Show \/ Begun
  <2>1. CapturedInto(composer \cup paused, queued) /\ events' = events
    BY <1>4 DEF CaptureInput, Show, Begun, Captures, archive
  <2>2. live'.events = live.events
    BY <1>1, <2>1, CaptureKeeps
  <2> QED  BY <2>1, <2>2, ReceiptsFrame
<1>5. CASE Send
  <2>1. /\ CapturedInto(composer' \cup paused, queued')
        /\ composer' \subseteq Prompt /\ queued' \subseteq Prompt
        /\ events' = Append(events, [kind |-> "start", after |-> Len(messages)])
    BY <1>1, <1>5 DEF Send, Captures, Start
  <2>2. live'.events = live.events
    BY <1>1, <2>1, CaptureKeeps
  <2>3. PICK e \in HistoryEvent : e = [kind |-> "start", after |-> Len(messages)]
    BY <1>2 DEF HistoryEvent
  <2>4. e.kind # "receipt"
    BY <2>3
  <2> QED  BY <2>1, <2>2, <2>3, <2>4, ReceiptsAppend
<1>6. CASE Returned
  <2>1. /\ CapturedInto(composer' \cup paused', {})
        /\ composer' \subseteq Prompt /\ paused' \subseteq Prompt
        /\ events' = Append(events, [kind |-> "returned", after |-> Len(messages)])
    BY <1>1, <1>6 DEF Returned, ReturnedPrompts, Captures
  <2>2. live'.events = live.events
    BY <2>1, CaptureKeeps
  <2>3. PICK e \in HistoryEvent : e = [kind |-> "returned", after |-> Len(messages)]
    BY <1>2 DEF HistoryEvent
  <2>4. e.kind # "receipt"
    BY <2>3
  <2> QED  BY <2>1, <2>2, <2>3, <2>4, ReceiptsAppend
<1>7. CASE Withdraw
  <2>1. /\ CapturedInto(composer' \cup paused', {})
        /\ composer' \subseteq Prompt /\ paused' \subseteq Prompt
        /\ events' = WithoutStart
    BY <1>1, <1>7 DEF Withdraw, Captures
  <2>2. live'.events = live.events
    BY <2>1, CaptureKeeps
  <2>3. StartGone
    BY <2>1, WithoutStartEffect
  <2>4. CASE events' = events
    BY <2>2, <2>4, ReceiptsFrame
  <2>5. ASSUME NEW k \in 1..Len(events), events' = RemoveAt(events, k), events[k] = Start
        PROVE  ReceiptsFound'
    <3>1. ~IsReceipt(events[k])
      BY <2>5 DEF Start, IsReceipt
    <3>2. events \in Seq(HistoryEvent) /\ live.events \in Seq(HistoryEvent)
      BY Lengths
    <3>3. OneIn(events) /\ OneIn(live.events) /\ Found(events, live.events)
      BY ReceiptsAre
    <3>4. OneIn(RemoveAt(events, k)) /\ Found(RemoveAt(events, k), live.events)
      BY <3>1, <3>2, <3>3, OtherRemoved
    <3> QED  BY <2>2, <2>5, <3>3, <3>4, NextReceiptsAre
  <2> QED  BY <2>3, <2>4, <2>5 DEF StartGone
<1>8. CASE Paused
  <2>1. /\ CapturedInto(composer' \cup paused', {}) /\ events' = events
        /\ composer' \subseteq Prompt /\ paused' \subseteq Prompt
    BY <1>1, <1>8 DEF Paused, Captures, archive
  <2>2. live'.events = live.events
    BY <2>1, CaptureKeeps
  <2> QED  BY <2>1, <2>2, ReceiptsFrame
<1>9. CASE BeginCheckpoint \/ ReturnCheckpoint
  <2>1. (Checkpoint("ui", "Begin") \/ Checkpoint("ui", "Preserve")) /\ events' = events
    BY <1>9 DEF BeginCheckpoint, ReturnCheckpoint, archive
  <2> QED  BY <2>1, ReceiptsCheckpoint
<1>10. CASE AcceptCheckpoint \/ WorkerCheckpoint
  <2>1. (Checkpoint("worker", "Accept") \/ Checkpoint("worker", "Preserve")) /\ events' = events
    BY <1>10 DEF AcceptCheckpoint, WorkerCheckpoint, archive
  <2> QED  BY <2>1, ReceiptsCheckpoint
<1>11. CASE KnowsCompletion
  <2>1. live' = live /\ Noted = {} /\ events' = Append(events, Receipt(Len(messages)))
    BY <1>11 DEF KnowsCompletion, handle
  <2>2. events \in Seq(HistoryEvent) /\ live.events \in Seq(HistoryEvent)
    BY Lengths
  <2>3. \A i \in 1..Len(events) : ~IsReceipt(events[i])
    BY <2>1, <2>2, LenProperties DEF Noted, IsReceipt
  <2>4. PICK e \in HistoryEvent : e = Receipt(Len(messages))
    BY <1>2, ReceiptIsEvent
  <2>5. OneIn(events) /\ OneIn(live.events) /\ Found(events, live.events)
    BY ReceiptsAre
  <2>6. OneIn(Append(events, e)) /\ Found(Append(events, e), live.events)
    BY <2>2, <2>3, <2>5, FirstNoted
  <2> QED  BY <2>1, <2>4, <2>5, <2>6, NextReceiptsAre
<1>12. CASE Queue \/ TakeBack \/ PushPrompt \/ NotBegun \/ Finished \/ ReturnSaved
  <2>1. live' = live /\ events' = events
    BY <1>12 DEF Queue, TakeBack, PushPrompt, NotBegun, Finished, ReturnSaved, handle, archive
  <2> QED  BY <2>1, ReceiptsFrame
<1>13. CASE Accept \/ Accepted \/ NotAccepted \/ Ask \/ Stop \/ Completion \/ Answered \/ Ended
  <2>1. live' = live /\ events' = events
    BY <1>13 DEF Accept, Accepted, NotAccepted, Ask, Stop, Completion, Answered, Ended,
                 handle, archive
  <2> QED  BY <2>1, ReceiptsFrame
<1> QED  BY <1>3, <1>4, <1>5, <1>6, <1>7, <1>8, <1>9, <1>10, <1>11, <1>12, <1>13
         DEF User, Interface, Worker
-----------------------------------------------------------------------------
(* Each step keeps TurnSound.                                              *)

\* The same messages hold the same prompts.
LEMMA JoinedSame ==
    ASSUME NEW ms, NEW ks, NEW n \in Nat, NEW m \in Nat,
           \A i \in (n + 1)..m : ms[i] = ks[i]
    PROVE  Joined(ms, n, m) = Joined(ks, n, m)
BY DEF Joined

\* The prompts of one message.
LEMMA JoinedOne ==
    ASSUME NEW ms, NEW n \in Nat
    PROVE  Joined(ms, n, n + 1) = ms[n + 1]
<1>1. \A i \in (n + 1)..(n + 1) : i = n + 1
  OBVIOUS
<1>2. n + 1 \in (n + 1)..(n + 1)
  OBVIOUS
<1> QED  BY <1>1, <1>2 DEF Joined

\* The prompts of one message more.
LEMMA JoinedMore ==
    ASSUME NEW ms, NEW n \in Nat, NEW m \in Nat, n <= m
    PROVE  Joined(ms, n, m + 1) = Joined(ms, n, m) \cup ms[m + 1]
<1>1. \A i \in (n + 1)..(m + 1) : i \in (n + 1)..m \/ i = m + 1
  OBVIOUS
<1>2. m + 1 \in (n + 1)..(m + 1) /\ \A i \in (n + 1)..m : i \in (n + 1)..(m + 1)
  OBVIOUS
<1> QED  BY <1>1, <1>2 DEF Joined

\* What holds of the turn's lengths.
LEMMA TurnLengths ==
    ASSUME Typed, TurnSound
    PROVE  /\ Len(messages) \in Nat /\ from \in Nat /\ messages \in Seq(Message)
           /\ worker # "accepting" => Settled = Len(messages)
           /\ worker = "accepting" => Settled = Len(messages) - 1 /\ Len(messages) \in Nat \ {0}
           /\ Settled \in Nat /\ Settled <= Len(messages)
           /\ worker # "idle" => from < Settled
<1>1. Len(messages) \in Nat /\ messages \in Seq(Message) /\ from \in Nat
  BY Lengths, TypedParts DEF InputsFine
<1>2. worker # "idle" => from < Settled
  BY DEF TurnSound
<1>3. worker = "accepting" => Settled = Len(messages) - 1 /\ Len(messages) \in Nat \ {0}
  BY <1>1, <1>2 DEF Settled
<1>4. worker # "accepting" => Settled = Len(messages)
  BY DEF Settled
<1> QED  BY <1>1, <1>2, <1>3, <1>4

\* The conversation and the turn's prompts stay, and so does the thread's place in the turn.
TurnSame ==
    /\ UNCHANGED <<messages, returned, from, sending>>
    /\ ui' \in {"begin", "beginning"} <=> ui \in {"begin", "beginning"}
    /\ ui' = ui \/ {ui, ui'} \cap {"starting", "withdrawing"} = {}
    /\ submission' \cup unshown' = submission \cup unshown
    /\ \/ worker' = worker
       \/ {worker, worker'} \cap {"idle", "accepting"} = {}
    /\ worker = "accepting" => queued' = queued /\ (recorded => recorded')

\* Steps that leave the turn alone.
LEMMA TurnFrame ==
    ASSUME TurnSound, TurnSame
    PROVE  TurnSound'
<1>1. Settled' = Settled
  BY DEF Settled, TurnSame
<1>2. /\ Beginning' <=> Beginning
      /\ Turning' <=> Turning
      /\ OnItsWay' <=> OnItsWay
      /\ ui' = "starting" => ui = "starting"
  BY DEF Beginning, Turning, OnItsWay, TurnSame
<1>3. (worker' = "idle" <=> worker = "idle") /\ (worker' = "accepting" <=> worker = "accepting")
  BY DEF TurnSame
<1>4. worker' = "idle" => submission' = {} /\ unshown' = {}
  BY <1>3 DEF TurnSound, TurnSame
<1>5. worker' # "idle" => submission' \cup unshown' = Joined(messages', from', Settled')
  BY <1>1, <1>3 DEF TurnSound, TurnSame
<1>6. worker' = "accepting" => messages'[Len(messages')] = queued' /\ recorded'
  BY <1>3 DEF TurnSound, TurnSame
<1>7. /\ Beginning' => Len(messages') = from' + 1 /\ messages'[from' + 1] = sending'
      /\ OnItsWay' => Len(messages') = from'
      /\ ui' = "starting" => from' < MaxMessages
      /\ ~Turning' => sending' = {}
      /\ returned' \subseteq 1..Len(messages')
      /\ worker' # "idle" \/ Beginning' => returned' \subseteq 1..from' /\ from' < Settled'
  BY <1>1, <1>2, <1>3 DEF TurnSound, TurnSame
<1> QED  BY <1>4, <1>5, <1>6, <1>7 DEF TurnSound

\* A save moves no prompt.
LEMMA SavingTurn ==
    ASSUME Typed, Threads, SaveSound, TurnSound, Saving
    PROVE  TurnSound'
<1>1. CASE Copy
  BY <1>1, TurnFrame DEF Copy, TurnSame, inputs, threads, archive
<1>2. CASE WriteDocument
  BY <1>2, TurnFrame DEF WriteDocument, Returns, TurnSame, inputs, archive
<1>3. CASE SaveFails
  BY <1>3, TurnFrame DEF SaveFails, Returns, TurnSame, inputs
<1> QED  BY <1>1, <1>2, <1>3 DEF Saving

\* Autosave, receipt and title move no prompt.
LEMMA OthersTurn ==
    ASSUME TurnSound, Flush \/ AppendReceipt \/ Title
    PROVE  TurnSound'
BY TurnFrame DEF Flush, AppendReceipt, Title, TurnSame, inputs, archive

\* The user's prompts reach a turn by Send and Queue.
LEMMA UserTurn ==
    ASSUME Typed, Threads, TurnSound, User
    PROVE  TurnSound'
<1>1. ASSUME NEW p \in Prompt, Type(p)
      PROVE  TurnSound'
  BY <1>1, TurnFrame DEF Type, Captures, CapturedInto, TurnSame, threads, archive
<1>2. CASE Queue \/ TakeBack
  BY <1>2, TurnFrame DEF Queue, TakeBack, TurnSame, archive, InboxLocked
<1>3. CASE Send
  <2>1. /\ ui = "loop" /\ worker = "idle" /\ from' = Len(messages) /\ Len(messages) < MaxMessages
        /\ ui' = "starting" /\ UNCHANGED <<unshown, submission, worker, messages, returned>>
    BY <1>3 DEF Send
  <2>2. returned' \subseteq 1..Len(messages)
    BY <2>1 DEF TurnSound
  <2>3. submission' = {} /\ unshown' = {}
    BY <2>1 DEF TurnSound
  <2> QED  BY <2>1, <2>2, <2>3 DEF TurnSound, Beginning, Turning, OnItsWay
<1> QED  BY <1>1, <1>2, <1>3 DEF User

\* The interface shows, begins, pauses and returns what the turn holds.
LEMMA InterfaceTurn ==
    ASSUME Typed, Threads, TurnSound, Interface
    PROVE  TurnSound'
<1>0. /\ Len(messages) \in Nat /\ from \in Nat /\ messages \in Seq(Message)
      /\ worker # "accepting" => Settled = Len(messages)
      /\ Settled \in Nat
  BY TurnLengths
<1>1. CASE CaptureInput
  BY <1>1, TurnFrame DEF CaptureInput, Captures, CapturedInto, TurnSame, archive
<1>2. CASE BeginCheckpoint \/ ReturnCheckpoint
  BY <1>2, TurnFrame DEF BeginCheckpoint, ReturnCheckpoint, TurnSame, inputs, archive
<1>3. CASE Begun
  <2>1. /\ ui = "beginning" /\ submission' = sending /\ sending' = {} /\ worker' = "asking"
        /\ ui' = "loop" /\ UNCHANGED <<unshown, from, messages, returned>>
    BY <1>3 DEF Begun, archive
  <2>2. worker = "idle"
    BY <2>1 DEF Threads
  <2>3. /\ Len(messages) = from + 1 /\ messages[from + 1] = sending /\ unshown = {}
        /\ returned \subseteq 1..from
    BY <2>1, <2>2 DEF TurnSound, Beginning
  <2>4. Settled' = from + 1
    BY <2>1, <2>3 DEF Settled
  <2>5. Joined(messages, from, from + 1) = sending
    BY <1>0, <2>3, JoinedOne
  <2>6. ~Beginning' /\ ~OnItsWay' /\ ui' # "starting"
    BY <2>1 DEF Beginning, OnItsWay
  <2>7. returned' \subseteq 1..Len(messages')
    BY <2>1 DEF TurnSound
  <2> QED  BY <1>0, <2>1, <2>3, <2>4, <2>5, <2>6, <2>7 DEF TurnSound
<1>4. CASE NotBegun
  <2>1. /\ ui = "beginning" /\ messages' = SubSeq(messages, 1, from)
        /\ ui' = "withdrawing" /\ UNCHANGED <<unshown, submission, from, worker, returned>>
    BY <1>4 DEF NotBegun, inputs
  <2>2. worker = "idle"
    BY <2>1 DEF Threads
  <2>3. Len(messages) = from + 1 /\ returned \subseteq 1..from /\ unshown = {} /\ submission = {}
    BY <2>1, <2>2 DEF TurnSound, Beginning
  <2>4. from \in 0..Len(messages)
    BY <1>0, <2>3
  <2>5. Len(messages') = from
    BY <1>0, <2>1, <2>4, CutProperties
  <2>6. ~Beginning' /\ Turning' /\ ui' # "starting"
    BY <2>1 DEF Beginning, Turning
  <2> QED  BY <2>1, <2>2, <2>3, <2>5, <2>6 DEF TurnSound
<1>8. CASE PushPrompt
  <2>1. /\ ui = "starting" /\ messages' = Append(messages, sending) /\ ui' = "begin"
        /\ UNCHANGED <<unshown, submission, sending, from, worker, returned>>
    BY <1>8 DEF PushPrompt, inputs
  <2>2. worker = "idle"
    BY <2>1 DEF Threads
  <2>3. PICK m \in Message : m = sending
    BY InputSets DEF Message
  <2>4. Len(messages') = Len(messages) + 1 /\ messages'[Len(messages) + 1] = m
    BY <1>0, <2>1, <2>3, AppendedProperties
  <2>5. Len(messages) = from
    BY <2>1 DEF TurnSound, OnItsWay
  <2>6. Settled' = from + 1
    BY <2>1, <2>2, <2>4, <2>5 DEF Settled
  <2>7. /\ returned \subseteq 1..from /\ unshown = {} /\ submission = {}
    BY <2>2, <2>5 DEF TurnSound
  <2>8. Turning' /\ ~OnItsWay'
    BY <2>1 DEF Turning, OnItsWay
  <2>9. returned' \subseteq 1..Len(messages') /\ from' < Settled'
    BY <1>0, <2>1, <2>4, <2>5, <2>6, <2>7
  <2> QED  BY <2>1, <2>2, <2>3, <2>4, <2>5, <2>7, <2>8, <2>9 DEF TurnSound
<1>9. CASE Withdraw
  <2>1. /\ ui = "withdrawing" /\ ui' = "loop" /\ sending' = {}
        /\ UNCHANGED <<unshown, submission, from, worker, messages, returned>>
    BY <1>9 DEF Withdraw
  <2>2. worker = "idle"
    BY <2>1 DEF Threads
  <2>3. ~Beginning' /\ ~OnItsWay' /\ ui' # "starting"
    BY <2>1 DEF Beginning, OnItsWay
  <2> QED  BY <2>1, <2>2, <2>3 DEF TurnSound
<1>5. CASE Show
  <2>1. submission' \cup unshown' = submission \cup unshown
    BY <1>5 DEF Show
  <2> QED  BY <1>5, <2>1, TurnFrame DEF Show, Captures, CapturedInto, TurnSame, threads, archive
<1>6. CASE Finished \/ Paused \/ Returned
  <2>1. /\ ui = "loop" /\ worker = "done" /\ worker' = "idle" /\ submission' = {} /\ unshown' = {}
        /\ ui' \in {"loop", "returned"} /\ messages' = messages /\ sending' = sending
        /\ returned' = returned \/ returned' = returned \cup ((from + 1)..Len(messages))
    BY <1>6 DEF Finished, Paused, Returned, archive
  <2>2. returned' \subseteq 1..Len(messages')
    <3>1. returned \subseteq 1..Len(messages)
      BY DEF TurnSound
    <3>2. (from + 1)..Len(messages) \subseteq 1..Len(messages)
      BY <1>0
    <3> QED  BY <2>1, <3>1, <3>2
  <2>3. /\ ~Beginning /\ ~Turning
        /\ ~Beginning' /\ ~OnItsWay' /\ ui' # "starting"
    BY <2>1 DEF Beginning, Turning, OnItsWay
  <2> QED  BY <2>1, <2>2, <2>3 DEF TurnSound
<1>7. CASE ReturnSaved
  BY <1>7, TurnFrame DEF ReturnSaved, TurnSame, inputs, archive
<1> QED  BY <1>1, <1>2, <1>3, <1>4, <1>5, <1>6, <1>7, <1>8, <1>9 DEF Interface

\* The worker accepts, answers and ends with what the turn holds.
LEMMA WorkerTurn ==
    ASSUME Typed, Threads, TurnSound, Worker
    PROVE  TurnSound'
<1>0. /\ Len(messages) \in Nat /\ from \in Nat /\ messages \in Seq(Message)
      /\ worker # "accepting" => Settled = Len(messages)
      /\ worker = "accepting" => Settled = Len(messages) - 1 /\ Len(messages) \in Nat \ {0}
      /\ Settled \in Nat
      /\ worker # "idle" => from < Settled
  BY TurnLengths
<1>a. worker # "idle" => ui \in {"loop", "capture"} /\ sending = {} /\ returned \subseteq 1..from
      /\ submission \cup unshown = Joined(messages, from, Settled)
  BY DEF TurnSound, Threads, Turning
<1>1. CASE Accept
  <2>1. /\ worker = "asking" /\ Deliverable # {} /\ messages' = Append(messages, Deliverable)
        /\ worker' = "accepting"
        /\ UNCHANGED <<queued, recorded, unshown, sending, submission, from, ui, returned>>
    BY <1>1 DEF Accept, inputs
  <2>2. recorded /\ Deliverable = queued
    BY <2>1 DEF Deliverable
  <2>3. PICK m \in Message : m = queued
    BY InputSets DEF Message
  <2>4. /\ Len(messages') = Len(messages) + 1 /\ messages'[Len(messages) + 1] = m
        /\ \A i \in 1..Len(messages) : messages'[i] = messages[i]
    BY <1>0, <2>1, <2>2, <2>3, AppendedProperties
  <2>5. Settled' = Settled
    BY <1>0, <2>1, <2>4 DEF Settled
  <2>6. \A i \in (from + 1)..Settled : messages'[i] = messages[i]
    BY <1>0, <2>1, <2>4
  <2>7. Joined(messages', from, Settled) = Joined(messages, from, Settled)
    <3>1. PICK ks : ks = messages'
      OBVIOUS
    <3>2. \A i \in (from + 1)..Settled : ks[i] = messages[i]
      BY <2>6, <3>1
    <3>3. Joined(ks, from, Settled) = Joined(messages, from, Settled)
      BY <1>0, <3>2, JoinedSame
    <3> QED  BY <3>1, <3>3
  <2>8. ~Beginning' /\ ~OnItsWay' /\ ui' # "starting"
    BY <1>a, <2>1 DEF Beginning, OnItsWay
  <2>9. messages'[Len(messages')] = queued' /\ recorded'
    BY <2>1, <2>2, <2>3, <2>4
  <2>10. returned' \subseteq 1..Len(messages')
    BY <1>0, <1>a, <2>1, <2>4
  <2> QED  BY <1>0, <1>a, <2>1, <2>5, <2>7, <2>8, <2>9, <2>10 DEF TurnSound
<1>2. CASE AcceptCheckpoint \/ WorkerCheckpoint \/ KnowsCompletion
  BY <1>2, TurnFrame DEF AcceptCheckpoint, WorkerCheckpoint, KnowsCompletion, TurnSame, inputs,
                         archive, threads
<1>3. CASE Accepted
  <2>1. /\ worker = "accepting" /\ queued' = {} /\ unshown' = unshown \cup queued
        /\ worker' = "sampling"
        /\ UNCHANGED <<sending, submission, from, ui, messages, returned>>
    BY <1>3 DEF Accepted, archive
  <2>2. messages[Len(messages)] = queued
    BY <2>1 DEF TurnSound
  <2>3. PICK n \in Nat : n = Settled
    BY <1>0
  <2>4. Settled' = n + 1 /\ Len(messages) = n + 1 /\ from <= n
    BY <1>0, <2>1, <2>3 DEF Settled
  <2>5. Joined(messages, from, n + 1) = Joined(messages, from, n) \cup messages[n + 1]
    BY <1>0, <2>4, JoinedMore
  <2>6. submission' \cup unshown' = Joined(messages, from, n + 1)
    BY <1>a, <2>1, <2>2, <2>3, <2>4, <2>5
  <2>7. ~Beginning' /\ ~OnItsWay' /\ ui' # "starting"
    BY <1>a, <2>1 DEF Beginning, OnItsWay
  <2>8. returned' \subseteq 1..Len(messages')
    BY <2>1 DEF TurnSound
  <2> QED  BY <1>0, <1>a, <2>1, <2>4, <2>6, <2>7, <2>8 DEF TurnSound
<1>4. CASE NotAccepted
  <2>1. /\ worker = "accepting" /\ messages' = SubSeq(messages, 1, Len(messages) - 1)
        /\ worker' = "ending"
        /\ UNCHANGED <<unshown, sending, submission, from, ui, returned>>
    BY <1>4 DEF NotAccepted, inputs
  <2>2. PICK n \in 0..Len(messages) : n = Settled /\ n = Len(messages) - 1
    BY <1>0, <2>1
  <2>3. Len(messages') = n /\ \A i \in 1..n : messages'[i] = messages[i]
    BY <1>0, <2>1, <2>2, CutProperties
  <2>4. Settled' = Settled
    BY <2>1, <2>2, <2>3 DEF Settled
  <2>5. \A i \in (from + 1)..Settled : messages'[i] = messages[i]
    BY <1>0, <2>2, <2>3
  <2>6. Joined(messages', from, Settled) = Joined(messages, from, Settled)
    <3>1. PICK ks : ks = messages'
      OBVIOUS
    <3>2. \A i \in (from + 1)..Settled : ks[i] = messages[i]
      BY <2>5, <3>1
    <3>3. Joined(ks, from, Settled) = Joined(messages, from, Settled)
      BY <1>0, <3>2, JoinedSame
    <3> QED  BY <3>1, <3>3
  <2>7. ~Beginning' /\ ~OnItsWay' /\ ui' # "starting"
    BY <1>a, <2>1 DEF Beginning, OnItsWay
  <2>8. returned' \subseteq 1..Len(messages')
    BY <1>0, <1>a, <2>1, <2>2, <2>3
  <2> QED  BY <1>0, <1>a, <2>1, <2>4, <2>6, <2>7, <2>8 DEF TurnSound
<1>5. CASE Ask \/ Stop \/ Answered \/ Ended
  BY <1>5, TurnFrame DEF Ask, Stop, Answered, Ended, TurnSame, inputs, archive
<1>6. CASE Completion
  <2>1. /\ worker = "sampling" /\ messages' = Append(messages, NoPrompts) /\ worker' = "answering"
        /\ UNCHANGED <<unshown, sending, submission, from, ui, returned>>
    BY <1>6 DEF Completion, inputs
  <2>2. PICK m \in Message : m = NoPrompts
    BY DEF Message, NoPrompts
  <2>3. PICK n \in Nat : n = Len(messages)
    BY <1>0
  <2>4. /\ Len(messages') = n + 1 /\ messages'[n + 1] = m
        /\ \A i \in 1..n : messages'[i] = messages[i]
    BY <1>0, <2>1, <2>2, <2>3, AppendedProperties
  <2>5. Settled' = n + 1 /\ Settled = n /\ from < n
    BY <1>0, <2>1, <2>3, <2>4 DEF Settled
  <2>6. PICK ks : ks = messages'
    OBVIOUS
  <2>a. from \in Nat /\ from <= n
    BY <1>0, <2>5
  <2>7. Joined(ks, from, n + 1) = Joined(ks, from, n) \cup ks[n + 1]
    BY <2>a, JoinedMore
  <2>8. \A i \in (from + 1)..n : ks[i] = messages[i]
    BY <1>0, <2>4, <2>6
  <2>9. Joined(ks, from, n) = Joined(messages, from, n)
    BY <1>0, <2>8, JoinedSame
  <2>10. submission' \cup unshown' = Joined(messages', from', Settled')
    BY <1>a, <2>1, <2>2, <2>4, <2>5, <2>6, <2>7, <2>9 DEF NoPrompts
  <2>11. ~Beginning' /\ ~OnItsWay' /\ ui' # "starting"
    BY <1>a, <2>1 DEF Beginning, OnItsWay
  <2>12. returned' \subseteq 1..Len(messages')
    BY <1>0, <1>a, <2>1, <2>3, <2>4, <2>5
  <2> QED  BY <1>0, <1>a, <2>1, <2>5, <2>10, <2>11, <2>12 DEF TurnSound
<1> QED  BY <1>1, <1>2, <1>3, <1>4, <1>5, <1>6 DEF Worker
-----------------------------------------------------------------------------
(* Each step keeps Apart and NothingLost.                                  *)

\* What the user has in front of him or in the queue.
Drafts == composer \cup paused \cup queued

DraftsApart == composer \cap paused = {} /\ (composer \cup paused) \cap queued = {}

Outside(ms, K, D) == \A i \in K : ms[i] \cap D = {}
Distinct(ms, K) == \A i, j \in K : i # j => ms[i] \cap ms[j] = {}
Written(ms, D, w) == D \subseteq w /\ \A i \in 1..Len(ms) : ms[i] \subseteq w

\* Apart, by its parts.
LEMMA ApartIs ==
    Apart <=> /\ DraftsApart /\ Outside(messages, Kept, Drafts) /\ Distinct(messages, Kept)
              /\ Written(messages, Drafts, written)
BY DEF Apart, DraftsApart, Outside, Distinct, Written, Drafts

\* The same in the next state.
LEMMA NextApartIs ==
    Apart' <=> /\ DraftsApart' /\ Outside(messages', Kept', Drafts')
               /\ Distinct(messages', Kept') /\ Written(messages', Drafts', written')
BY DEF Apart, DraftsApart, Outside, Distinct, Written, Drafts

\* A prompt that nothing holds.
LEMMA ApartFrame ==
    ASSUME Apart, UNCHANGED <<messages, written>>, Kept' \subseteq Kept, Drafts' \subseteq Drafts,
           DraftsApart'
    PROVE  Apart'
<1>1. DraftsApart /\ Outside(messages, Kept, Drafts) /\ Distinct(messages, Kept)
      /\ Written(messages, Drafts, written)
  BY ApartIs
<1>2. Outside(messages', Kept', Drafts') /\ Distinct(messages', Kept')
      /\ Written(messages', Drafts', written')
  BY <1>1 DEF Outside, Distinct, Written
<1> QED  BY <1>2, NextApartIs

\* Where the messages end that are not being accepted.
LEMMA KeptSame ==
    ASSUME messages' = messages, returned \subseteq returned',
           worker' = "accepting" <=> worker = "accepting"
    PROVE  Kept' \subseteq Kept
BY DEF Kept, Settled

\* Steps that move no prompt.
LEMMA ApartStill ==
    ASSUME Apart, UNCHANGED <<messages, returned, written, composer, paused, queued>>,
           worker' = "accepting" <=> worker = "accepting"
    PROVE  Apart'
<1>1. Kept' \subseteq Kept
  BY KeptSame
<1>2. Drafts' \subseteq Drafts /\ DraftsApart'
  BY ApartIs DEF Drafts, DraftsApart
<1> QED  BY <1>1, <1>2, ApartFrame

\* A save moves no prompt.
LEMMA SavingApart ==
    ASSUME Apart, Saving
    PROVE  Apart'
<1>1. UNCHANGED <<messages, returned, written, composer, paused, queued, worker>>
  BY DEF Saving, Copy, WriteDocument, SaveFails, Returns, inputs, threads, archive
<1> QED  BY <1>1, ApartStill

\* Autosave, receipt and title move no prompt.
LEMMA OthersApart ==
    ASSUME Apart, Flush \/ AppendReceipt \/ Title
    PROVE  Apart'
<1>1. UNCHANGED <<messages, returned, written, composer, paused, queued, worker>>
  BY DEF Flush, AppendReceipt, Title, inputs, archive
<1> QED  BY <1>1, ApartStill

\* A prompt the user moves leaves its old place.
LEMMA UserApart ==
    ASSUME Typed, Threads, TurnSound, Apart, User
    PROVE  Apart'
<1>0. DraftsApart /\ Outside(messages, Kept, Drafts) /\ Distinct(messages, Kept)
      /\ Written(messages, Drafts, written)
  BY ApartIs
<1>1. ASSUME NEW p \in Prompt, Type(p)
      PROVE  Apart'
  <2>1. /\ p \notin written /\ written' = written \cup {p} /\ composer' = composer \cup {p}
        /\ UNCHANGED <<paused, queued, messages, returned, worker>>
    BY <1>1 DEF Type, threads, archive
  <2>2. DraftsApart' /\ Drafts' = Drafts \cup {p}
    BY <1>0, <2>1 DEF DraftsApart, Drafts, Written
  <2>3. Kept' = Kept
    BY <2>1 DEF Kept, Settled
  <2>4. \A i \in Kept : i \in 1..Len(messages)
    BY TurnLengths DEF Kept
  <2>5. Outside(messages', Kept', Drafts')
    BY <1>0, <2>1, <2>2, <2>3, <2>4 DEF Outside, Written
  <2>6. Distinct(messages', Kept') /\ Written(messages', Drafts', written')
    BY <1>0, <2>1, <2>2, <2>3 DEF Distinct, Written
  <2> QED  BY <2>2, <2>5, <2>6, NextApartIs
<1>2. CASE Queue \/ TakeBack
  <2>1. UNCHANGED <<messages, returned, written, worker>>
    BY <1>2 DEF Queue, TakeBack, archive
  <2>2. Drafts' \subseteq Drafts /\ DraftsApart'
    BY <1>0, <1>2 DEF Queue, TakeBack, Drafts, DraftsApart
  <2> QED  BY <2>1, <2>2, KeptSame, ApartFrame
<1>3. CASE Send
  <2>1. UNCHANGED <<messages, returned, written, paused, worker>>
    BY <1>3 DEF Send
  <2>2. \/ composer' = {} /\ queued' = queued
        \/ queued' = {} /\ composer' = composer
    BY <1>3 DEF Send
  <2>3. Drafts' \subseteq Drafts /\ DraftsApart'
    BY <1>0, <2>1, <2>2 DEF Drafts, DraftsApart
  <2> QED  BY <2>1, <2>3, KeptSame, ApartFrame
<1> QED  BY <1>1, <1>2, <1>3 DEF User

\* So does one the interface pauses or returns.
LEMMA InterfaceApart ==
    ASSUME Typed, Threads, TurnSound, Apart, SendingSound, Interface
    PROVE  Apart'
<1>0. DraftsApart /\ Outside(messages, Kept, Drafts) /\ Distinct(messages, Kept)
      /\ Written(messages, Drafts, written)
  BY ApartIs
<1>a. /\ Len(messages) \in Nat /\ from \in Nat /\ messages \in Seq(Message)
      /\ worker # "accepting" => Settled = Len(messages)
      /\ worker # "idle" => from < Settled
  BY TurnLengths
<1>1. CASE CaptureInput \/ BeginCheckpoint \/ Show \/ Finished \/ ReturnCheckpoint \/ ReturnSaved
  <2>1. /\ UNCHANGED <<messages, returned, written, composer, paused, queued>>
        /\ worker' = worker \/ (worker = "done" /\ worker' = "idle")
    BY <1>1 DEF CaptureInput, BeginCheckpoint, Show, Finished, ReturnCheckpoint, ReturnSaved,
                inputs, threads, archive
  <2> QED  BY <2>1, ApartStill
<1>2. CASE Begun
  <2>1. /\ UNCHANGED <<messages, returned, written, composer, paused, queued>>
        /\ ui = "beginning" /\ worker' = "asking"
    BY <1>2 DEF Begun, archive
  <2>2. worker = "idle"
    BY <2>1 DEF Threads
  <2> QED  BY <2>1, <2>2, ApartStill
<1>3. CASE NotBegun
  <2>1. /\ ui = "beginning" /\ messages' = SubSeq(messages, 1, from)
        /\ UNCHANGED <<composer, paused, queued, written, worker, returned>>
    BY <1>3 DEF NotBegun, inputs
  <2>2. worker = "idle"
    BY <2>1 DEF Threads
  <2>3. Len(messages) = from + 1
    BY <2>1 DEF TurnSound, Beginning
  <2>4. from \in 0..Len(messages)
    BY <1>a, <2>3
  <2>5. Len(messages') = from /\ \A i \in 1..from : messages'[i] = messages[i]
    BY <1>a, <2>1, <2>4, CutProperties
  <2>6. Kept = (1..(from + 1)) \ returned /\ Kept' = (1..from) \ returned
    BY <2>1, <2>2, <2>3, <2>5 DEF Kept, Settled
  <2>7. \A i \in Kept' : i \in Kept /\ messages'[i] = messages[i]
    BY <1>a, <2>5, <2>6
  <2>8. DraftsApart' /\ Drafts' = Drafts
    BY <1>0, <2>1 DEF DraftsApart, Drafts
  <2>9. Outside(messages', Kept', Drafts') /\ Distinct(messages', Kept')
    BY <1>0, <2>7, <2>8 DEF Outside, Distinct
  <2>10. \A i \in 1..from : i \in 1..Len(messages)
    BY <1>a, <2>3
  <2>11. Written(messages', Drafts', written')
    BY <1>0, <2>1, <2>5, <2>8, <2>10 DEF Written
  <2> QED  BY <2>8, <2>9, <2>11, NextApartIs
<1>4. CASE Paused
  <2>1. UNCHANGED <<messages, returned, written>> /\ worker = "done" /\ worker' = "idle"
    BY <1>4 DEF Paused, archive
  <2>2. Drafts' \subseteq Drafts /\ DraftsApart'
    BY <1>0, <1>4 DEF Paused, Drafts, DraftsApart
  <2> QED  BY <2>1, <2>2, KeptSame, ApartFrame
<1>5. CASE Returned
  <2>1. /\ worker = "done" /\ worker' = "idle"
        /\ composer' = submission \cup unshown
        /\ paused' = paused \cup queued \cup composer /\ queued' = {}
        /\ returned' = returned \cup ((from + 1)..Len(messages))
        /\ UNCHANGED <<written, messages>>
    BY <1>5 DEF Returned, ReturnedPrompts
  <2>2. /\ submission \cup unshown = Joined(messages, from, Settled) /\ returned \subseteq 1..from
    BY <2>1 DEF TurnSound
  <2>3. PICK n \in Nat : n = Len(messages) /\ Settled = n /\ from < n
    BY <1>a, <2>1
  <2>4. Kept = (1..n) \ returned /\ Kept' = (1..n) \ returned'
    BY <2>1, <2>3 DEF Kept, Settled
  <2>5. \A i \in Kept' : i \in Kept /\ i \notin (from + 1)..n
    BY <2>1, <2>3, <2>4
  <2>6. \A i \in (from + 1)..n : i \in Kept /\ i \in 1..n
    BY <1>a, <2>2, <2>4
  <2>7. composer' = UNION {messages[i] : i \in (from + 1)..n}
    BY <2>1, <2>2, <2>3 DEF Joined
  <2>8. composer' \cap Drafts = {}
    BY <1>0, <2>6, <2>7 DEF Outside
  <2>9. DraftsApart' /\ Drafts' = Drafts \cup composer'
    BY <2>1, <2>8 DEF DraftsApart, Drafts
  <2>10. \A i \in Kept' : messages[i] \cap composer' = {}
    BY <1>0, <2>5, <2>6, <2>7 DEF Distinct
  <2>11. Outside(messages', Kept', Drafts') /\ Distinct(messages', Kept')
    BY <1>0, <2>1, <2>5, <2>9, <2>10 DEF Outside, Distinct
  <2>12. Written(messages', Drafts', written')
    BY <1>0, <2>1, <2>3, <2>6, <2>7, <2>9 DEF Written
  <2> QED  BY <2>9, <2>11, <2>12, NextApartIs
<1>6. CASE PushPrompt
  <2>1. /\ ui = "starting" /\ messages' = Append(messages, sending)
        /\ UNCHANGED <<composer, paused, queued, sending, written, worker, returned>>
    BY <1>6 DEF PushPrompt, inputs
  <2>2. worker = "idle"
    BY <2>1 DEF Threads
  <2>3. PICK m \in Message : m = sending
    BY InputSets DEF Message
  <2>4. PICK n \in Nat : n = Len(messages)
    BY <1>a
  <2>5. /\ Len(messages') = n + 1 /\ messages'[n + 1] = m
        /\ \A i \in 1..n : messages'[i] = messages[i]
    BY <1>a, <2>1, <2>3, <2>4, AppendedProperties
  <2>6. /\ Kept = (1..n) \ returned /\ Kept' = (1..(n + 1)) \ returned
    BY <2>1, <2>2, <2>4, <2>5 DEF Kept, Settled
  <2>7. \A i \in Kept' : i = n + 1 \/ (i \in Kept /\ messages'[i] = messages[i])
    BY <2>5, <2>6
  <2>8. m \cap Drafts = {} /\ m \subseteq written /\ \A i \in Kept : messages[i] \cap m = {}
    BY <2>1, <2>3 DEF SendingSound, OnItsWay, Drafts
  <2>9. DraftsApart' /\ Drafts' = Drafts
    BY <1>0, <2>1 DEF DraftsApart, Drafts
  <2>10. Outside(messages', Kept', Drafts')
    BY <1>0, <2>5, <2>7, <2>8, <2>9 DEF Outside
  <2>11. Distinct(messages', Kept')
    BY <1>0, <2>5, <2>7, <2>8 DEF Distinct
  <2>12. \A i \in 1..(n + 1) : i \in 1..n \/ i = n + 1
    OBVIOUS
  <2>13. Written(messages', Drafts', written')
    BY <1>0, <2>1, <2>4, <2>5, <2>8, <2>9, <2>12 DEF Written
  <2> QED  BY <2>9, <2>10, <2>11, <2>13, NextApartIs
<1>7. CASE Withdraw
  <2>1. /\ ui = "withdrawing"
        /\ paused' = paused \cup queued \cup composer /\ queued' = {} /\ composer' = sending
        /\ UNCHANGED <<messages, written, worker, returned>>
    BY <1>7 DEF Withdraw
  <2>2. /\ sending \cap Drafts = {} /\ sending \subseteq written
        /\ \A i \in Kept : messages[i] \cap sending = {}
    BY <2>1 DEF SendingSound, OnItsWay, Drafts
  <2>3. DraftsApart' /\ Drafts' = Drafts \cup sending
    BY <2>1, <2>2 DEF DraftsApart, Drafts
  <2>4. Kept' = Kept
    BY <2>1 DEF Kept, Settled
  <2>5. Outside(messages', Kept', Drafts') /\ Distinct(messages', Kept')
    BY <1>0, <2>1, <2>2, <2>3, <2>4 DEF Outside, Distinct
  <2>6. Written(messages', Drafts', written')
    BY <1>0, <2>1, <2>2, <2>3 DEF Written
  <2> QED  BY <2>3, <2>5, <2>6, NextApartIs
<1> QED  BY <1>1, <1>2, <1>3, <1>4, <1>5, <1>6, <1>7 DEF Interface

\* So does one the worker accepts.
LEMMA WorkerApart ==
    ASSUME Typed, Threads, TurnSound, Apart, Worker
    PROVE  Apart'
<1>0. DraftsApart /\ Outside(messages, Kept, Drafts) /\ Distinct(messages, Kept)
      /\ Written(messages, Drafts, written)
  BY ApartIs
<1>a. /\ Len(messages) \in Nat /\ from \in Nat /\ messages \in Seq(Message)
      /\ worker # "accepting" => Settled = Len(messages)
      /\ worker = "accepting" => Settled = Len(messages) - 1 /\ Len(messages) \in Nat \ {0}
      /\ Settled \in Nat
      /\ worker # "idle" => from < Settled
  BY TurnLengths
<1>1. CASE Accept
  <2>1. /\ worker = "asking" /\ worker' = "accepting" /\ messages' = Append(messages, Deliverable)
        /\ Deliverable # {}
        /\ UNCHANGED <<composer, paused, queued, written, returned>>
    BY <1>1 DEF Accept, inputs
  <2>2. PICK m \in Message : m = queued /\ m = Deliverable
    BY <2>1, InputSets DEF Message, Deliverable
  <2>3. PICK n \in Nat : n = Len(messages)
    BY <1>a
  <2>4. /\ Len(messages') = n + 1 /\ messages'[n + 1] = m
        /\ \A i \in 1..n : messages'[i] = messages[i]
    BY <1>a, <2>1, <2>2, <2>3, AppendedProperties
  <2>5. Kept' = (1..n) \ returned /\ Kept = (1..n) \ returned
    BY <2>1, <2>3, <2>4 DEF Kept, Settled
  <2>6. DraftsApart' /\ Drafts' = Drafts /\ m \subseteq Drafts
    BY <1>0, <2>1, <2>2 DEF DraftsApart, Drafts
  <2>7. Outside(messages', Kept', Drafts') /\ Distinct(messages', Kept')
    BY <1>0, <2>4, <2>5, <2>6 DEF Outside, Distinct
  <2>8. \A i \in 1..(n + 1) : i \in 1..n \/ i = n + 1
    OBVIOUS
  <2>9. Written(messages', Drafts', written')
    BY <1>0, <2>1, <2>3, <2>4, <2>6, <2>8 DEF Written
  <2> QED  BY <2>6, <2>7, <2>9, NextApartIs
<1>2. CASE AcceptCheckpoint \/ Ask \/ Stop \/ KnowsCompletion \/ WorkerCheckpoint \/ Answered \/ Ended
  <2>1. /\ UNCHANGED <<messages, returned, written, composer, paused, queued>>
        /\ worker' = "accepting" <=> worker = "accepting"
    BY <1>2 DEF AcceptCheckpoint, Ask, Stop, KnowsCompletion, WorkerCheckpoint, Answered, Ended,
                inputs, threads, archive
  <2> QED  BY <2>1, ApartStill
<1>3. CASE Accepted
  <2>1. /\ worker = "accepting" /\ worker' = "sampling" /\ queued' = {}
        /\ UNCHANGED <<messages, returned, written, composer, paused>>
    BY <1>3 DEF Accepted, archive
  <2>2. PICK n \in Nat : Len(messages) = n + 1 /\ Settled = n
    BY <1>a, <2>1
  <2>3. messages[n + 1] = queued /\ returned \subseteq 1..from
    BY <2>1, <2>2 DEF TurnSound
  <2>4. Kept = (1..n) \ returned /\ Kept' = (1..(n + 1)) \ returned
    BY <2>1, <2>2 DEF Kept, Settled
  <2>5. DraftsApart' /\ Drafts' \subseteq Drafts /\ queued \subseteq Drafts /\ queued \cap Drafts' = {}
    BY <1>0, <2>1 DEF DraftsApart, Drafts
  <2>6. \A i \in Kept' : i = n + 1 \/ i \in Kept
    BY <2>4
  <2>7. Outside(messages', Kept', Drafts')
    BY <1>0, <2>1, <2>3, <2>5, <2>6 DEF Outside
  <2>8. \A i \in Kept : messages[i] \cap messages[n + 1] = {}
    BY <1>0, <2>3, <2>5 DEF Outside
  <2>9. Distinct(messages', Kept')
    BY <1>0, <2>1, <2>6, <2>8 DEF Distinct
  <2>10. Written(messages', Drafts', written')
    BY <1>0, <2>1, <2>5 DEF Written
  <2> QED  BY <2>5, <2>7, <2>9, <2>10, NextApartIs
<1>4. CASE NotAccepted
  <2>1. /\ worker = "accepting" /\ worker' = "ending"
        /\ messages' = SubSeq(messages, 1, Len(messages) - 1)
        /\ UNCHANGED <<composer, paused, queued, written, returned>>
    BY <1>4 DEF NotAccepted, inputs
  <2>2. PICK n \in 0..Len(messages) : n = Settled /\ n = Len(messages) - 1
    BY <1>a, <2>1
  <2>3. Len(messages') = n /\ \A i \in 1..n : messages'[i] = messages[i]
    BY <1>a, <2>1, <2>2, CutProperties
  <2>4. Kept' = (1..n) \ returned /\ Kept = (1..n) \ returned
    BY <2>1, <2>2, <2>3 DEF Kept, Settled
  <2>5. DraftsApart' /\ Drafts' = Drafts
    BY <1>0, <2>1 DEF DraftsApart, Drafts
  <2>6. Outside(messages', Kept', Drafts') /\ Distinct(messages', Kept')
    BY <1>0, <2>3, <2>4, <2>5 DEF Outside, Distinct
  <2>7. \A i \in 1..n : i \in 1..Len(messages)
    BY <1>a, <2>2
  <2>8. Written(messages', Drafts', written')
    BY <1>0, <2>1, <2>3, <2>5, <2>7 DEF Written
  <2> QED  BY <2>5, <2>6, <2>8, NextApartIs
<1>5. CASE Completion
  <2>1. /\ worker = "sampling" /\ worker' = "answering" /\ messages' = Append(messages, NoPrompts)
        /\ UNCHANGED <<composer, paused, queued, written, returned>>
    BY <1>5 DEF Completion, inputs
  <2>2. PICK m \in Message : m = NoPrompts
    BY DEF Message, NoPrompts
  <2>3. PICK n \in Nat : n = Len(messages)
    BY <1>a
  <2>4. /\ Len(messages') = n + 1 /\ messages'[n + 1] = {}
        /\ \A i \in 1..n : messages'[i] = messages[i]
    BY <1>a, <2>1, <2>2, <2>3, AppendedProperties DEF NoPrompts
  <2>5. Kept = (1..n) \ returned /\ Kept' = (1..(n + 1)) \ returned
    BY <2>1, <2>3, <2>4 DEF Kept, Settled
  <2>6. DraftsApart' /\ Drafts' = Drafts
    BY <1>0, <2>1 DEF DraftsApart, Drafts
  <2>7. \A i \in Kept' : messages'[i] = {} \/ (i \in Kept /\ messages'[i] = messages[i])
    BY <2>4, <2>5
  <2>8. Outside(messages', Kept', Drafts')
    BY <1>0, <2>6, <2>7 DEF Outside
  <2>9. Distinct(messages', Kept')
    BY <1>0, <2>7 DEF Distinct
  <2>10. \A i \in 1..(n + 1) : i \in 1..n \/ i = n + 1
    OBVIOUS
  <2>11. Written(messages', Drafts', written')
    BY <1>0, <2>1, <2>3, <2>4, <2>6, <2>10 DEF Written
  <2> QED  BY <2>6, <2>8, <2>9, <2>11, NextApartIs
<1> QED  BY <1>1, <1>2, <1>3, <1>4, <1>5 DEF Worker
\* A prompt that somebody holds.
Held(q) ==
    \/ q \in composer \/ q \in paused \/ q \in queued \/ q \in sending
    \/ \E i \in 1..Len(messages) : i \notin returned /\ q \in messages[i]

\* NothingLost, prompt by prompt.
LEMMA LostIs ==
    ASSUME messages \in Seq(Message)
    PROVE  NothingLost <=> \A q \in written : Held(q)
<1>1. DOMAIN messages = 1..Len(messages)
  BY LenProperties
<1>2. Conversation([messages |-> messages], returned)
      = UNION {messages[i] : i \in (1..Len(messages)) \ returned}
  BY <1>1 DEF Conversation
<1> QED  BY <1>2 DEF NothingLost, Held

\* The same in the next state.
LEMMA NextLostIs ==
    ASSUME messages' \in Seq(Message)
    PROVE  NothingLost' <=> \A q \in written' : Held(q)'
<1>1. DOMAIN messages' = 1..Len(messages')
  BY LenProperties
<1>2. Conversation([messages |-> messages'], returned')
      = UNION {messages'[i] : i \in (1..Len(messages')) \ returned'}
  BY <1>1 DEF Conversation
<1> QED  BY <1>2 DEF NothingLost, Held

\* What was held is held still, wherever.
LEMMA LostStep ==
    ASSUME Typed, Typed', NothingLost, \A q \in written' : (q \in written => Held(q)) => Held(q)'
    PROVE  NothingLost'
<1>1. messages \in Seq(Message) /\ messages' \in Seq(Message)
  BY TypedParts, NextTypedParts DEF ArchiveFine
<1> QED  BY <1>1, LostIs, NextLostIs

\* Steps that move no prompt.
LEMMA LostFrame ==
    ASSUME Typed, Typed', NothingLost,
           UNCHANGED <<messages, returned, written, composer, paused, queued, sending>>
    PROVE  NothingLost'
BY LostStep DEF Held

\* Saves, receipts and titles lose no prompt.
LEMMA OthersLost ==
    ASSUME Typed, Typed', NothingLost, Saving \/ Flush \/ AppendReceipt \/ Title
    PROVE  NothingLost'
<1>1. UNCHANGED <<messages, returned, written, composer, paused, queued, sending>>
  BY DEF Saving, Copy, WriteDocument, SaveFails, Flush, AppendReceipt, Title, inputs, archive
<1> QED  BY <1>1, LostFrame

\* The user's steps lose no prompt.
LEMMA UserLost ==
    ASSUME Typed, Typed', TurnSound, NothingLost, User
    PROVE  NothingLost'
<1>1. ASSUME NEW p \in Prompt, Type(p)
      PROVE  NothingLost'
  <2>1. /\ written' = written \cup {p} /\ composer' = composer \cup {p}
        /\ UNCHANGED <<paused, queued, sending, messages, returned>>
    BY <1>1 DEF Type, archive
  <2>2. \A q \in written' : (q \in written => Held(q)) => Held(q)'
    BY <2>1 DEF Held
  <2> QED  BY <2>2, LostStep
<1>2. CASE Queue \/ TakeBack
  <2>1. /\ UNCHANGED <<written, sending, messages, returned>>
        /\ composer \cup paused \cup queued \subseteq composer' \cup paused' \cup queued'
    BY <1>2 DEF Queue, TakeBack, archive
  <2>2. \A q \in written' : (q \in written => Held(q)) => Held(q)'
    BY <2>1 DEF Held
  <2> QED  BY <2>2, LostStep
<1>3. CASE Send
  <2>1. /\ ui = "loop"
        /\ composer \cup queued \subseteq composer' \cup queued' \cup sending'
        /\ UNCHANGED <<written, paused, messages, returned>>
    BY <1>3 DEF Send
  <2>2. sending = {}
    BY <2>1 DEF TurnSound, Turning
  <2>3. \A q \in written' : (q \in written => Held(q)) => Held(q)'
    BY <2>1, <2>2 DEF Held
  <2> QED  BY <2>3, LostStep
<1> QED  BY <1>1, <1>2, <1>3 DEF User

\* The interface's steps lose no prompt.
LEMMA InterfaceLost ==
    ASSUME Typed, Typed', Threads, TurnSound, NothingLost, Interface
    PROVE  NothingLost'
<1>a. /\ Len(messages) \in Nat /\ from \in Nat /\ messages \in Seq(Message)
      /\ worker # "accepting" => Settled = Len(messages)
      /\ worker # "idle" => from < Settled
  BY TurnLengths
<1>1. CASE CaptureInput \/ BeginCheckpoint \/ Show \/ Finished \/ ReturnCheckpoint \/ ReturnSaved
  <2>1. UNCHANGED <<messages, returned, written, composer, paused, queued, sending>>
    BY <1>1 DEF CaptureInput, BeginCheckpoint, Show, Finished, ReturnCheckpoint, ReturnSaved,
                inputs, threads, archive
  <2> QED  BY <2>1, LostFrame
<1>2. CASE Begun
  <2>1. /\ UNCHANGED <<messages, returned, written, composer, paused, queued>> /\ ui = "beginning"
    BY <1>2 DEF Begun, archive
  <2>2. /\ Len(messages) = from + 1 /\ messages[from + 1] = sending /\ returned \subseteq 1..from
    BY <2>1 DEF TurnSound, Beginning
  <2>3. from + 1 \in 1..Len(messages) /\ from + 1 \notin returned
    BY <1>a, <2>2
  <2>4. \A q \in written' : (q \in written => Held(q)) => Held(q)'
    BY <2>1, <2>2, <2>3 DEF Held
  <2> QED  BY <2>4, LostStep
<1>3. CASE NotBegun
  <2>1. /\ ui = "beginning" /\ messages' = SubSeq(messages, 1, from)
        /\ UNCHANGED <<written, composer, paused, queued, sending, returned>>
    BY <1>3 DEF NotBegun, inputs
  <2>2. /\ Len(messages) = from + 1 /\ messages[from + 1] = sending
    BY <2>1 DEF TurnSound, Beginning
  <2>3. from \in 0..Len(messages)
    BY <1>a, <2>2
  <2>4. Len(messages') = from /\ \A i \in 1..from : messages'[i] = messages[i]
    BY <1>a, <2>1, <2>3, CutProperties
  <2>5. \A i \in 1..Len(messages) : i \in 1..from \/ i = from + 1
    BY <1>a, <2>2
  <2>6. \A q \in written' : (q \in written => Held(q)) => Held(q)'
    BY <2>1, <2>2, <2>4, <2>5 DEF Held
  <2> QED  BY <2>6, LostStep
<1>4. CASE Paused
  <2>1. /\ UNCHANGED <<written, sending, messages, returned>>
        /\ composer \cup paused \cup queued \subseteq composer' \cup paused' \cup queued'
    BY <1>4 DEF Paused, archive
  <2>2. \A q \in written' : (q \in written => Held(q)) => Held(q)'
    BY <2>1 DEF Held
  <2> QED  BY <2>2, LostStep
<1>5. CASE Returned
  <2>1. /\ worker = "done"
        /\ composer' = submission \cup unshown
        /\ paused' = paused \cup queued \cup composer
        /\ returned' = returned \cup ((from + 1)..Len(messages))
        /\ UNCHANGED <<written, sending, messages>>
    BY <1>5 DEF Returned, ReturnedPrompts
  <2>2. composer' = Joined(messages, from, Settled) /\ Settled = Len(messages)
    BY <1>a, <2>1 DEF TurnSound
  <2>3. composer' = UNION {messages[i] : i \in (from + 1)..Len(messages)}
    BY <2>2 DEF Joined
  <2>4. \A q \in written' : (q \in written => Held(q)) => Held(q)'
    BY <2>1, <2>3 DEF Held
  <2> QED  BY <2>4, LostStep
<1>6. CASE PushPrompt
  <2>1. /\ messages' = Append(messages, sending)
        /\ UNCHANGED <<written, composer, paused, queued, sending, returned>>
    BY <1>6 DEF PushPrompt, inputs
  <2>2. PICK m \in Message : m = sending
    BY InputSets DEF Message
  <2>3. PICK n \in Nat : n = Len(messages)
    BY <1>a
  <2>4. Len(messages') = n + 1 /\ \A i \in 1..n : messages'[i] = messages[i]
    BY <1>a, <2>1, <2>2, <2>3, AppendedProperties
  <2>5. \A i \in 1..n : i \in 1..(n + 1)
    OBVIOUS
  <2>6. \A q \in written' : (q \in written => Held(q)) => Held(q)'
    BY <2>1, <2>3, <2>4, <2>5 DEF Held
  <2> QED  BY <2>6, LostStep
<1>7. CASE Withdraw
  <2>1. /\ paused' = paused \cup queued \cup composer /\ composer' = sending
        /\ UNCHANGED <<written, messages, returned>>
    BY <1>7 DEF Withdraw
  <2>2. \A q \in written' : (q \in written => Held(q)) => Held(q)'
    BY <2>1 DEF Held
  <2> QED  BY <2>2, LostStep
<1> QED  BY <1>1, <1>2, <1>3, <1>4, <1>5, <1>6, <1>7 DEF Interface

\* The worker's steps lose no prompt.
LEMMA WorkerLost ==
    ASSUME Typed, Typed', Threads, TurnSound, NothingLost, Worker
    PROVE  NothingLost'
<1>a. /\ Len(messages) \in Nat /\ messages \in Seq(Message)
      /\ worker = "accepting" => Settled = Len(messages) - 1 /\ Len(messages) \in Nat \ {0}
      /\ worker # "idle" => from < Settled
  BY TurnLengths
<1>1. ASSUME NEW m \in Message, messages' = Append(messages, m),
             UNCHANGED <<written, composer, paused, queued, sending, returned>>
      PROVE  NothingLost'
  <2>1. PICK n \in Nat : n = Len(messages)
    BY <1>a
  <2>2. Len(messages') = n + 1 /\ \A i \in 1..n : messages'[i] = messages[i]
    BY <1>a, <1>1, <2>1, AppendedProperties
  <2>3. \A i \in 1..n : i \in 1..(n + 1)
    OBVIOUS
  <2>4. \A q \in written' : (q \in written => Held(q)) => Held(q)'
    BY <1>1, <2>1, <2>2, <2>3 DEF Held
  <2> QED  BY <2>4, LostStep
<1>2. CASE Accept
  <2>1. /\ messages' = Append(messages, Deliverable)
        /\ UNCHANGED <<written, composer, paused, queued, sending, returned>>
    BY <1>2 DEF Accept, inputs
  <2>2. Deliverable \in Message
    BY InputSets DEF Deliverable, Message
  <2> QED  BY <1>1, <2>1, <2>2
<1>3. CASE AcceptCheckpoint \/ Ask \/ Stop \/ KnowsCompletion \/ WorkerCheckpoint \/ Answered \/ Ended
  <2>1. UNCHANGED <<messages, returned, written, composer, paused, queued, sending>>
    BY <1>3 DEF AcceptCheckpoint, Ask, Stop, KnowsCompletion, WorkerCheckpoint, Answered, Ended,
                inputs, threads, archive
  <2> QED  BY <2>1, LostFrame
<1>4. CASE Accepted
  <2>1. /\ worker = "accepting"
        /\ UNCHANGED <<messages, returned, written, composer, paused, sending>>
    BY <1>4 DEF Accepted, archive
  <2>2. PICK n \in Nat : Len(messages) = n + 1 /\ Settled = n
    BY <1>a, <2>1
  <2>3. messages[n + 1] = queued /\ returned \subseteq 1..from /\ from < n
    BY <1>a, <2>1, <2>2 DEF TurnSound
  <2>4. n + 1 \in 1..Len(messages) /\ n + 1 \notin returned
    <3>1. from \in Nat
      BY TurnLengths
    <3> QED  BY <2>2, <2>3, <3>1
  <2>5. \A q \in written' : (q \in written => Held(q)) => Held(q)'
    BY <2>1, <2>3, <2>4 DEF Held
  <2> QED  BY <2>5, LostStep
<1>5. CASE NotAccepted
  <2>1. /\ worker = "accepting" /\ messages' = SubSeq(messages, 1, Len(messages) - 1)
        /\ UNCHANGED <<composer, paused, queued, written, sending, returned>>
    BY <1>5 DEF NotAccepted, inputs
  <2>2. PICK n \in 0..Len(messages) : Len(messages) = n + 1
    BY <1>a, <2>1
  <2>3. Len(messages') = n /\ \A i \in 1..n : messages'[i] = messages[i]
    BY <1>a, <2>1, <2>2, CutProperties
  <2>4. messages[n + 1] = queued
    BY <2>1, <2>2 DEF TurnSound
  <2>5. \A i \in 1..Len(messages) : i \in 1..n \/ i = n + 1
    BY <2>2
  <2>6. \A q \in written' : (q \in written => Held(q)) => Held(q)'
    BY <2>1, <2>3, <2>4, <2>5 DEF Held
  <2> QED  BY <2>6, LostStep
<1>6. CASE Completion
  <2>1. /\ messages' = Append(messages, NoPrompts)
        /\ UNCHANGED <<written, composer, paused, queued, sending, returned>>
    BY <1>6 DEF Completion, inputs
  <2>2. NoPrompts \in Message
    BY DEF NoPrompts, Message
  <2> QED  BY <1>1, <2>1, <2>2
<1> QED  BY <1>2, <1>3, <1>4, <1>5, <1>6 DEF Worker
-----------------------------------------------------------------------------
(* Each step keeps LinkSound.                                              *)

\* The document stays, or the archive grows beyond it.
LEMMA LinkFrame ==
    ASSUME Typed, Typed', LinkSound, crossed' = crossed,
           live'.messages = live.messages, live'.events = live.events,
           Begins(messages, messages'), Begins(events, events'),
           Unstarted' => Unstarted /\ UNCHANGED <<from, events>>,
           worker' = "accepting" =>
               /\ worker = "accepting" /\ messages' = messages
               /\ save'.stage = "Accept" \/ result'["worker"] = "ok"
                  <=> save.stage = "Accept" \/ result["worker"] = "ok",
           save'.stage \in {"Begin", "Accept"} =>
               /\ save'.stage = save.stage /\ save'.before = save.before
               /\ save'.stage = "Begin" => UNCHANGED <<from, events>>
    PROVE  LinkSound'
<1> SUFFICES ASSUME ~crossed
             PROVE  LinkSound'
  BY DEF LinkSound
<1>1. /\ live.messages \in Seq(Message) /\ live.events \in Seq(HistoryEvent)
      /\ messages \in Seq(Message) /\ events \in Seq(HistoryEvent)
      /\ Len(messages) \in Nat /\ Len(save.before.messages) \in Nat
  BY Lengths
<1>2. messages' \in Seq(Message) /\ events' \in Seq(HistoryEvent)
  BY NextTypedParts DEF ArchiveFine
<1>3. Begins(live'.messages, messages')
  BY <1>1, <1>2, BeginsFurther DEF LinkSound
<1>4. Begins(live'.events, events')
  BY <1>1, <1>2, BeginsFurther DEF LinkSound
<1>5. Len(messages) <= Len(messages') /\ Len(messages') \in Nat
  BY <1>2, LenProperties DEF Begins
<1>6. Unstarted' => Unsaved(live)'
  BY DEF LinkSound, Unsaved, Start
<1>7. save'.stage = "Begin" => Unsaved(save.before)'
  BY DEF LinkSound, Unsaved, Start
<1>8. save'.stage = "Accept" => Len(save'.before.messages) < Len(messages')
  BY <1>1, <1>5 DEF LinkSound
<1>9. /\ worker' = "accepting" /\ save'.stage # "Accept" /\ result'["worker"] # "ok" =>
             Len(live'.messages) < Len(messages')
      /\ worker' = "accepting" /\ (save'.stage = "Accept" \/ result'["worker"] = "ok") =>
             Len(live'.messages) = Len(messages')
  BY DEF LinkSound
<1> QED  BY <1>3, <1>4, <1>6, <1>7, <1>8, <1>9 DEF LinkSound

\* A receipt or a title is not a turn's start.
LEMMA StartIs == Start.kind = "start"
BY DEF Start

\* The archive begins itself.
LEMMA ArchiveItself ==
    ASSUME Typed
    PROVE  Begins(messages, messages) /\ Begins(events, events)
BY Lengths, BeginsItself

\* A save that fails withdraws what its stage added, and no more.
LEMMA SavingLink ==
    ASSUME Typed, Typed', Threads, SaveSound, LinkSound, Saving
    PROVE  LinkSound'
<1>1. /\ live.messages \in Seq(Message) /\ live.events \in Seq(HistoryEvent)
      /\ messages \in Seq(Message) /\ events \in Seq(HistoryEvent)
      /\ save.before.messages \in Seq(Message) /\ save.before.events \in Seq(HistoryEvent)
      /\ Len(messages) \in Nat /\ Len(save.before.messages) \in Nat
      /\ Len(events) \in Nat /\ Len(save.before.events) \in Nat /\ Len(live.events) \in Nat
  BY Lengths
<1>a. Begins(messages, messages) /\ Begins(events, events)
  BY ArchiveItself
<1>b. NoSave.stage = "Preserve"
  BY NoSaveFields
<1>2. CASE Copy
  <2>1. /\ save'.stage = save.stage /\ save'.before = save.before
        /\ UNCHANGED <<live, messages, events, ui, worker, result, crossed, from>>
    BY <1>2, CopyEffect DEF CopyIs, SaveIs, threads, archive, inputs
  <2> QED  BY <1>a, <2>1, LinkFrame DEF Unstarted
<1>3. CASE WriteDocument
  <2>1. /\ save' = NoSave /\ UNCHANGED <<live, messages, events, ui, worker, crossed, from>>
        /\ save.by # Nobody
    BY <1>3, WriteEffect DEF WriteIs, ReturnIs, archive, inputs
  <2>2. CASE save.by \in {"ui", "worker"} /\ ResultIs(result', result, save.by, "ok")
    <3>1. result'["ui"] = "error" => result["ui"] = "error"
      BY <2>2 DEF ResultIs
    <3>2. worker = "accepting" => (result'["worker"] = "ok" <=> save.stage = "Accept" \/ result["worker"] = "ok")
      BY <2>2 DEF ResultIs, Threads
    <3> QED  BY <1>a, <1>b, <2>1, <3>1, <3>2, LinkFrame DEF Unstarted
  <2>3. CASE save.by \notin {"ui", "worker"} /\ result' = result
    <3>1. save.stage # "Accept"
      BY <2>3 DEF Threads
    <3> QED  BY <1>a, <1>b, <2>1, <2>3, <3>1, LinkFrame DEF Unstarted
  <2> QED  BY <1>3, <2>2, <2>3, WriteEffect DEF WriteIs, ReturnIs
<1>4. CASE SaveFails
  <2>1. FailIs
    BY <1>4, FailEffect
  <2>2. /\ save' = NoSave /\ UNCHANGED <<messages, ui, worker, crossed, from>> /\ save.by # Nobody
        /\ \/ save.by \in {"ui", "worker"} /\ ResultIs(result', result, save.by, "error")
           \/ save.by \notin {"ui", "worker"} /\ result' = result
    BY <2>1 DEF FailIs, ReturnIs, inputs
  <2>3. Begins(save.before.messages, live.messages) /\ Begins(save.before.events, live.events)
    BY <2>2 DEF SaveSound, DocBegins
  <2>4. CASE Withdrawn
    <3> SUFFICES ASSUME ~crossed
                 PROVE  LinkSound'
      BY <2>2 DEF LinkSound
    <3>1. /\ save.stage \in {"Begin", "Accept"} /\ events' = events
          /\ live'.messages = save.before.messages /\ live'.events = save.before.events
      BY <2>4 DEF Withdrawn, DocIs
    <3>2. Begins(live'.messages, messages') /\ Begins(live'.events, events')
      <4>1. Begins(live.messages, messages) /\ Begins(live.events, events)
        BY DEF LinkSound
      <4>2. Begins(save.before.messages, messages)
        BY <1>1, <2>3, <4>1, BeginsFurther
      <4>3. Begins(save.before.events, events)
        BY <1>1, <2>3, <4>1, BeginsFurther
      <4> QED  BY <2>2, <3>1, <4>2, <4>3
    <3>3. CASE save.stage = "Begin"
      <4>1. ui = "beginning" /\ worker = "idle"
        BY <3>3 DEF Threads
      <4>2. Unsaved(live)'
        BY <2>2, <3>1, <3>3 DEF LinkSound, Unsaved, Start
      <4> QED  BY <1>b, <2>2, <3>2, <4>1, <4>2 DEF LinkSound
    <3>4. CASE save.stage = "Accept"
      <4>1. worker = "accepting" /\ save.by = "worker"
        BY <3>4 DEF Threads
      <4>2. ~Unstarted'
        BY <2>2, <4>1 DEF Threads, Unstarted
      <4>3. result'["worker"] = "error"
        BY <2>2, <4>1 DEF ResultIs
      <4>4. Len(live'.messages) < Len(messages')
        BY <2>2, <3>1, <3>4 DEF LinkSound
      <4> QED  BY <1>b, <2>2, <3>2, <4>1, <4>2, <4>3, <4>4 DEF LinkSound
    <3> QED  BY <3>1, <3>3, <3>4
  <2>5. CASE Unnoted
    <3> SUFFICES ASSUME ~crossed
                 PROVE  LinkSound'
      BY <2>2 DEF LinkSound
    <3>1. /\ save.stage = "Preserve" /\ save.by = "receipt" /\ events' = WithoutReceipt
          /\ live'.messages = live.messages /\ live'.events = save.before.events
      BY <2>5 DEF Unnoted, DocIs
    <3>2. ReceiptSaved /\ result' = result
      BY <2>2, <3>1 DEF SaveSound
    <3>3. PICK pos \in 1..Len(events) : pos = Len(live.events) /\ pos = Len(save.before.events) + 1
      BY <1>1, <3>2 DEF ReceiptSaved
    <3>4. PICK at \in Nat : at = save.displaced
      BY SaveFields DEF Typed
    <3>5. at = 0 \/ at \in pos..Len(events)
      BY <3>2, <3>3, <3>4 DEF ReceiptSaved
    <3>6. PICK m \in Seq(HistoryEvent) : m = Unmoved(events, pos, at)
      BY <1>1, <3>5, UnmovedProperties
    <3>7. /\ Len(m) = IF at = 0 THEN Len(events) - 1 ELSE Len(events)
          /\ \A i \in 1..(pos - 1) : m[i] = events[i]
          /\ \A i \in (pos + 1)..Len(events) : \E j \in pos..Len(m) : m[j] = events[i]
      <4>1. /\ Len(Unmoved(events, pos, at)) = IF at = 0 THEN Len(events) - 1 ELSE Len(events)
            /\ \A i \in 1..(pos - 1) : Unmoved(events, pos, at)[i] = events[i]
            /\ \A i \in (pos + 1)..Len(events) :
                  \E j \in pos..Len(Unmoved(events, pos, at)) : Unmoved(events, pos, at)[j] = events[i]
        BY <1>1, <3>5, UnmovedProperties
      <4> QED  BY <3>6, <4>1
    <3>8. events' = m
      BY <3>1, <3>3, <3>4, <3>6 DEF WithoutReceipt, Unmoved
    <3>9. Begins(live.messages, messages) /\ Begins(live.events, events)
      BY DEF LinkSound
    <3>10. Begins(save.before.events, events)
      BY <1>1, <2>3, <3>9, BeginsFurther
    <3>11. Len(save.before.events) <= Len(m)
      BY <1>1, <3>3, <3>7
    <3>12. \A i \in 1..Len(save.before.events) : save.before.events[i] = m[i]
      BY <1>1, <3>3, <3>7, <3>10 DEF Begins
    <3>13. Begins(live'.events, events')
      BY <3>1, <3>8, <3>11, <3>12 DEF Begins
    <3>14. Unsaved(live) => Unsaved(live)'
      <4> SUFFICES ASSUME Unsaved(live)
                   PROVE  Unsaved(live)'
        OBVIOUS
      <4>1. PICK i \in 1..Len(events) : i > Len(live.events) /\ events[i] = Start
        BY DEF Unsaved
      <4>2. i \in (pos + 1)..Len(events)
        BY <1>1, <3>3, <4>1
      <4>3. PICK j \in pos..Len(m) : m[j] = events[i]
        BY <3>7, <4>2
      <4>4. j \in 1..Len(m) /\ j > Len(save.before.events)
        BY <1>1, <3>3
      <4>5. events'[j] = Start'
        BY <2>2, <3>8, <4>1, <4>3 DEF Start
      <4>6. Len(live'.messages) <= from'
        BY <2>2, <3>1 DEF Unsaved
      <4> QED  BY <3>1, <3>8, <4>4, <4>5, <4>6 DEF Unsaved
    <3>15. Unstarted' => Unstarted
      BY <2>2, <3>2 DEF Unstarted
    <3> QED  BY <1>b, <2>2, <3>1, <3>2, <3>9, <3>13, <3>14, <3>15 DEF LinkSound
  <2>6. CASE save.stage = "Preserve" /\ save.by # "receipt" /\ UNCHANGED <<live, last, events>>
    <3>1. ui = "beginning" => result' ["ui"] = result["ui"]
      BY <2>2, <2>6 DEF Threads, ResultIs
    <3>2. worker = "accepting" => result' ["worker"] = result["worker"]
      BY <2>2, <2>6 DEF Threads, ResultIs
    <3>3. Unstarted' => Unstarted /\ UNCHANGED <<from, events>>
      BY <2>2, <2>6, <3>1 DEF Unstarted
    <3> QED  BY <1>a, <1>b, <2>2, <2>6, <3>2, <3>3, LinkFrame
  <2> QED  BY <2>1, <2>4, <2>5, <2>6 DEF FailIs
<1> QED  BY <1>2, <1>3, <1>4 DEF Saving
\* A checkpoint of a history that is the document's goes through.
LEMMA LinkChecked ==
    ASSUME Typed, NEW by \in {"ui", "worker"}, NEW stage \in {"Preserve", "Begin", "Accept"},
           Checkpoint(by, stage), Begins(live.messages, messages), Begins(live.events, events)
    PROVE  /\ CheckpointTaken(by, stage)
           /\ live'.messages = messages /\ live'.events = events
           /\ save'.by = by /\ save'.stage = stage /\ save'.before = live
           /\ result' = result /\ result[by] = "none"
<1>1. /\ live.messages \in Seq(Message) /\ live.events \in Seq(HistoryEvent)
      /\ messages \in Seq(Message) /\ events \in Seq(HistoryEvent)
      /\ Len(messages) \in Nat /\ Len(events) \in Nat /\ Len(live.messages) \in Nat
      /\ Len(live.events) \in Nat
  BY Lengths
<1>2. ~Shrunk
  BY <1>1 DEF Shrunk, Begins
<1>3. CheckpointTaken(by, stage)
  BY <1>2, CheckpointEffect DEF CheckpointRefused
<1>4. Extended(live.messages, messages) = messages
  BY <1>1, ExtendedBeginning
<1>5. Extended(live.events, events) = events
  BY <1>1, ExtendedBeginning
<1> QED  BY <1>3, <1>4, <1>5 DEF CheckpointTaken, DocIs, SaveIs

\* A receipt moves the same events in the archive and in the document.
LEMMA OthersLink ==
    ASSUME Typed, Typed', Threads, TurnSound, LinkSound, Flush \/ AppendReceipt \/ Title
    PROVE  LinkSound'
<1>1. /\ live.messages \in Seq(Message) /\ live.events \in Seq(HistoryEvent)
      /\ messages \in Seq(Message) /\ events \in Seq(HistoryEvent)
      /\ Len(messages) \in Nat /\ Len(events) \in Nat /\ Len(live.events) \in Nat
      /\ Len(live.messages) \in Nat
  BY Lengths
<1>a. Begins(messages, messages) /\ Begins(events, events)
  BY ArchiveItself
<1>b. NoSave.stage = "Preserve" /\ NoSave.by = Nobody
  BY NoSaveFields
<1>2. CASE Flush
  <2>1. /\ save = NoSave /\ save'.stage = "Preserve"
        /\ UNCHANGED <<live, messages, events, ui, worker, result, crossed, from>>
    BY <1>2, FlushEffect DEF FlushIs, SaveIs, archive, inputs
  <2> QED  BY <1>a, <1>b, <2>1, LinkFrame DEF Unstarted
<1>3. CASE AppendReceipt
  <2>1. AppendReceiptIs
    BY <1>3, AppendReceiptEffect
  <2>2. /\ save = NoSave /\ Len(live.events) <= Len(events)
        /\ UNCHANGED <<messages, ui, worker, result, crossed, from>>
    BY <2>1 DEF AppendReceiptIs, inputs
  <2>3. CASE UNCHANGED <<events, live, dirty, save>>
    BY <1>a, <2>2, <2>3, LinkFrame DEF Unstarted
  <2>4. ASSUME NEW at \in 0..Len(events), NoteIs(at)
        PROVE  LinkSound'
    <3> SUFFICES ASSUME ~crossed
                 PROVE  LinkSound'
      BY <2>2 DEF LinkSound
    <3>1. PICK event \in HistoryEvent : event = Receipt(Len(live.messages))
      <4>1. Len(live.messages) \in 0..MaxMessages
        BY Lengths, TypedParts DEF HandleFine
      <4> QED  BY <4>1, ReceiptIsEvent
    <3>2. /\ events' = Moved(events, at, Len(live.events) + 1, event)
          /\ live'.messages = live.messages /\ live'.events = Append(live.events, event)
          /\ save'.stage = "Preserve"
      BY <2>4, <3>1 DEF NoteIs, DocIs, SaveIs
    <3>3. at = 0 \/ (Len(live.events) < at /\ events[at].kind = "receipt")
      BY <2>4 DEF NoteIs, Noted
    <3>4. PICK pos \in 1..(Len(events) + 1) : pos = Len(live.events) + 1
      BY <1>1, <2>2
    <3>5. at = 0 \/ pos <= at
      BY <1>1, <3>3, <3>4
    <3>6. PICK m \in Seq(HistoryEvent) : m = Moved(events, at, pos, event)
      BY <1>1, <3>5, MovedProperties
    <3>7. /\ Len(m) = IF at = 0 THEN Len(events) + 1 ELSE Len(events)
          /\ \A i \in 1..(pos - 1) : m[i] = events[i]
          /\ m[pos] = event
          /\ \A i \in pos..Len(events) : i # at => \E j \in (pos + 1)..Len(m) : m[j] = events[i]
      <4>1. /\ Len(Moved(events, at, pos, event)) = IF at = 0 THEN Len(events) + 1 ELSE Len(events)
            /\ Moved(events, at, pos, event)[pos] = event
        BY <1>1, <3>5, MovedProperties
      <4>2. \A i \in 1..(pos - 1) : Moved(events, at, pos, event)[i] = events[i]
        BY <1>1, <3>5, MovedProperties
      <4>3. \A i \in pos..Len(events) : i # at =>
                \E j \in (pos + 1)..Len(Moved(events, at, pos, event)) :
                    Moved(events, at, pos, event)[j] = events[i]
        <5> SUFFICES ASSUME NEW i \in pos..Len(events), i # at
                     PROVE  \E j \in (pos + 1)..Len(Moved(events, at, pos, event)) :
                                Moved(events, at, pos, event)[j] = events[i]
          OBVIOUS
        <5>1. PICK es \in Seq(HistoryEvent) : es = events
          BY <1>1
        <5>2. PICK k \in 0..Len(es) : k = at
          BY <5>1
        <5>3. PICK p \in 1..(Len(es) + 1) : p = pos
          BY <5>1
        <5>4. k = 0 \/ p <= k
          BY <3>5, <5>2, <5>3
        <5>5. i \in p..Len(es) /\ i # k
          BY <5>1, <5>2, <5>3
        <5>6. \E j \in (p + 1)..Len(Moved(es, k, p, event)) : Moved(es, k, p, event)[j] = es[i]
          BY <5>4, <5>5, MovedProperties
        <5> QED  BY <5>1, <5>2, <5>3, <5>6
      <4> QED  BY <3>6, <4>1, <4>2, <4>3
    <3>8. events' = m
      BY <3>2, <3>4, <3>6
    <3>9. Begins(live.messages, messages) /\ Begins(live.events, events)
      BY DEF LinkSound
    <3>10. /\ Len(live'.events) = pos /\ live'.events[pos] = event
           /\ \A i \in 1..(pos - 1) : live'.events[i] = live.events[i]
      <4>1. /\ Len(Append(live.events, event)) = Len(live.events) + 1
            /\ \A i \in 1..Len(live.events) : Append(live.events, event)[i] = live.events[i]
            /\ Append(live.events, event)[Len(live.events) + 1] = event
        BY <1>1, AppendedProperties
      <4>2. pos - 1 = Len(live.events)
        BY <1>1, <3>4
      <4> QED  BY <3>2, <3>4, <4>1, <4>2
    <3>11. pos <= Len(m)
      BY <1>1, <3>3, <3>4, <3>7
    <3>12. \A i \in 1..pos : live'.events[i] = m[i]
      <4>1. \A i \in 1..(pos - 1) : live.events[i] = events[i]
        BY <1>1, <3>4, <3>9 DEF Begins
      <4>2. \A i \in 1..pos : i = pos \/ i \in 1..(pos - 1)
        OBVIOUS
      <4> QED  BY <3>7, <3>10, <4>1, <4>2
    <3>13. Begins(live'.events, events')
      BY <3>8, <3>10, <3>11, <3>12 DEF Begins
    <3>14. Unsaved(live) => Unsaved(live)'
      <4> SUFFICES ASSUME Unsaved(live)
                   PROVE  Unsaved(live)'
        OBVIOUS
      <4>1. PICK i \in 1..Len(events) : i > Len(live.events) /\ events[i] = Start
        BY DEF Unsaved
      <4>2. i \in pos..Len(events)
        BY <1>1, <3>4, <4>1
      <4>3. i # at
        <5>1. Start.kind # "receipt"
          BY StartIs
        <5>2. i # 0
          OBVIOUS
        <5> QED  BY <3>3, <4>1, <5>1, <5>2
      <4>4. PICK j \in (pos + 1)..Len(m) : m[j] = events[i]
        BY <3>7, <4>2, <4>3
      <4>5. j \in 1..Len(m) /\ j > Len(live'.events)
        BY <3>10
      <4>6. events'[j] = Start'
        BY <2>2, <3>8, <4>1, <4>4 DEF Start
      <4>7. Len(live'.messages) <= from'
        BY <2>2, <3>2 DEF Unsaved
      <4> QED  BY <3>8, <4>5, <4>6, <4>7 DEF Unsaved
    <3>15. Unstarted' => Unstarted
      BY <2>2 DEF Unstarted
    <3> QED  BY <1>b, <2>2, <3>2, <3>9, <3>13, <3>14, <3>15 DEF LinkSound
  <2> QED  BY <2>1, <2>3, <2>4 DEF AppendReceiptIs
<1>4. CASE Title
  <2>1. TitleIs
    BY <1>4, TitleEffect
  <2>2. /\ save = NoSave /\ save'.stage = "Preserve"
        /\ UNCHANGED <<messages, ui, worker, result, from>>
    BY <2>1 DEF TitleIs, SaveIs, inputs
  <2>3. crossed => crossed'
    BY <2>1 DEF TitleIs
  <2> SUFFICES ASSUME ~crossed'
               PROVE  LinkSound'
    BY DEF LinkSound
  <2>4. Begins(live.messages, messages) /\ Begins(live.events, events)
    BY <2>3 DEF LinkSound
  <2>5. /\ live'.messages = messages /\ live'.events = events' /\ live' \in Document
        /\ ~NewPrompt /\ ~NewStart
    BY <2>1, <2>4 DEF TitleIs, DocIs
  <2>6. events' \in Seq(HistoryEvent)
    BY NextTypedParts DEF ArchiveFine
  <2>7. Begins(events', events')
    BY <2>6, BeginsItself
  <2>8. Len(live.messages) < Len(messages) => ~Preparing
    BY <1>1, <2>5 DEF NewPrompt
  <2>9. ~Unstarted
    <3> SUFFICES ASSUME Unstarted
                 PROVE  FALSE
      OBVIOUS
    <3>1. PICK i \in 1..Len(events) : i > Len(live.events) /\ events[i] = Start
      BY <2>3 DEF LinkSound, Unsaved
    <3>2. i \in DOMAIN events
      BY <1>1, LenProperties
    <3>3. NewStart
      BY <3>1, <3>2 DEF NewStart, Unstarted
    <3> QED  BY <2>5, <3>3
  <2>10. worker = "accepting" => result["worker"] = "ok"
    BY <1>b, <2>2, <2>3, <2>8 DEF LinkSound, Preparing
  <2>11. ~Unstarted'
    BY <2>2, <2>9 DEF Unstarted
  <2> QED  BY <1>a, <1>b, <2>2, <2>5, <2>7, <2>10, <2>11 DEF LinkSound
<1> QED  BY <1>2, <1>3, <1>4
\* A capture leaves the history and the save's place.
LEMMA CaptureHistory ==
    ASSUME Typed, NEW draft, NEW queue, draft \subseteq Prompt, queue \subseteq Prompt,
           CapturedInto(draft, queue)
    PROVE  /\ live'.messages = live.messages /\ live'.events = live.events
           /\ save'.by = save.by /\ save'.stage = save.stage /\ save'.before = save.before
<1>1. CaptureIs(draft, queue)
  BY CaptureSaver
<1> QED  BY <1>1 DEF CaptureIs

\* A turn that is sent is ahead of the document.
LEMMA UserLink ==
    ASSUME Typed, Typed', Threads, TurnSound, LinkSound, User
    PROVE  LinkSound'
<1>0. /\ composer \subseteq Prompt /\ paused \subseteq Prompt /\ queued \subseteq Prompt
  BY InputSets
<1>a. Begins(messages, messages) /\ Begins(events, events)
  BY ArchiveItself
<1>1. ASSUME NEW p \in Prompt, Type(p)
      PROVE  LinkSound'
  <2>1. /\ CapturedInto(composer' \cup paused, queued) /\ composer' \subseteq Prompt
        /\ UNCHANGED <<messages, events, from, ui, worker, result, crossed>>
    BY <1>0, <1>1 DEF Type, Captures, archive, threads
  <2>2. /\ live'.messages = live.messages /\ live'.events = live.events
        /\ save'.stage = save.stage /\ save'.before = save.before
    BY <1>0, <2>1, CaptureHistory
  <2> QED  BY <1>a, <2>1, <2>2, LinkFrame DEF Unstarted
<1>2. CASE Queue \/ TakeBack
  <2>1. /\ UNCHANGED <<live, save, messages, events, from, worker, result, crossed>>
        /\ ui' = "capture"
    BY <1>2 DEF Queue, TakeBack, handle, archive
  <2> QED  BY <1>a, <2>1, LinkFrame DEF Unstarted
<1>3. CASE Send
  <2> SUFFICES ASSUME ~crossed
               PROVE  LinkSound'
    BY <1>3 DEF LinkSound, Send
  <2>1. /\ CapturedInto(composer' \cup paused, queued')
        /\ composer' \subseteq Prompt /\ queued' \subseteq Prompt
        /\ ui = "loop" /\ worker = "idle" /\ from' = Len(messages)
        /\ events' = Append(events, Start') /\ messages' = messages
        /\ ui' = "starting" /\ worker' = "idle"
    BY <1>0, <1>3 DEF Send, Captures
  <2>2. /\ live'.messages = live.messages /\ live'.events = live.events
        /\ save'.stage = save.stage /\ save'.before = save.before
    BY <1>0, <2>1, CaptureHistory
  <2>3. save.stage # "Begin" /\ save.stage # "Accept"
    BY <2>1 DEF Threads
  <2>4. /\ live.messages \in Seq(Message) /\ live.events \in Seq(HistoryEvent)
        /\ messages \in Seq(Message) /\ events \in Seq(HistoryEvent)
        /\ Len(messages) \in Nat /\ Len(events) \in Nat
        /\ Len(live.messages) \in Nat /\ Len(live.events) \in Nat
    BY Lengths
  <2>5. Begins(live.messages, messages) /\ Begins(live.events, events)
    BY DEF LinkSound
  <2>6. PICK e \in HistoryEvent : e = Start'
    <3>1. Len(messages) \in 0..MaxMessages
      BY Lengths, TypedParts DEF ArchiveFine
    <3> QED  BY <2>1, <3>1 DEF Start, HistoryEvent
  <2>7. Begins(live'.messages, messages')
    BY <2>1, <2>2, <2>5
  <2>8. Begins(live'.events, events')
    BY <2>1, <2>2, <2>4, <2>5, <2>6, BothAppended
  <2>9. /\ Len(events') = Len(events) + 1 /\ events'[Len(events) + 1] = Start'
    BY <2>1, <2>4, <2>6, AppendedProperties
  <2>10. Len(events) + 1 \in 1..Len(events') /\ Len(events) + 1 > Len(live'.events)
    BY <2>2, <2>4, <2>5, <2>9 DEF Begins
  <2>11. Len(live'.messages) <= from'
    BY <2>1, <2>2, <2>5 DEF Begins
  <2>12. Unsaved(live)'
    BY <2>9, <2>10, <2>11 DEF Unsaved
  <2> QED  BY <2>1, <2>2, <2>3, <2>7, <2>8, <2>12 DEF LinkSound
<1> QED  BY <1>1, <1>2, <1>3 DEF User

\* A prepared turn that failed is withdrawn from the archive alone.
LEMMA InterfaceLink ==
    ASSUME Typed, Typed', Threads, TurnSound, LinkSound, Interface
    PROVE  LinkSound'
<1>0. /\ composer \subseteq Prompt /\ paused \subseteq Prompt /\ queued \subseteq Prompt
      /\ sending \subseteq Prompt /\ submission \subseteq Prompt /\ unshown \subseteq Prompt
  BY InputSets
<1>a. Begins(messages, messages) /\ Begins(events, events)
  BY ArchiveItself
<1>b. /\ live.messages \in Seq(Message) /\ live.events \in Seq(HistoryEvent)
      /\ messages \in Seq(Message) /\ events \in Seq(HistoryEvent)
      /\ Len(messages) \in Nat /\ Len(events) \in Nat
      /\ Len(live.messages) \in Nat /\ Len(live.events) \in Nat /\ from \in Nat
  BY Lengths, TurnLengths
<1>1. CASE CaptureInput \/ Show
  <2>1. /\ CapturedInto(composer \cup paused, queued)
        /\ UNCHANGED <<messages, events, from, worker, result, crossed>>
        /\ ui' = "loop"
    BY <1>1 DEF CaptureInput, Show, Captures, archive, threads
  <2>2. /\ live'.messages = live.messages /\ live'.events = live.events
        /\ save'.stage = save.stage /\ save'.before = save.before
    BY <1>0, <2>1, CaptureHistory
  <2> QED  BY <1>a, <2>1, <2>2, LinkFrame DEF Unstarted
<1>2. CASE BeginCheckpoint
  <2> SUFFICES ASSUME ~crossed
               PROVE  LinkSound'
    BY <1>2 DEF LinkSound, BeginCheckpoint
  <2>1. /\ Checkpoint("ui", "Begin") /\ ui = "begin" /\ ui' = "beginning"
        /\ UNCHANGED <<messages, events, from, worker, crossed>>
    BY <1>2 DEF BeginCheckpoint, inputs, archive
  <2>2. Begins(live.messages, messages) /\ Begins(live.events, events) /\ Unsaved(live)
    BY <2>1 DEF LinkSound, Unstarted
  <2>3. /\ live'.messages = messages /\ live'.events = events
        /\ save'.stage = "Begin" /\ save'.before = live
        /\ result' = result /\ result["ui"] = "none"
    BY <2>1, <2>2, LinkChecked
  <2>4. worker' = "idle"
    BY <2>1 DEF Threads
  <2>5. Unsaved(save.before)'
    BY <2>1, <2>2, <2>3 DEF Unsaved, Start
  <2> QED  BY <1>a, <2>1, <2>3, <2>4, <2>5 DEF LinkSound, Unstarted
<1>3. CASE ReturnCheckpoint
  <2> SUFFICES ASSUME ~crossed
               PROVE  LinkSound'
    BY <1>3 DEF LinkSound, ReturnCheckpoint
  <2>1. /\ Checkpoint("ui", "Preserve") /\ ui = "returned" /\ ui' = "returning"
        /\ UNCHANGED <<messages, events, from, worker, crossed>>
    BY <1>3 DEF ReturnCheckpoint, inputs, archive
  <2>2. Begins(live.messages, messages) /\ Begins(live.events, events)
    BY DEF LinkSound
  <2>3. live'.messages = messages /\ live'.events = events /\ save'.stage = "Preserve"
    BY <2>1, <2>2, LinkChecked
  <2>4. worker' = "idle"
    BY <2>1 DEF Threads
  <2> QED  BY <1>a, <2>1, <2>3, <2>4 DEF LinkSound, Unstarted
<1>4. CASE Begun
  <2>1. /\ CapturedInto(composer \cup paused, queued) /\ TakesResult("ui", "ok")
        /\ UNCHANGED <<messages, events, from, crossed>>
        /\ ui = "beginning" /\ ui' = "loop" /\ worker' = "asking"
    BY <1>4 DEF Begun, archive
  <2>2. /\ live'.messages = live.messages /\ live'.events = live.events
        /\ save'.stage = save.stage /\ save'.before = save.before
    BY <1>0, <2>1, CaptureHistory
  <2> QED  BY <1>a, <2>1, <2>2, LinkFrame DEF Unstarted
<1>5. CASE NotBegun
  <2> SUFFICES ASSUME ~crossed
               PROVE  LinkSound'
    BY <1>5 DEF LinkSound, NotBegun
  <2>1. /\ TakesResult("ui", "error") /\ messages' = SubSeq(messages, 1, from)
        /\ UNCHANGED <<live, save, events, from, worker>>
        /\ ui = "beginning" /\ ui' = "withdrawing"
    BY <1>5 DEF NotBegun, inputs
  <2>2. result["ui"] = "error"
    BY <2>1, TakesFine
  <2>3. worker = "idle" /\ save.stage # "Begin" /\ save.stage # "Accept"
    BY <2>1, <2>2 DEF Threads
  <2>4. Begins(live.messages, messages) /\ Begins(live.events, events) /\ Unsaved(live)
    BY <2>1, <2>2 DEF LinkSound, Unstarted
  <2>5. Len(messages) = from + 1
    BY <2>1 DEF TurnSound, Beginning
  <2>6. from \in 0..Len(messages)
    BY <1>b, <2>5
  <2>7. Len(messages') = from /\ \A i \in 1..from : messages'[i] = messages[i]
    BY <1>b, <2>1, <2>6, CutProperties
  <2>8. Begins(live'.messages, messages')
    BY <1>b, <2>1, <2>4, <2>7 DEF Begins, Unsaved
  <2>9. Unsaved(live)'
    BY <2>1, <2>4 DEF Unsaved, Start
  <2> QED  BY <2>1, <2>3, <2>4, <2>8, <2>9 DEF LinkSound
<1>6. CASE Finished
  <2>1. /\ UNCHANGED <<live, save, messages, events, from, result, crossed>>
        /\ ui' = "loop" /\ worker' = "idle"
    BY <1>6 DEF Finished, handle, archive
  <2> QED  BY <1>a, <2>1, LinkFrame DEF Unstarted
<1>7. CASE Paused
  <2>1. /\ CapturedInto(composer' \cup paused', {})
        /\ composer' \subseteq Prompt /\ paused' \subseteq Prompt
        /\ UNCHANGED <<messages, events, from, result, crossed>>
        /\ ui' = "loop" /\ worker' = "idle"
    BY <1>0, <1>7 DEF Paused, Captures, archive
  <2>2. /\ live'.messages = live.messages /\ live'.events = live.events
        /\ save'.stage = save.stage /\ save'.before = save.before
    BY <2>1, CaptureHistory
  <2> QED  BY <1>a, <2>1, <2>2, LinkFrame DEF Unstarted
<1>8. CASE Returned
  <2>1. /\ CapturedInto(composer' \cup paused', {})
        /\ composer' \subseteq Prompt /\ paused' \subseteq Prompt
        /\ events' = Append(events, [kind |-> "returned", after |-> Len(messages)])
        /\ UNCHANGED <<messages, from, result, crossed>>
        /\ ui = "loop" /\ ui' = "returned" /\ worker' = "idle"
    BY <1>0, <1>8 DEF Returned, ReturnedPrompts, Captures
  <2>2. /\ live'.messages = live.messages /\ live'.events = live.events
        /\ save'.stage = save.stage /\ save'.before = save.before
    BY <2>1, CaptureHistory
  <2>3. PICK e \in HistoryEvent : e = [kind |-> "returned", after |-> Len(messages)]
    <3>1. Len(messages) \in 0..MaxMessages
      BY Lengths, TypedParts DEF ArchiveFine
    <3> QED  BY <3>1 DEF HistoryEvent
  <2>4. Begins(events, events')
    BY <1>b, <2>1, <2>3, AppendedProperties
  <2>5. save.stage # "Begin"
    BY <2>1 DEF Threads
  <2> QED  BY <1>a, <2>1, <2>2, <2>4, <2>5, LinkFrame DEF Unstarted
<1>9. CASE ReturnSaved
  <2>1. /\ UNCHANGED <<live, save, messages, events, from, worker, crossed>>
        /\ ui' = "loop" /\ ui = "returning"
    BY <1>9 DEF ReturnSaved, inputs, archive
  <2>2. worker = "idle"
    BY <2>1 DEF Threads
  <2> QED  BY <1>a, <2>1, <2>2, LinkFrame DEF Unstarted
<1>10. CASE PushPrompt
  <2>1. /\ messages' = Append(messages, sending) /\ ui = "starting" /\ ui' = "begin"
        /\ UNCHANGED <<live, save, result, events, from, worker, crossed>>
    BY <1>10 DEF PushPrompt, handle, inputs
  <2>2. PICK m \in Message : m = sending
    BY <1>0 DEF Message
  <2>3. Begins(messages, messages')
    BY <1>b, <2>1, <2>2, AppendedProperties
  <2>4. worker = "idle"
    BY <2>1 DEF Threads
  <2> QED  BY <1>a, <2>1, <2>3, <2>4, LinkFrame DEF Unstarted
<1>11. CASE Withdraw
  <2> SUFFICES ASSUME ~crossed
               PROVE  LinkSound'
    BY <1>11 DEF LinkSound, Withdraw
  <2>1. /\ CapturedInto(composer' \cup paused', {})
        /\ composer' \subseteq Prompt /\ paused' \subseteq Prompt
        /\ events' = WithoutStart /\ UNCHANGED <<messages, worker>>
        /\ ui = "withdrawing" /\ ui' = "loop"
    BY <1>0, <1>11 DEF Withdraw, Captures
  <2>2. /\ live'.messages = live.messages /\ live'.events = live.events
        /\ save'.stage = save.stage
    BY <2>1, CaptureHistory
  <2>3. worker = "idle" /\ save.stage # "Begin" /\ save.stage # "Accept"
    BY <2>1 DEF Threads
  <2>4. Begins(live.messages, messages) /\ Begins(live.events, events) /\ Unsaved(live)
    BY <2>1 DEF LinkSound, Unstarted
  <2>5. ~Unstarted'
    BY <2>1 DEF Unstarted
  <2>6. Begins(live'.messages, messages')
    BY <2>1, <2>2, <2>4
  <2>7. PICK i \in 1..Len(events) : i > Len(live.events) /\ events[i] = Start
    BY <2>4 DEF Unsaved
  <2>8. Begins(live'.events, events')
    <3>1. StartGone
      BY <2>1, WithoutStartEffect
    <3>2. PICK k \in 1..Len(events) : events' = RemoveAt(events, k) /\ i <= k
      BY <2>7, <3>1 DEF StartGone
    <3>3. /\ Len(RemoveAt(events, k)) = Len(events) - 1
          /\ \A j \in 1..(k - 1) : RemoveAt(events, k)[j] = events[j]
      BY <1>b, RemovedProperties
    <3>4. Len(live.events) <= k - 1 /\ k - 1 <= Len(events) - 1
      BY <1>b, <2>7, <3>2
    <3>5. \A j \in 1..Len(live.events) : j \in 1..(k - 1)
      BY <1>b, <3>4
    <3>6. Len(live.events) <= Len(events')
      BY <1>b, <3>2, <3>3, <3>4
    <3>7. \A j \in 1..Len(live.events) : live.events[j] = events'[j]
      BY <2>4, <3>2, <3>3, <3>5 DEF Begins
    <3> QED  BY <2>2, <3>6, <3>7 DEF Begins
  <2> QED  BY <2>1, <2>2, <2>3, <2>5, <2>6, <2>8 DEF LinkSound
<1> QED  BY <1>1, <1>2, <1>3, <1>4, <1>5, <1>6, <1>7, <1>8, <1>9, <1>10, <1>11 DEF Interface

\* An accepted prompt reaches the document with its save.
LEMMA WorkerLink ==
    ASSUME Typed, Typed', Threads, TurnSound, LinkSound, Worker
    PROVE  LinkSound'
<1>a. Begins(messages, messages) /\ Begins(events, events)
  BY ArchiveItself
<1>b. /\ live.messages \in Seq(Message) /\ live.events \in Seq(HistoryEvent)
      /\ messages \in Seq(Message) /\ events \in Seq(HistoryEvent)
      /\ Len(messages) \in Nat /\ Len(events) \in Nat
      /\ Len(live.messages) \in Nat /\ Len(live.events) \in Nat
      /\ (worker = "accepting" => Len(messages) \in Nat \ {0})
  BY Lengths, TurnLengths
<1>c. worker # "idle" => ui \in {"loop", "capture"} /\ save.stage # "Begin"
  BY DEF Threads
<1>1. CASE Accept
  <2> SUFFICES ASSUME ~crossed
               PROVE  LinkSound'
    BY <1>1 DEF LinkSound, Accept
  <2>1. /\ worker = "asking" /\ worker' = "accepting" /\ messages' = Append(messages, Deliverable)
        /\ UNCHANGED <<live, save, result, ui, events>>
    BY <1>1 DEF Accept, handle
  <2>2. PICK m \in Message : m = Deliverable
    BY InputSets DEF Message, Deliverable
  <2>3. save.stage # "Accept" /\ result["worker"] = "none"
    BY <2>1 DEF Threads
  <2>4. Begins(live.messages, messages) /\ Begins(live.events, events)
    BY DEF LinkSound
  <2>5. Begins(live'.messages, messages')
    BY <1>b, <2>1, <2>2, <2>4, BothAppended
  <2>6. Len(messages') = Len(messages) + 1
    BY <1>b, <2>1, <2>2, AppendedProperties
  <2>7. Len(live'.messages) < Len(messages')
    BY <1>b, <2>1, <2>4, <2>6 DEF Begins
  <2> QED  BY <1>c, <2>1, <2>3, <2>4, <2>5, <2>7 DEF LinkSound, Unstarted
<1>2. CASE AcceptCheckpoint
  <2> SUFFICES ASSUME ~crossed
               PROVE  LinkSound'
    BY <1>2 DEF LinkSound, AcceptCheckpoint
  <2>1. /\ Checkpoint("worker", "Accept") /\ worker = "accepting"
        /\ UNCHANGED <<messages, events, worker, ui>>
    BY <1>2 DEF AcceptCheckpoint, archive, threads
  <2>2. Begins(live.messages, messages) /\ Begins(live.events, events)
    BY DEF LinkSound
  <2>3. /\ live'.messages = messages /\ live'.events = events
        /\ save'.stage = "Accept" /\ save'.before = live
        /\ result' = result /\ result["worker"] = "none"
    BY <2>1, <2>2, LinkChecked
  <2>4. save.stage # "Accept"
    BY <2>1, NoSaveFields DEF Checkpoint
  <2>5. Len(live.messages) < Len(messages)
    BY <2>1, <2>3, <2>4 DEF LinkSound
  <2> QED  BY <1>a, <1>c, <2>1, <2>3, <2>5 DEF LinkSound, Unstarted
<1>3. CASE Accepted \/ Ask \/ Stop \/ Answered \/ Ended
  <2>1. /\ UNCHANGED <<live, save, messages, events, from, ui, crossed>>
        /\ worker' # "accepting" /\ worker # "idle"
    BY <1>3 DEF Accepted, Ask, Stop, Answered, Ended, handle, archive, inputs
  <2>2. save.stage = "Accept" => worker = "accepting"
    BY DEF Threads
  <2> QED  BY <1>a, <1>c, <2>1, LinkFrame DEF Unstarted
<1>4. CASE NotAccepted
  <2> SUFFICES ASSUME ~crossed
               PROVE  LinkSound'
    BY <1>4 DEF LinkSound, NotAccepted
  <2>1. /\ worker = "accepting" /\ worker' = "ending" /\ TakesResult("worker", "error")
        /\ messages' = SubSeq(messages, 1, Len(messages) - 1)
        /\ UNCHANGED <<live, save, ui, events>>
    BY <1>4 DEF NotAccepted
  <2>2. result["worker"] = "error"
    BY <2>1, TakesFine
  <2>3. save.stage # "Accept"
    BY <2>1, <2>2 DEF Threads
  <2>4. Begins(live.messages, messages) /\ Begins(live.events, events)
        /\ Len(live.messages) < Len(messages)
    BY <2>1, <2>2, <2>3 DEF LinkSound
  <2>5. PICK n \in 0..Len(messages) : n = Len(messages) - 1
    BY <1>b, <2>1
  <2>6. Len(messages') = n /\ \A i \in 1..n : messages'[i] = messages[i]
    BY <1>b, <2>1, <2>5, CutProperties
  <2>7. Begins(live'.messages, messages')
    BY <1>b, <2>1, <2>4, <2>5, <2>6 DEF Begins
  <2> QED  BY <1>c, <2>1, <2>3, <2>4, <2>7 DEF LinkSound, Unstarted
<1>5. CASE Completion
  <2>1. /\ worker = "sampling" /\ worker' = "answering" /\ messages' = Append(messages, NoPrompts)
        /\ UNCHANGED <<live, save, result, from, ui, events, crossed>>
    BY <1>5 DEF Completion, handle, inputs
  <2>2. PICK m \in Message : m = NoPrompts
    BY DEF Message, NoPrompts
  <2>3. Begins(messages, messages')
    BY <1>b, <2>1, <2>2, AppendedProperties
  <2> QED  BY <1>a, <1>c, <2>1, <2>3, LinkFrame DEF Unstarted
<1>6. CASE KnowsCompletion
  <2>1. /\ worker = "sampling" /\ worker' = worker /\ events' = Append(events, Receipt(Len(messages)))
        /\ UNCHANGED <<live, save, result, from, ui, messages, crossed>>
    BY <1>6 DEF KnowsCompletion, handle, inputs, threads
  <2>2. PICK e \in HistoryEvent : e = Receipt(Len(messages))
    <3>1. Len(messages) \in 0..MaxMessages
      BY Lengths, TypedParts DEF ArchiveFine
    <3> QED  BY <3>1, ReceiptIsEvent
  <2>3. Begins(events, events')
    BY <1>b, <2>1, <2>2, AppendedProperties
  <2> QED  BY <1>a, <1>c, <2>1, <2>3, LinkFrame DEF Unstarted
<1>7. CASE WorkerCheckpoint
  <2> SUFFICES ASSUME ~crossed
               PROVE  LinkSound'
    BY <1>7 DEF LinkSound, WorkerCheckpoint
  <2>1. /\ Checkpoint("worker", "Preserve") /\ worker \in {"answering", "ending"}
        /\ UNCHANGED <<messages, events, worker, ui>>
    BY <1>7 DEF WorkerCheckpoint, archive, threads
  <2>2. Begins(live.messages, messages) /\ Begins(live.events, events)
    BY DEF LinkSound
  <2>3. live'.messages = messages /\ live'.events = events /\ save'.stage = "Preserve"
    BY <2>1, <2>2, LinkChecked
  <2> QED  BY <1>a, <1>c, <2>1, <2>3 DEF LinkSound, Unstarted
<1> QED  BY <1>1, <1>2, <1>3, <1>4, <1>5, <1>6, <1>7 DEF Worker
-----------------------------------------------------------------------------
(* Each step keeps StaysValid.                                             *)

Within(es, n) == \A i \in 1..Len(es) : es[i].after <= n

\* Valid, event by event.
LEMMA ValidIs ==
    ASSUME NEW d \in Document
    PROVE  Valid(d) <=> Within(d.events, Len(d.messages))
<1>1. d.events \in Seq(HistoryEvent)
  BY DocFields
<1>2. DOMAIN d.events = 1..Len(d.events)
  BY <1>1, LenProperties
<1> QED  BY <1>2 DEF Valid, Within

\* The same in the next state.
LEMMA NextValidIs ==
    ASSUME live' \in Document
    PROVE  Valid(live)' <=> Within(live'.events, Len(live'.messages))
<1>1. PICK d \in Document : d = live'
  OBVIOUS
<1> QED  BY <1>1, ValidIs DEF Valid

\* A beginning of valid events is valid.
LEMMA WithinBeginning ==
    ASSUME NEW es \in Seq(HistoryEvent), NEW ks \in Seq(HistoryEvent), Begins(ks, es),
           NEW n, Within(es, n)
    PROVE  Within(ks, n)
<1>1. Len(ks) \in Nat /\ Len(es) \in Nat
  BY LenProperties
<1> QED  BY <1>1 DEF Begins, Within

\* An event within the history keeps it valid.
LEMMA WithinAppended ==
    ASSUME NEW es \in Seq(HistoryEvent), NEW e \in HistoryEvent, NEW n, Within(es, n), e.after <= n
    PROVE  Within(Append(es, e), n)
<1>1. Len(es) \in Nat
  BY LenProperties
<1>2. /\ Len(Append(es, e)) = Len(es) + 1
      /\ \A i \in 1..Len(es) : Append(es, e)[i] = es[i]
      /\ Append(es, e)[Len(es) + 1] = e
  BY AppendedProperties
<1>3. \A i \in 1..(Len(es) + 1) : i \in 1..Len(es) \/ i = Len(es) + 1
  BY <1>1
<1> QED  BY <1>2, <1>3 DEF Within

\* More history keeps events valid.
LEMMA WithinMore ==
    ASSUME NEW es \in Seq(HistoryEvent), NEW m \in Nat, NEW n \in Nat, m <= n, Within(es, m)
    PROVE  Within(es, n)
<1>1. \A i \in 1..Len(es) : es[i].after \in Nat
  <2>1. \A i \in 1..Len(es) : es[i] \in HistoryEvent
    BY ElementOfSeq
  <2> QED  BY <2>1, BoundsAssumption DEF HistoryEvent
<1> QED  BY <1>1 DEF Within

\* Every event of the archive is about messages no withdrawal takes back.
Standing == \A i \in 1..Len(events) :
                events[i].after <= Floor \/ events[i].after <= Len(Base.messages)

\* The messages that stay are some of the archive's.
LEMMA Floors ==
    ASSUME Typed, TurnSound
    PROVE  Floor \in Nat /\ Floor <= Len(messages) /\ Len(Base.messages) \in Nat
<1>1. /\ Len(messages) \in Nat /\ from \in Nat /\ Settled \in Nat /\ Settled <= Len(messages)
      /\ Len(live.messages) \in Nat /\ Len(save.before.messages) \in Nat
  BY TurnLengths, Lengths
<1>2. Beginning => Len(messages) = from + 1
  BY DEF TurnSound
<1> QED  BY <1>1, <1>2 DEF Floor, Base

\* The events stay, or some go, and both bounds stay or grow.
LEMMA StandingStep ==
    ASSUME Typed, Typed', TurnSound, TurnSound', StaysValid, Floor <= Floor',
           Len(Base.messages) <= Len(Base'.messages),
           \A i \in 1..Len(events') :
               \/ \E j \in 1..Len(events) : events'[i] = events[j]
               \/ events'[i].after <= Floor' \/ events'[i].after <= Len(Base'.messages)
    PROVE  Standing'
<1>1. Floor \in Nat /\ Len(Base.messages) \in Nat
  BY Floors
<1>2. Floor' \in Nat /\ Len(Base'.messages) \in Nat
  <2>1. /\ Len(messages') \in Nat /\ from' \in Nat
        /\ Len(live'.messages) \in Nat /\ Len(save'.before.messages) \in Nat
    <3>1. messages' \in Seq(Message) /\ live' \in Document /\ save' \in SaveState
          /\ from' \in 0..MaxMessages
      BY NextTypedParts DEF ArchiveFine, HandleFine, InputsFine
    <3>2. save'.before \in Document
      BY <3>1, SaveFields
    <3>3. live'.messages \in Seq(Message) /\ save'.before.messages \in Seq(Message)
      BY <3>1, <3>2, DocFields
    <3> QED  BY <3>1, <3>3, LenProperties, BoundsAssumption
  <2>2. worker' = "accepting" => Len(messages') - 1 \in Nat
    BY <2>1 DEF TurnSound, Settled
  <2> QED  BY <2>1, <2>2 DEF Floor, Base, Settled
<1>3. \A j \in 1..Len(events) : events[j].after \in Nat
  <2>1. events \in Seq(HistoryEvent)
    BY Lengths
  <2>2. \A j \in 1..Len(events) : events[j] \in HistoryEvent
    BY <2>1, ElementOfSeq
  <2> QED  BY <2>2, BoundsAssumption DEF HistoryEvent
<1>4. \A j \in 1..Len(events) : events[j].after <= Floor \/ events[j].after <= Len(Base.messages)
  BY DEF StaysValid
<1>5. \A j \in 1..Len(events) : events[j].after <= Floor' \/ events[j].after <= Len(Base'.messages)
  BY <1>1, <1>2, <1>3, <1>4
<1> QED  BY <1>5 DEF Standing

\* What StaysValid asks of the next state.
LEMMA ValidParts ==
    ASSUME Valid(live)', save'.by # Nobody => Valid(save.before)', Standing'
    PROVE  StaysValid'
BY DEF StaysValid, Standing

\* Steps that neither add nor settle a message.
LEMMA SameFloor ==
    ASSUME UNCHANGED <<messages, from, ui, worker>>
    PROVE  Floor' = Floor
BY DEF Floor, Beginning, Settled

\* A withdrawn stage leaves no event behind its messages.
LEMMA SavingValid ==
    ASSUME Typed, Typed', Threads, SaveSound, TurnSound, TurnSound', StaysValid, Saving
    PROVE  StaysValid'
<1>1. /\ live \in Document /\ live.messages \in Seq(Message) /\ live.events \in Seq(HistoryEvent)
      /\ save.before \in Document /\ save.before.events \in Seq(HistoryEvent)
      /\ events \in Seq(HistoryEvent) /\ Len(events) \in Nat
      /\ Len(live.messages) \in Nat /\ Len(save.before.messages) \in Nat
      /\ Len(live.events) \in Nat /\ Len(save.before.events) \in Nat
  BY Lengths
<1>a. NoSave.stage = "Preserve" /\ NoSave.by = Nobody
  BY NoSaveFields
<1>b. Floor \in Nat /\ Len(Base.messages) \in Nat
  BY Floors
<1>c. Valid(live) /\ (save.by # Nobody => Valid(save.before))
  BY DEF StaysValid
<1>2. CASE Copy
  <2>1. /\ save'.stage = save.stage /\ save'.before = save.before /\ save'.by = save.by
        /\ UNCHANGED <<live, messages, events, ui, worker, from>>
    BY <1>2, CopyEffect DEF CopyIs, SaveIs, threads, archive, inputs
  <2>2. Floor' = Floor /\ Base' = Base
    BY <2>1, SameFloor DEF Base
  <2>3. Standing'
    BY <1>b, <2>1, <2>2, StandingStep
  <2>4. Valid(live)' /\ (save'.by # Nobody => Valid(save.before)')
    BY <1>c, <2>1 DEF Valid
  <2> QED  BY <2>3, <2>4, ValidParts
<1>3. CASE WriteDocument
  <2>1. /\ save' = NoSave /\ UNCHANGED <<live, messages, events, ui, worker, from>>
        /\ save.by # Nobody
    BY <1>3, WriteEffect DEF WriteIs, ReturnIs, archive, inputs
  <2>2. Floor' = Floor /\ Base' = live
    BY <1>a, <2>1, SameFloor DEF Base
  <2>3. Len(save.before.messages) <= Len(live.messages)
    BY <2>1 DEF SaveSound, DocBegins, Begins
  <2>4. Len(Base.messages) <= Len(Base'.messages)
    BY <1>1, <2>2, <2>3 DEF Base
  <2>5. Standing'
    BY <1>b, <2>1, <2>2, <2>4, StandingStep
  <2>6. Valid(live)'
    BY <1>c, <2>1 DEF Valid
  <2> QED  BY <1>a, <2>1, <2>5, <2>6, ValidParts
<1>4. CASE SaveFails
  <2>1. FailIs
    BY <1>4, FailEffect
  <2>2. /\ save' = NoSave /\ UNCHANGED <<messages, ui, worker, from>> /\ save.by # Nobody
    BY <2>1 DEF FailIs, ReturnIs, inputs
  <2>3. Begins(save.before.events, live.events)
    BY <2>2 DEF SaveSound, DocBegins
  <2>4. Floor' = Floor /\ Base' = live'
    BY <1>a, <2>2, SameFloor DEF Base
  <2>5. CASE Withdrawn
    <3>1. /\ save.stage \in {"Begin", "Accept"} /\ events' = events /\ live' \in Document
          /\ live'.messages = save.before.messages /\ live'.events = save.before.events
      BY <2>5 DEF Withdrawn, DocIs
    <3>2. Len(Base.messages) <= Len(Base'.messages)
      BY <1>1, <2>4, <3>1 DEF Base
    <3>3. Standing'
      BY <1>b, <2>4, <3>1, <3>2, StandingStep
    <3>4. Within(save.before.events, Len(save.before.messages))
      BY <1>1, <1>c, <2>2, ValidIs
    <3>5. Valid(live)'
      BY <3>1, <3>4, NextValidIs
    <3> QED  BY <1>a, <2>2, <3>3, <3>5, ValidParts
  <2>6. CASE Unnoted
    <3>1. /\ save.stage = "Preserve" /\ save.by = "receipt" /\ events' = WithoutReceipt
          /\ live'.messages = live.messages /\ live'.events = save.before.events
          /\ live' \in Document
      BY <2>6 DEF Unnoted, DocIs
    <3>2. ReceiptSaved
      BY <3>1 DEF SaveSound
    <3>3. PICK pos \in 1..Len(events) : pos = Len(live.events) /\ pos = Len(save.before.events) + 1
      BY <1>1, <3>2 DEF ReceiptSaved
    <3>4. PICK at \in Nat : at = save.displaced
      BY SaveFields DEF Typed
    <3>5. at = 0 \/ at \in pos..Len(events)
      BY <3>2, <3>3, <3>4 DEF ReceiptSaved
    <3>6. PICK m \in Seq(HistoryEvent) : m = Unmoved(events, pos, at)
      BY <1>1, <3>5, UnmovedProperties
    <3>7. /\ \A i \in 1..(pos - 1) : m[i] = events[i]
          /\ \A j \in pos..Len(m) : j # at => \E i \in (pos + 1)..Len(events) : m[j] = events[i]
          /\ at # 0 => m[at] = events[pos]
      <4>1. /\ \A i \in 1..(pos - 1) : Unmoved(events, pos, at)[i] = events[i]
            /\ at # 0 => Unmoved(events, pos, at)[at] = events[pos]
        BY <1>1, <3>5, UnmovedProperties
      <4>2. \A j \in pos..Len(Unmoved(events, pos, at)) : j # at =>
                \E i \in (pos + 1)..Len(events) : Unmoved(events, pos, at)[j] = events[i]
        BY <1>1, <3>5, UnmovedProperties
      <4> QED  BY <3>6, <4>1, <4>2
    <3>8. events' = m
      BY <3>1, <3>3, <3>4, <3>6 DEF WithoutReceipt, Unmoved
    <3>9. \A i \in 1..Len(m) : \E j \in 1..Len(events) : m[i] = events[j]
      <4> TAKE i \in 1..Len(m)
      <4>0. Len(m) \in Nat
        BY LenProperties
      <4>1. CASE i < pos
        <5>1. i \in 1..(pos - 1) /\ i \in 1..Len(events)
          BY <1>1, <4>1
        <5> QED  BY <3>7, <5>1
      <4>2. CASE i >= pos /\ i # at
        <5>1. i \in pos..Len(m)
          BY <4>0, <4>2
        <5>2. PICK k \in (pos + 1)..Len(events) : m[i] = events[k]
          BY <3>7, <4>2, <5>1
        <5>3. k \in 1..Len(events)
          BY <1>1
        <5> QED  BY <5>2, <5>3
      <4>3. CASE i = at
        <5>1. at # 0
          BY <4>3
        <5> QED  BY <3>7, <4>3, <5>1
      <4> QED  BY <4>0, <4>1, <4>2, <4>3
    <3>10. Len(Base.messages) <= Len(Base'.messages)
      BY <1>1, <2>4, <3>1 DEF Base
    <3>11. Standing'
      BY <1>b, <2>4, <3>8, <3>9, <3>10, StandingStep
    <3>12. Within(save.before.events, Len(live.messages))
      <4>1. Within(live.events, Len(live.messages))
        BY <1>1, <1>c, ValidIs
      <4> QED  BY <1>1, <2>3, <4>1, WithinBeginning
    <3>13. Valid(live)'
      BY <3>1, <3>12, NextValidIs
    <3> QED  BY <1>a, <2>2, <3>11, <3>13, ValidParts
  <2>7. CASE save.stage = "Preserve" /\ save.by # "receipt" /\ UNCHANGED <<live, last, events>>
    <3>1. Len(Base.messages) <= Len(Base'.messages)
      BY <1>1, <2>4, <2>7 DEF Base
    <3>2. Standing'
      BY <1>b, <2>4, <2>7, <3>1, StandingStep
    <3>3. Valid(live)'
      BY <1>c, <2>7 DEF Valid
    <3> QED  BY <1>a, <2>2, <3>2, <3>3, ValidParts
  <2> QED  BY <2>1, <2>5, <2>6, <2>7 DEF FailIs
<1> QED  BY <1>2, <1>3, <1>4 DEF Saving
\* A receipt is noted after messages that stay.
LEMMA OthersValid ==
    ASSUME Typed, Typed', Threads, TurnSound, TurnSound', StaysValid,
           Flush \/ AppendReceipt \/ Title
    PROVE  StaysValid'
<1>1. /\ live \in Document /\ live.messages \in Seq(Message) /\ live.events \in Seq(HistoryEvent)
      /\ messages \in Seq(Message) /\ events \in Seq(HistoryEvent) /\ Len(events) \in Nat
      /\ Len(live.messages) \in Nat /\ Len(live.events) \in Nat /\ Len(messages) \in Nat
  BY Lengths
<1>a. NoSave.stage = "Preserve" /\ NoSave.by = Nobody
  BY NoSaveFields
<1>b. Floor \in Nat /\ Len(Base.messages) \in Nat /\ Floor <= Len(messages)
  BY Floors
<1>c. Valid(live)
  BY DEF StaysValid
<1>d. Within(live.events, Len(live.messages))
  BY <1>1, <1>c, ValidIs
<1>e. live' \in Document
  BY NextTypedParts DEF HandleFine
<1>2. CASE Flush
  <2>1. /\ save = NoSave /\ save'.stage = "Preserve" /\ save'.before = live
        /\ UNCHANGED <<live, messages, events, ui, worker, from>>
    BY <1>2, FlushEffect DEF FlushIs, SaveIs, archive, inputs
  <2>2. Floor' = Floor /\ Base' = Base
    BY <1>a, <2>1, SameFloor DEF Base
  <2>3. Standing'
    BY <1>b, <2>1, <2>2, StandingStep
  <2>4. Valid(live)' /\ Valid(save.before)'
    BY <1>c, <2>1 DEF Valid
  <2> QED  BY <2>3, <2>4, ValidParts
<1>3. CASE AppendReceipt
  <2>1. AppendReceiptIs
    BY <1>3, AppendReceiptEffect
  <2>2. /\ save = NoSave /\ Len(live.events) <= Len(events)
        /\ UNCHANGED <<messages, ui, worker, from>>
    BY <2>1 DEF AppendReceiptIs, inputs
  <2>3. Floor' = Floor
    BY <2>2, SameFloor
  <2>4. CASE UNCHANGED <<events, live, dirty, save>>
    <3>1. Standing'
      BY <1>b, <2>3, <2>4, StandingStep DEF Base
    <3>2. Valid(live)' /\ save'.by = Nobody
      BY <1>a, <1>c, <2>2, <2>4 DEF Valid
    <3> QED  BY <3>1, <3>2, ValidParts
  <2>5. ASSUME NEW at \in 0..Len(events), NoteIs(at)
        PROVE  StaysValid'
    <3>1. PICK event \in HistoryEvent : event = Receipt(Len(live.messages))
      <4>1. Len(live.messages) \in 0..MaxMessages
        BY Lengths, TypedParts DEF HandleFine
      <4> QED  BY <4>1, ReceiptIsEvent
    <3>2. event.after = Len(live.messages)
      BY <3>1 DEF Receipt
    <3>3. /\ events' = Moved(events, at, Len(live.events) + 1, event)
          /\ live'.messages = live.messages /\ live'.events = Append(live.events, event)
          /\ save'.stage = "Preserve" /\ save'.before = live
      BY <2>5, <3>1 DEF NoteIs, DocIs, SaveIs
    <3>4. at = 0 \/ Len(live.events) < at
      BY <2>5 DEF NoteIs
    <3>5. PICK pos \in 1..(Len(events) + 1) : pos = Len(live.events) + 1
      BY <1>1, <2>2
    <3>6. at = 0 \/ pos <= at
      BY <1>1, <3>4, <3>5
    <3>7. PICK m \in Seq(HistoryEvent) : m = Moved(events, at, pos, event)
      BY <1>1, <3>6, MovedProperties
    <3>8. /\ \A i \in 1..(pos - 1) : m[i] = events[i]
          /\ m[pos] = event
          /\ \A j \in (pos + 1)..Len(m) : \E i \in pos..Len(events) : i # at /\ m[j] = events[i]
      <4>1. PICK es \in Seq(HistoryEvent) : es = events
        BY <1>1
      <4>2. PICK k \in 0..Len(es) : k = at
        BY <4>1
      <4>3. PICK p \in 1..(Len(es) + 1) : p = pos
        BY <4>1
      <4>4. k = 0 \/ p <= k
        BY <3>6, <4>2, <4>3
      <4>5. Moved(es, k, p, event)[p] = event
        BY <4>4, MovedProperties
      <4>6. \A i \in 1..(p - 1) : Moved(es, k, p, event)[i] = es[i]
        BY <4>4, MovedProperties
      <4>7. \A j \in (p + 1)..Len(Moved(es, k, p, event)) :
                \E i \in p..Len(es) : i # k /\ Moved(es, k, p, event)[j] = es[i]
        BY <4>4, MovedProperties
      <4> QED  BY <3>7, <4>1, <4>2, <4>3, <4>5, <4>6, <4>7
    <3>9. events' = m
      BY <3>3, <3>5, <3>7
    <3>10. \A i \in 1..Len(m) : (\E j \in 1..Len(events) : m[i] = events[j]) \/ m[i] = event
      <4> TAKE i \in 1..Len(m)
      <4>0. Len(m) \in Nat
        BY LenProperties
      <4>1. CASE i < pos
        <5>1. i \in 1..(pos - 1) /\ i \in 1..Len(events)
          BY <1>1, <4>1
        <5> QED  BY <3>8, <5>1
      <4>2. CASE i = pos
        BY <3>8, <4>2
      <4>3. CASE i > pos
        <5>1. i \in (pos + 1)..Len(m)
          BY <4>0, <4>3
        <5>2. PICK k \in pos..Len(events) : m[i] = events[k]
          BY <3>8, <5>1
        <5>3. k \in 1..Len(events)
          BY <1>1
        <5> QED  BY <5>2, <5>3
      <4> QED  BY <4>0, <4>1, <4>2, <4>3
    <3>11. Base = live /\ Base' = live'
      BY <1>a, <2>2, <3>3 DEF Base
    <3>12. event.after <= Len(Base'.messages) /\ Len(Base.messages) <= Len(Base'.messages)
      BY <1>1, <3>2, <3>3, <3>11
    <3>13. Standing'
      BY <1>b, <2>3, <3>9, <3>10, <3>12, StandingStep
    <3>14. Within(Append(live.events, event), Len(live.messages))
      BY <1>1, <1>d, <3>2, WithinAppended
    <3>15. Valid(live)'
      BY <1>e, <3>3, <3>14, NextValidIs
    <3>16. Valid(save.before)'
      BY <1>c, <3>3 DEF Valid
    <3> QED  BY <3>13, <3>15, <3>16, ValidParts
  <2> QED  BY <2>1, <2>4, <2>5 DEF AppendReceiptIs
<1>4. CASE Title
  <2>1. TitleIs
    BY <1>4, TitleEffect
  <2>2. /\ save = NoSave /\ save'.stage = "Preserve" /\ save'.before = live
        /\ UNCHANGED <<messages, ui, worker, from>>
    BY <2>1 DEF TitleIs, SaveIs, inputs
  <2>3. Floor' = Floor
    BY <2>2, SameFloor
  <2>4. Base = live /\ Base' = live'
    BY <1>a, <2>2 DEF Base
  <2>5. Valid(save.before)'
    BY <1>c, <2>2 DEF Valid
  <2>6. CASE /\ Begins(live.messages, messages) /\ Begins(live.events, events)
             /\ DocIs(live', messages, Append(events, TitleAt(Len(messages))), live.input,
                      live.returned)
             /\ events' = Append(events, TitleAt(Len(messages)))
    <3>1. PICK event \in HistoryEvent : event = TitleAt(Len(messages))
      <4>1. Len(messages) \in 0..MaxMessages
        BY Lengths, TypedParts DEF ArchiveFine
      <4> QED  BY <4>1 DEF TitleAt, HistoryEvent
    <3>2. event.after = Len(messages)
      BY <3>1 DEF TitleAt
    <3>3. live'.messages = messages /\ live'.events = Append(events, event)
      BY <2>6, <3>1 DEF DocIs
    <3>4. Len(live.messages) <= Len(messages)
      BY <2>6 DEF Begins
    <3>5. Within(events, Len(messages))
      <4>1. \A i \in 1..Len(events) : events[i].after <= Floor \/ events[i].after <= Len(live.messages)
        BY <2>4 DEF StaysValid
      <4>2. \A i \in 1..Len(events) : events[i].after \in Nat
        <5>1. \A i \in 1..Len(events) : events[i] \in HistoryEvent
          BY <1>1, ElementOfSeq
        <5> QED  BY <5>1, BoundsAssumption DEF HistoryEvent
      <4> QED  BY <1>1, <1>b, <3>4, <4>1, <4>2 DEF Within
    <3>6. Within(Append(events, event), Len(messages))
      <4>1. event.after <= Len(messages)
        BY <1>1, <3>2
      <4> QED  BY <1>1, <3>5, <4>1, WithinAppended
    <3>7. Valid(live)'
      BY <1>e, <3>3, <3>6, NextValidIs
    <3>8. \A i \in 1..Len(events') : events'[i].after <= Len(Base'.messages)
      BY <2>4, <2>6, <3>1, <3>3, <3>6 DEF Within
    <3>9. Standing'
      BY <3>8 DEF Standing
    <3> QED  BY <2>5, <3>7, <3>9, ValidParts
  <2>7. CASE /\ DocIs(live', live.messages, Append(live.events, TitleAt(Len(live.messages))),
                      live.input, live.returned)
             /\ events' = events
    <3>1. PICK event \in HistoryEvent : event = TitleAt(Len(live.messages))
      <4>1. Len(live.messages) \in 0..MaxMessages
        BY Lengths, TypedParts DEF HandleFine
      <4> QED  BY <4>1 DEF TitleAt, HistoryEvent
    <3>2. event.after = Len(live.messages)
      BY <3>1 DEF TitleAt
    <3>3. live'.messages = live.messages /\ live'.events = Append(live.events, event)
      BY <2>7, <3>1 DEF DocIs
    <3>4. Within(Append(live.events, event), Len(live.messages))
      <4>1. event.after <= Len(live.messages)
        BY <1>1, <3>2
      <4> QED  BY <1>1, <1>d, <4>1, WithinAppended
    <3>5. Valid(live)'
      BY <1>e, <3>3, <3>4, NextValidIs
    <3>6. Len(Base.messages) <= Len(Base'.messages)
      BY <1>1, <2>4, <3>3
    <3>7. Standing'
      BY <1>b, <2>3, <2>7, <3>6, StandingStep
    <3> QED  BY <2>5, <3>5, <3>7, ValidParts
  <2> QED  BY <2>1, <2>6, <2>7 DEF TitleIs
<1> QED  BY <1>2, <1>3, <1>4

\* A checkpoint makes live what stands in the archive.
LEMMA CheckpointValid ==
    ASSUME Typed, Typed', TurnSound, TurnSound', StaysValid, NEW by \in {"ui", "worker"},
           NEW stage \in {"Preserve", "Begin", "Accept"}, Checkpoint(by, stage),
           UNCHANGED <<messages, events>>, Floor' = Floor
    PROVE  StaysValid'
<1>1. /\ live \in Document /\ live.messages \in Seq(Message) /\ live.events \in Seq(HistoryEvent)
      /\ messages \in Seq(Message) /\ events \in Seq(HistoryEvent) /\ Len(events) \in Nat
      /\ Len(live.messages) \in Nat /\ Len(live.events) \in Nat /\ Len(messages) \in Nat
  BY Lengths
<1>a. NoSave.stage = "Preserve" /\ NoSave.by = Nobody
  BY NoSaveFields
<1>b. Floor \in Nat /\ Len(Base.messages) \in Nat /\ Floor <= Len(messages)
  BY Floors
<1>c. Valid(live)
  BY DEF StaysValid
<1>e. live' \in Document
  BY NextTypedParts DEF HandleFine
<1>2. CASE CheckpointRefused(by)
  <2>1. live' = live /\ save' = NoSave /\ Base' = Base
    BY <1>2 DEF CheckpointRefused, Base
  <2>2. Standing'
    BY <1>b, <2>1, StandingStep
  <2>3. Valid(live)'
    BY <1>c, <2>1 DEF Valid
  <2> QED  BY <1>a, <2>1, <2>2, <2>3, ValidParts
<1>3. CASE CheckpointTaken(by, stage)
  <2>1. /\ save = NoSave /\ Len(live.messages) <= Len(messages) /\ Len(live.events) <= Len(events)
        /\ live'.messages = Extended(live.messages, messages)
        /\ live'.events = Extended(live.events, events)
        /\ save'.stage = stage /\ save'.before = live
    BY <1>3 DEF CheckpointTaken, DocIs, SaveIs
  <2>2. Len(live'.messages) = Len(messages)
    BY <1>1, <2>1, ExtendedProperties
  <2>3. Base = live
    BY <1>a, <2>1 DEF Base
  <2>4. Base' = live \/ Base' = live'
    BY <2>1 DEF Base
  <2>5. Len(Base.messages) <= Len(Base'.messages)
    BY <1>1, <2>1, <2>2, <2>3, <2>4
  <2>6. Standing'
    BY <1>b, <2>5, StandingStep
  <2>7. Within(events, Len(messages))
    <3>1. \A i \in 1..Len(events) : events[i].after <= Floor \/ events[i].after <= Len(live.messages)
      BY <2>3 DEF StaysValid
    <3>2. \A i \in 1..Len(events) : events[i].after \in Nat
      <4>1. \A i \in 1..Len(events) : events[i] \in HistoryEvent
        BY <1>1, ElementOfSeq
      <4> QED  BY <4>1, BoundsAssumption DEF HistoryEvent
    <3> QED  BY <1>1, <1>b, <2>1, <3>1, <3>2 DEF Within
  <2>8. Within(live.events, Len(messages))
    <3>1. Within(live.events, Len(live.messages))
      BY <1>1, <1>c, ValidIs
    <3> QED  BY <1>1, <2>1, <3>1, WithinMore
  <2>9. PICK xs \in Seq(HistoryEvent) : xs = Extended(live.events, events)
    BY <1>1, ExtendedProperties
  <2>10. /\ Len(xs) = Len(events)
         /\ \A i \in 1..Len(live.events) : xs[i] = live.events[i]
         /\ \A i \in (Len(live.events) + 1)..Len(events) : xs[i] = events[i]
    <3>1. /\ Len(Extended(live.events, events)) = IF Len(live.events) <= Len(events)
                                                  THEN Len(events) ELSE Len(live.events)
          /\ \A i \in 1..Len(live.events) : Extended(live.events, events)[i] = live.events[i]
          /\ \A i \in (Len(live.events) + 1)..Len(events) :
                Extended(live.events, events)[i] = events[i]
      BY <1>1, ExtendedProperties
    <3> QED  BY <2>1, <2>9, <3>1
  <2>11. \A i \in 1..Len(xs) : i \in 1..Len(live.events) \/ i \in (Len(live.events) + 1)..Len(events)
    BY <1>1, <2>1, <2>10
  <2>12. \A i \in (Len(live.events) + 1)..Len(events) : i \in 1..Len(events)
    BY <1>1
  <2>13. Within(xs, Len(messages))
    BY <2>7, <2>8, <2>10, <2>11, <2>12 DEF Within
  <2>14. Valid(live)'
    BY <1>e, <2>1, <2>2, <2>9, <2>13, NextValidIs
  <2>15. Valid(save.before)'
    BY <1>c, <2>1 DEF Valid
  <2> QED  BY <2>6, <2>14, <2>15, ValidParts
<1> QED  BY <1>2, <1>3, CheckpointEffect

\* The document's history stays, and the save.
LEMMA ValidFrame ==
    ASSUME Typed, Typed', TurnSound, TurnSound', StaysValid,
           live'.messages = live.messages, live'.events = live.events,
           save'.by = save.by, save'.stage = save.stage, save'.before = save.before,
           Floor <= Floor',
           \A i \in 1..Len(events') :
               (\E j \in 1..Len(events) : events'[i] = events[j]) \/ events'[i].after <= Floor'
    PROVE  StaysValid'
<1>1. Len(Base'.messages) = Len(Base.messages)
  BY DEF Base
<1>2. Len(Base.messages) \in Nat
  BY Floors
<1>3. Standing'
  BY <1>1, <1>2, StandingStep
<1>4. Valid(live)'
  BY DEF StaysValid, Valid
<1>5. save'.by # Nobody => Valid(save.before)'
  BY DEF StaysValid, Valid
<1> QED  BY <1>3, <1>4, <1>5, ValidParts

\* An event appended is about the messages that stay.
LEMMA ValidAppend ==
    ASSUME Typed, NEW e \in HistoryEvent, events' = Append(events, e), NEW n, e.after <= n
    PROVE  \A i \in 1..Len(events') :
               (\E j \in 1..Len(events) : events'[i] = events[j]) \/ events'[i].after <= n
<1>1. events \in Seq(HistoryEvent) /\ Len(events) \in Nat
  BY Lengths
<1>2. /\ Len(Append(events, e)) = Len(events) + 1
      /\ \A i \in 1..Len(events) : Append(events, e)[i] = events[i]
      /\ Append(events, e)[Len(events) + 1] = e
  BY <1>1, AppendedProperties
<1>3. \A i \in 1..(Len(events) + 1) : i \in 1..Len(events) \/ i = Len(events) + 1
  BY <1>1
<1> QED  BY <1>2, <1>3
\* A turn's start is noted after the messages before it.
LEMMA UserValid ==
    ASSUME Typed, Typed', Threads, TurnSound, TurnSound', StaysValid, User
    PROVE  StaysValid'
<1>0. /\ composer \subseteq Prompt /\ paused \subseteq Prompt /\ queued \subseteq Prompt
  BY InputSets
<1>a. Floor \in Nat /\ Floor <= Len(messages) /\ Len(messages) \in Nat
  BY Floors, Lengths
<1>1. ASSUME NEW p \in Prompt, Type(p)
      PROVE  StaysValid'
  <2>1. /\ CapturedInto(composer' \cup paused, queued) /\ composer' \subseteq Prompt
        /\ UNCHANGED <<messages, events, from, ui, worker>>
    BY <1>0, <1>1 DEF Type, Captures, archive, threads
  <2>2. /\ live'.messages = live.messages /\ live'.events = live.events
        /\ save'.by = save.by /\ save'.stage = save.stage /\ save'.before = save.before
    BY <1>0, <2>1, CaptureHistory
  <2>3. Floor <= Floor'
    BY <1>a, <2>1, SameFloor
  <2>4. \A i \in 1..Len(events') : \E j \in 1..Len(events) : events'[i] = events[j]
    BY <2>1
  <2> QED  BY <2>2, <2>3, <2>4, ValidFrame
<1>2. CASE Queue \/ TakeBack
  <2>1. /\ UNCHANGED <<live, save, messages, events, from, worker>>
        /\ ui = "loop" /\ ui' = "capture"
    BY <1>2 DEF Queue, TakeBack, handle, archive
  <2>2. Floor <= Floor'
    BY <1>a, <2>1 DEF Floor, Beginning, Settled
  <2>3. \A i \in 1..Len(events') : \E j \in 1..Len(events) : events'[i] = events[j]
    BY <2>1
  <2> QED  BY <2>1, <2>2, <2>3, ValidFrame
<1>3. CASE Send
  <2>1. /\ CapturedInto(composer' \cup paused, queued')
        /\ composer' \subseteq Prompt /\ queued' \subseteq Prompt
        /\ from' = Len(messages) /\ events' = Append(events, Start') /\ messages' = messages
        /\ ui' = "starting" /\ worker' = "idle"
    BY <1>0, <1>3 DEF Send, Captures
  <2>2. /\ live'.messages = live.messages /\ live'.events = live.events
        /\ save'.by = save.by /\ save'.stage = save.stage /\ save'.before = save.before
    BY <1>0, <2>1, CaptureHistory
  <2>3. Floor' = Len(messages)
    BY <2>1 DEF Floor, Beginning, Settled
  <2>4. PICK e \in HistoryEvent : e = Start'
    <3>1. Len(messages) \in 0..MaxMessages
      BY Lengths, TypedParts DEF ArchiveFine
    <3> QED  BY <2>1, <3>1 DEF Start, HistoryEvent
  <2>5. e.after = Len(messages)
    BY <2>1, <2>4 DEF Start
  <2>6. e.after <= Floor'
    BY <1>a, <2>3, <2>5
  <2>7. \A i \in 1..Len(events') :
            (\E j \in 1..Len(events) : events'[i] = events[j]) \/ events'[i].after <= Floor'
    BY <2>1, <2>4, <2>6, ValidAppend
  <2>8. Floor <= Floor'
    BY <1>a, <2>3
  <2> QED  BY <2>2, <2>7, <2>8, ValidFrame
<1> QED  BY <1>1, <1>2, <1>3 DEF User

\* The interface withdraws a start with its message.
LEMMA InterfaceValid ==
    ASSUME Typed, Typed', Threads, TurnSound, TurnSound', StaysValid, Interface
    PROVE  StaysValid'
<1>0. /\ composer \subseteq Prompt /\ paused \subseteq Prompt /\ queued \subseteq Prompt
      /\ sending \subseteq Prompt /\ submission \subseteq Prompt /\ unshown \subseteq Prompt
  BY InputSets
<1>a. Floor \in Nat /\ Floor <= Len(messages) /\ Len(messages) \in Nat /\ from \in Nat
      /\ events \in Seq(HistoryEvent) /\ Len(events) \in Nat
  BY Floors, Lengths, TurnLengths
<1>1. CASE CaptureInput \/ Show
  <2>1. /\ CapturedInto(composer \cup paused, queued)
        /\ UNCHANGED <<messages, events, from, worker>>
        /\ ui \in {"loop", "capture"} /\ ui' = "loop"
    BY <1>1 DEF CaptureInput, Show, Captures, archive, threads
  <2>2. /\ live'.messages = live.messages /\ live'.events = live.events
        /\ save'.by = save.by /\ save'.stage = save.stage /\ save'.before = save.before
    BY <1>0, <2>1, CaptureHistory
  <2>3. Floor <= Floor'
    BY <1>a, <2>1 DEF Floor, Beginning, Settled
  <2>4. \A i \in 1..Len(events') : \E j \in 1..Len(events) : events'[i] = events[j]
    BY <2>1
  <2> QED  BY <2>2, <2>3, <2>4, ValidFrame
<1>2. CASE BeginCheckpoint
  <2>1. /\ Checkpoint("ui", "Begin") /\ ui = "begin" /\ ui' = "beginning"
        /\ UNCHANGED <<messages, events, from, worker>>
    BY <1>2 DEF BeginCheckpoint, inputs, archive
  <2>2. Floor' = Floor
    BY <2>1 DEF Floor, Beginning
  <2> QED  BY <2>1, <2>2, CheckpointValid
<1>3. CASE ReturnCheckpoint
  <2>1. /\ Checkpoint("ui", "Preserve") /\ ui = "returned" /\ ui' = "returning"
        /\ UNCHANGED <<messages, events, from, worker>>
    BY <1>3 DEF ReturnCheckpoint, inputs, archive
  <2>2. Floor' = Floor
    BY <2>1 DEF Floor, Beginning, Settled
  <2> QED  BY <2>1, <2>2, CheckpointValid
<1>4. CASE Begun
  <2>1. /\ CapturedInto(composer \cup paused, queued)
        /\ UNCHANGED <<messages, events, from>>
        /\ ui' = "loop" /\ worker' = "asking"
    BY <1>4 DEF Begun, archive
  <2>2. /\ live'.messages = live.messages /\ live'.events = live.events
        /\ save'.by = save.by /\ save'.stage = save.stage /\ save'.before = save.before
    BY <1>0, <2>1, CaptureHistory
  <2>3. Floor' = Len(messages)
    BY <2>1 DEF Floor, Beginning, Settled
  <2>4. Floor <= Floor'
    BY <1>a, <2>3
  <2>5. \A i \in 1..Len(events') : \E j \in 1..Len(events) : events'[i] = events[j]
    BY <2>1
  <2> QED  BY <2>2, <2>4, <2>5, ValidFrame
<1>5. CASE NotBegun
  <2>1. /\ messages' = SubSeq(messages, 1, from) /\ UNCHANGED <<live, save, events, from, worker>>
        /\ ui = "beginning" /\ ui' = "withdrawing"
    BY <1>5 DEF NotBegun, inputs
  <2>2. worker = "idle" /\ Len(messages) = from + 1
    BY <2>1 DEF Threads, TurnSound, Beginning
  <2>3. from \in 0..Len(messages)
    BY <1>a, <2>2
  <2>4. messages \in Seq(Message)
    BY Lengths
  <2>5. Len(messages') = from
    BY <2>1, <2>3, <2>4, CutProperties
  <2>6. Floor = from /\ Floor' = from
    BY <2>1, <2>2, <2>5 DEF Floor, Beginning, Settled
  <2>7. Floor <= Floor'
    BY <1>a, <2>6
  <2>8. \A i \in 1..Len(events') : \E j \in 1..Len(events) : events'[i] = events[j]
    BY <2>1
  <2> QED  BY <2>1, <2>7, <2>8, ValidFrame
<1>6. CASE Finished
  <2>1. /\ UNCHANGED <<live, save, messages, events, from>>
        /\ ui' = "loop" /\ worker' = "idle"
    BY <1>6 DEF Finished, handle, archive
  <2>2. Floor' = Len(messages)
    BY <2>1 DEF Floor, Beginning, Settled
  <2>3. Floor <= Floor'
    BY <1>a, <2>2
  <2>4. \A i \in 1..Len(events') : \E j \in 1..Len(events) : events'[i] = events[j]
    BY <2>1
  <2> QED  BY <2>1, <2>3, <2>4, ValidFrame
<1>7. CASE Paused
  <2>1. /\ CapturedInto(composer' \cup paused', {})
        /\ composer' \subseteq Prompt /\ paused' \subseteq Prompt
        /\ UNCHANGED <<messages, events, from>>
        /\ ui' = "loop" /\ worker' = "idle"
    BY <1>0, <1>7 DEF Paused, Captures, archive
  <2>2. /\ live'.messages = live.messages /\ live'.events = live.events
        /\ save'.by = save.by /\ save'.stage = save.stage /\ save'.before = save.before
    BY <2>1, CaptureHistory
  <2>3. Floor' = Len(messages)
    BY <2>1 DEF Floor, Beginning, Settled
  <2>4. Floor <= Floor'
    BY <1>a, <2>3
  <2>5. \A i \in 1..Len(events') : \E j \in 1..Len(events) : events'[i] = events[j]
    BY <2>1
  <2> QED  BY <2>2, <2>4, <2>5, ValidFrame
<1>8. CASE Returned
  <2>1. /\ CapturedInto(composer' \cup paused', {})
        /\ composer' \subseteq Prompt /\ paused' \subseteq Prompt
        /\ events' = Append(events, [kind |-> "returned", after |-> Len(messages)])
        /\ UNCHANGED <<messages, from>> /\ ui' = "returned" /\ worker' = "idle"
    BY <1>0, <1>8 DEF Returned, ReturnedPrompts, Captures
  <2>2. /\ live'.messages = live.messages /\ live'.events = live.events
        /\ save'.by = save.by /\ save'.stage = save.stage /\ save'.before = save.before
    BY <2>1, CaptureHistory
  <2>3. PICK e \in HistoryEvent : e = [kind |-> "returned", after |-> Len(messages)]
    <3>1. Len(messages) \in 0..MaxMessages
      BY Lengths, TypedParts DEF ArchiveFine
    <3> QED  BY <3>1 DEF HistoryEvent
  <2>4. Floor' = Len(messages)
    BY <2>1 DEF Floor, Beginning, Settled
  <2>5. e.after <= Floor' /\ Floor <= Floor'
    BY <1>a, <2>3, <2>4
  <2>6. \A i \in 1..Len(events') :
            (\E j \in 1..Len(events) : events'[i] = events[j]) \/ events'[i].after <= Floor'
    BY <2>1, <2>3, <2>5, ValidAppend
  <2> QED  BY <2>2, <2>5, <2>6, ValidFrame
<1>9. CASE ReturnSaved
  <2>1. /\ UNCHANGED <<live, save, messages, events, from, worker>>
        /\ ui' = "loop" /\ ui = "returning"
    BY <1>9 DEF ReturnSaved, inputs, archive
  <2>2. Floor <= Floor'
    BY <1>a, <2>1 DEF Floor, Beginning, Settled
  <2>3. \A i \in 1..Len(events') : \E j \in 1..Len(events) : events'[i] = events[j]
    BY <2>1
  <2> QED  BY <2>1, <2>2, <2>3, ValidFrame
<1>10. CASE PushPrompt
  <2>1. /\ UNCHANGED <<live, save, events, from, worker>>
        /\ ui = "starting" /\ ui' = "begin"
    BY <1>10 DEF PushPrompt, handle, inputs
  <2>2. worker = "idle" /\ Len(messages) = from
    BY <2>1 DEF Threads, TurnSound, OnItsWay
  <2>3. Floor = from /\ Floor' = from
    BY <2>1, <2>2 DEF Floor, Beginning, Settled
  <2>4. Floor <= Floor'
    BY <1>a, <2>3
  <2>5. \A i \in 1..Len(events') : \E j \in 1..Len(events) : events'[i] = events[j]
    BY <2>1
  <2> QED  BY <2>1, <2>4, <2>5, ValidFrame
<1>11. CASE Withdraw
  <2>1. /\ CapturedInto(composer' \cup paused', {})
        /\ composer' \subseteq Prompt /\ paused' \subseteq Prompt
        /\ events' = WithoutStart /\ UNCHANGED <<messages, from, worker>>
        /\ ui = "withdrawing" /\ ui' = "loop"
    BY <1>0, <1>11 DEF Withdraw, Captures
  <2>2. /\ live'.messages = live.messages /\ live'.events = live.events
        /\ save'.by = save.by /\ save'.stage = save.stage /\ save'.before = save.before
    BY <2>1, CaptureHistory
  <2>3. Floor <= Floor'
    BY <1>a, <2>1 DEF Floor, Beginning, Settled
  <2>4. StartGone
    BY <2>1, WithoutStartEffect
  <2>5. \A i \in 1..Len(events') : \E j \in 1..Len(events) : events'[i] = events[j]
    <3>1. CASE events' = events
      BY <3>1
    <3>2. ASSUME NEW k \in 1..Len(events), events' = RemoveAt(events, k)
          PROVE  \A i \in 1..Len(events') : \E j \in 1..Len(events) : events'[i] = events[j]
      <4>1. /\ Len(RemoveAt(events, k)) = Len(events) - 1
            /\ \A i \in 1..(k - 1) : RemoveAt(events, k)[i] = events[i]
            /\ \A i \in k..(Len(events) - 1) : RemoveAt(events, k)[i] = events[i + 1]
        BY <1>a, RemovedProperties
      <4> SUFFICES ASSUME NEW i \in 1..Len(events')
                   PROVE  \E j \in 1..Len(events) : events'[i] = events[j]
        OBVIOUS
      <4>2. i \in 1..(Len(events) - 1)
        BY <3>2, <4>1
      <4>3. CASE i < k
        <5>1. i \in 1..(k - 1) /\ i \in 1..Len(events)
          BY <1>a, <4>2, <4>3
        <5> QED  BY <3>2, <4>1, <5>1
      <4>4. CASE i >= k
        <5>1. i \in k..(Len(events) - 1) /\ i + 1 \in 1..Len(events)
          BY <1>a, <4>2, <4>4
        <5> QED  BY <3>2, <4>1, <5>1
      <4> QED  BY <1>a, <4>2, <4>3, <4>4
    <3> QED  BY <2>4, <3>1, <3>2 DEF StartGone
  <2> QED  BY <2>2, <2>3, <2>5, ValidFrame
<1> QED  BY <1>1, <1>2, <1>3, <1>4, <1>5, <1>6, <1>7, <1>8, <1>9, <1>10, <1>11 DEF Interface

\* The worker's events are after settled messages.
LEMMA WorkerValid ==
    ASSUME Typed, Typed', Threads, TurnSound, TurnSound', StaysValid, Worker
    PROVE  StaysValid'
<1>a. /\ Floor \in Nat /\ Floor <= Len(messages) /\ Len(messages) \in Nat
      /\ messages \in Seq(Message)
      /\ worker # "accepting" => Settled = Len(messages)
      /\ worker = "accepting" => Settled = Len(messages) - 1 /\ Len(messages) \in Nat \ {0}
  BY Floors, Lengths, TurnLengths
<1>b. worker # "idle" => ~Beginning
  BY DEF Threads, Beginning
<1>1. CASE Accept
  <2>1. /\ worker = "asking" /\ worker' = "accepting" /\ messages' = Append(messages, Deliverable)
        /\ UNCHANGED <<live, save, ui, from, events>>
    BY <1>1 DEF Accept, handle, inputs
  <2>2. PICK m \in Message : m = Deliverable
    BY InputSets DEF Message, Deliverable
  <2>3. Len(messages') = Len(messages) + 1
    BY <1>a, <2>1, <2>2, AppendedProperties
  <2>4. Floor = Len(messages) /\ Floor' = Len(messages)
    BY <1>a, <1>b, <2>1, <2>3 DEF Floor, Beginning, Settled
  <2>5. Floor <= Floor'
    BY <1>a, <2>4
  <2>6. \A i \in 1..Len(events') : \E j \in 1..Len(events) : events'[i] = events[j]
    BY <2>1
  <2> QED  BY <2>1, <2>5, <2>6, ValidFrame
<1>2. CASE AcceptCheckpoint
  <2>1. /\ Checkpoint("worker", "Accept")
        /\ UNCHANGED <<messages, events, worker, ui, from>>
    BY <1>2 DEF AcceptCheckpoint, archive, threads, inputs
  <2>2. Floor' = Floor
    BY <2>1, SameFloor
  <2> QED  BY <2>1, <2>2, CheckpointValid
<1>3. CASE Accepted \/ Ask \/ Stop \/ Answered \/ Ended
  <2>1. /\ UNCHANGED <<live, save, messages, events, from, ui>>
        /\ worker' # "accepting" /\ worker # "idle"
    BY <1>3 DEF Accepted, Ask, Stop, Answered, Ended, handle, archive, inputs
  <2>2. Floor' = Len(messages)
    BY <1>b, <2>1 DEF Floor, Beginning, Settled
  <2>3. Floor <= Floor'
    BY <1>a, <2>2
  <2>4. \A i \in 1..Len(events') : \E j \in 1..Len(events) : events'[i] = events[j]
    BY <2>1
  <2> QED  BY <2>1, <2>3, <2>4, ValidFrame
<1>4. CASE NotAccepted
  <2>1. /\ worker = "accepting" /\ worker' = "ending"
        /\ messages' = SubSeq(messages, 1, Len(messages) - 1)
        /\ UNCHANGED <<live, save, ui, from, events>>
    BY <1>4 DEF NotAccepted, inputs
  <2>2. PICK n \in 0..Len(messages) : n = Len(messages) - 1
    BY <1>a, <2>1
  <2>3. Len(messages') = n
    BY <1>a, <2>1, <2>2, CutProperties
  <2>4. Floor = n /\ Floor' = n
    BY <1>a, <1>b, <2>1, <2>2, <2>3 DEF Floor, Beginning, Settled
  <2>5. Floor <= Floor'
    BY <2>4
  <2>6. \A i \in 1..Len(events') : \E j \in 1..Len(events) : events'[i] = events[j]
    BY <2>1
  <2> QED  BY <2>1, <2>5, <2>6, ValidFrame
<1>5. CASE Completion
  <2>1. /\ worker = "sampling" /\ worker' = "answering" /\ messages' = Append(messages, NoPrompts)
        /\ UNCHANGED <<live, save, from, ui, events>>
    BY <1>5 DEF Completion, handle, inputs
  <2>2. PICK m \in Message : m = NoPrompts
    BY DEF Message, NoPrompts
  <2>3. Len(messages') = Len(messages) + 1
    BY <1>a, <2>1, <2>2, AppendedProperties
  <2>4. Floor' = Len(messages) + 1
    BY <1>b, <2>1, <2>3 DEF Floor, Beginning, Settled
  <2>5. Floor <= Floor'
    BY <1>a, <2>4
  <2>6. \A i \in 1..Len(events') : \E j \in 1..Len(events) : events'[i] = events[j]
    BY <2>1
  <2> QED  BY <2>1, <2>5, <2>6, ValidFrame
<1>6. CASE KnowsCompletion
  <2>1. /\ worker = "sampling" /\ worker' = worker /\ events' = Append(events, Receipt(Len(messages)))
        /\ UNCHANGED <<live, save, from, ui, messages>>
    BY <1>6 DEF KnowsCompletion, handle, inputs, threads
  <2>2. PICK e \in HistoryEvent : e = Receipt(Len(messages))
    <3>1. Len(messages) \in 0..MaxMessages
      BY Lengths, TypedParts DEF ArchiveFine
    <3> QED  BY <3>1, ReceiptIsEvent
  <2>3. e.after = Len(messages)
    BY <2>2 DEF Receipt
  <2>4. Floor' = Len(messages)
    BY <1>b, <2>1 DEF Floor, Beginning, Settled
  <2>5. e.after <= Floor' /\ Floor <= Floor'
    BY <1>a, <2>3, <2>4
  <2>6. \A i \in 1..Len(events') :
            (\E j \in 1..Len(events) : events'[i] = events[j]) \/ events'[i].after <= Floor'
    BY <2>1, <2>2, <2>5, ValidAppend
  <2> QED  BY <2>1, <2>5, <2>6, ValidFrame
<1>7. CASE WorkerCheckpoint
  <2>1. /\ Checkpoint("worker", "Preserve")
        /\ UNCHANGED <<messages, events, worker, ui, from>>
    BY <1>7 DEF WorkerCheckpoint, archive, threads, inputs
  <2>2. Floor' = Floor
    BY <2>1, SameFloor
  <2> QED  BY <2>1, <2>2, CheckpointValid
<1> QED  BY <1>1, <1>2, <1>3, <1>4, <1>5, <1>6, <1>7 DEF Worker

-----------------------------------------------------------------------------
(* Each step keeps LastSound and InputSound.                               *)

\* What was captured is in the document, for it is in one place: the value
\* that stands for no capture is captured only if there are no prompts.
LEMMA CaptureTakes ==
    ASSUME Typed, LastSound, NEW draft, NEW queue, draft \subseteq Prompt, queue \subseteq Prompt,
           draft \cap queue = {}, CapturedInto(draft, queue)
    PROVE  CaptureIs(draft, queue) /\ live'.input = [draft |-> draft, queued |-> queue] /\ LastSound'
<1>1. CaptureIs(draft, queue)
  BY CaptureSaver
<1>2. live'.input = [draft |-> draft, queued |-> queue]
      \/ (last = [draft |-> draft, queued |-> queue] /\ live'.input = live.input)
  BY <1>1 DEF CaptureIs
<1>3. PICK input \in Input : input = [draft |-> draft, queued |-> queue]
  BY DEF Input
<1>4. PICK d \in Input : d = live.input
  <2>1. live \in Document
    BY Lengths
  <2> QED  BY <2>1, DocFields
<1>5. last = NoInput /\ last = input => d = input
  <2> SUFFICES ASSUME last = NoInput, last = input
               PROVE  d = input
    OBVIOUS
  <2>1. draft = Prompt /\ queue = Prompt
    <3>1. input.draft = NoInput.draft /\ input.queued = NoInput.queued
      OBVIOUS
    <3>2. input.draft = draft /\ input.queued = queue
      BY <1>3
    <3>3. NoInput.draft = Prompt /\ NoInput.queued = Prompt
      BY DEF NoInput
    <3> QED  BY <3>1, <3>2, <3>3
  <2>2. Prompt = {}
    BY <2>1
  <2>3. \A e \in Input : e = [draft |-> {}, queued |-> {}]
    BY <2>2 DEF Input
  <2> QED  BY <2>3
<1>6. last = NoInput \/ last = d
  BY <1>4 DEF LastSound
<1>7. live'.input = input
  BY <1>2, <1>3, <1>4, <1>5, <1>6
<1>8. last' = input
  BY <1>1, <1>3 DEF CaptureIs
<1>9. LastSound'
  BY <1>7, <1>8 DEF LastSound
<1> QED  BY <1>1, <1>3, <1>7, <1>9

\* Steps that leave the input alone.
LEMMA LastFrame ==
    ASSUME LastSound, live'.input = live.input, last' \in {NoInput, last}
    PROVE  LastSound'
BY DEF LastSound

\* A checkpoint captures no other input.
LEMMA CheckpointLast ==
    ASSUME Typed, LastSound, NEW by \in {"ui", "worker"},
           NEW stage \in {"Preserve", "Begin", "Accept"}, Checkpoint(by, stage)
    PROVE  LastSound'
<1>1. CASE CheckpointRefused(by)
  BY <1>1, LastFrame DEF CheckpointRefused
<1>2. CASE CheckpointTaken(by, stage)
  <2>1. last' = IF stage = "Accept" THEN NoInput ELSE last
    BY <1>2 DEF CheckpointTaken
  <2>2. stage # "Accept" => live'.input = live.input
    BY <1>2 DEF CheckpointTaken, DocIs
  <2>3. CASE stage = "Accept"
    BY <2>1, <2>3 DEF LastSound
  <2>4. CASE stage # "Accept"
    BY <2>1, <2>2, <2>4, LastFrame
  <2> QED  BY <2>3, <2>4
<1> QED  BY <1>1, <1>2, CheckpointEffect

\* A save captures no input.
LEMMA SavingLast ==
    ASSUME Typed, Threads, SaveSound, LastSound, Saving
    PROVE  LastSound'
<1>1. CASE Copy
  BY <1>1, CopyEffect, LastFrame DEF CopyIs
<1>2. CASE WriteDocument
  BY <1>2, WriteEffect, LastFrame DEF WriteIs
<1>3. CASE SaveFails
  <2>1. CASE Withdrawn
    BY <2>1 DEF Withdrawn, LastSound
  <2>2. CASE Unnoted
    BY <2>2, LastFrame DEF Unnoted, DocIs
  <2>3. CASE UNCHANGED <<live, last, events>>
    BY <2>3, LastFrame
  <2> QED  BY <1>3, <2>1, <2>2, <2>3, FailEffect DEF FailIs
<1> QED  BY <1>1, <1>2, <1>3 DEF Saving

\* Nor do autosave, receipt and title.
LEMMA OthersLast ==
    ASSUME Typed, LastSound, Flush \/ AppendReceipt \/ Title
    PROVE  LastSound'
<1>1. CASE Flush
  BY <1>1, FlushEffect, LastFrame DEF FlushIs
<1>2. CASE AppendReceipt
  <2>1. AppendReceiptIs
    BY <1>2, AppendReceiptEffect
  <2>2. live'.input = live.input
    BY <2>1 DEF AppendReceiptIs, NoteIs, DocIs
  <2> QED  BY <2>1, <2>2, LastFrame DEF AppendReceiptIs
<1>3. CASE Title
  <2>1. TitleIs
    BY <1>3, TitleEffect
  <2>2. live'.input = live.input
    BY <2>1 DEF TitleIs, DocIs
  <2> QED  BY <2>1, <2>2, LastFrame DEF TitleIs
<1> QED  BY <1>1, <1>2, <1>3

\* No prompt of the document that was not taken back is in its input.
Free(d, back) == \A i \in (1..Len(d.messages)) \ back : d.messages[i] \cap Inputs(d) = {}

\* Clear and KeptFrom, by prompts.
LEMMA ClearIs ==
    /\ Clear(live) <=> Free(live, returned)
    /\ Clear(disk) <=> Free(disk, returned)
    /\ Clear(save.copy) <=> Free(save.copy, returned)
    /\ KeptFrom(live) <=> Outside(messages, Kept, Inputs(live))
    /\ KeptFrom(save.before) <=> Outside(messages, Kept, Inputs(save.before))
BY DEF Clear, Free, KeptFrom, Outside

\* The same in the next state.
LEMMA NextClearIs ==
    /\ Clear(live)' <=> Free(live', returned')
    /\ Clear(disk)' <=> Free(disk', returned')
    /\ Clear(save.copy)' <=> Free(save'.copy, returned')
    /\ KeptFrom(live)' <=> Outside(messages', Kept', Inputs(live'))
    /\ KeptFrom(save.before)' <=> Outside(messages', Kept', Inputs(save'.before))
BY DEF Clear, Free, KeptFrom, Outside, Inputs

\* What more is taken back does no harm.
LEMMA FreeLess ==
    ASSUME NEW d, NEW back, NEW more, back \subseteq more, Free(d, back)
    PROVE  Free(d, more)
BY DEF Free

\* A document that begins the archive has only messages of it.
LEMMA FreeBeginning ==
    ASSUME NEW d, NEW ms, NEW K, NEW back, Begins(d.messages, ms), Outside(ms, K, Inputs(d)),
           \A i \in (1..Len(d.messages)) \ back : i \in K
    PROVE  Free(d, back)
BY DEF Begins, Outside, Free

\* The same history and input.
LEMMA FreeSame ==
    ASSUME NEW d, NEW e, NEW back, d.messages = e.messages, d.input = e.input, Free(e, back)
    PROVE  Free(d, back)
BY DEF Free, Inputs

\* The messages kept stay, and those that come hold nothing of the input.
LEMMA OutsideStep ==
    ASSUME NEW D, Outside(messages, Kept, D),
           \A i \in Kept' : (i \in Kept /\ messages'[i] = messages[i]) \/ messages'[i] \cap D = {}
    PROVE  Outside(messages', Kept', D)
BY DEF Outside

\* The parts of InputSound, in the next state.
LEMMA InputParts ==
    ASSUME ~crossed' => /\ Free(live', returned') /\ Free(disk', returned')
                        /\ save'.step = "write" => Free(save'.copy, returned')
                        /\ Outside(messages', Kept', Inputs(live'))
                        /\ recorded' => live'.input.draft \cap queued' = {}
                        /\ save'.stage \in {"Begin", "Accept"} =>
                               /\ ~save'.edited /\ save'.before.input.draft = live'.input.draft
                               /\ Outside(messages', Kept', Inputs(save'.before))
    PROVE  InputSound'
BY NextClearIs DEF InputSound

\* What InputSound says unless a title crossed a withdrawal.
LEMMA InputHolds ==
    ASSUME InputSound, ~crossed
    PROVE  /\ Free(live, returned) /\ Free(disk, returned)
           /\ save.step = "write" => Free(save.copy, returned)
           /\ Outside(messages, Kept, Inputs(live))
           /\ recorded => live.input.draft \cap queued = {}
           /\ save.stage \in {"Begin", "Accept"} =>
                  /\ ~save.edited /\ save.before.input.draft = live.input.draft
                  /\ Outside(messages, Kept, Inputs(save.before))
BY ClearIs DEF InputSound

\* The document's messages and input stay.
LEMMA InputFrame ==
    ASSUME InputSound, UNCHANGED <<returned, disk, crossed>>,
           live'.messages = live.messages, live'.input = live.input,
           save'.step = "write" => save.step = "write" /\ save'.copy = save.copy,
           recorded' => recorded /\ queued' \subseteq queued,
           save'.stage \in {"Begin", "Accept"} =>
               /\ save'.stage = save.stage /\ save'.edited = save.edited
               /\ save'.before = save.before,
           \A i \in Kept' : \/ i \in Kept /\ messages'[i] = messages[i]
                            \/ messages'[i] \cap Inputs(live) = {} /\ save'.stage = "Preserve"
    PROVE  InputSound'
<1> SUFFICES ASSUME ~crossed
             PROVE  InputSound'
  BY DEF InputSound
<1>1. Free(live', returned')
  BY InputHolds, FreeSame
<1>2. Inputs(live') = Inputs(live)
  BY DEF Inputs
<1>3. Outside(messages', Kept', Inputs(live'))
  BY <1>2, InputHolds, OutsideStep
<1>4. save'.stage \in {"Begin", "Accept"} => Outside(messages', Kept', Inputs(save'.before))
  <2> SUFFICES ASSUME save'.stage \in {"Begin", "Accept"}
               PROVE  Outside(messages', Kept', Inputs(save'.before))
    OBVIOUS
  <2>1. Outside(messages, Kept, Inputs(save.before)) /\ save'.before = save.before
    BY InputHolds
  <2>2. \A i \in Kept' : i \in Kept /\ messages'[i] = messages[i]
    OBVIOUS
  <2> QED  BY <2>1, <2>2, OutsideStep
<1> QED  BY <1>1, <1>3, <1>4, InputHolds, InputParts

\* A capture puts into the document what is in the drafts and in the queue,
\* which hold nothing of the conversation.
LEMMA InputCaptured ==
    ASSUME Typed, Typed', LinkSound', Apart', InputSound, LastSound,
           CapturedInto(composer' \cup paused', queued'),
           save.stage = "Preserve", worker' # "accepting", returned \subseteq returned',
           crossed' = crossed
    PROVE  InputSound' /\ LastSound'
<1>1. /\ composer' \subseteq Prompt /\ paused' \subseteq Prompt /\ queued' \subseteq Prompt
  BY NextTypedParts DEF InputsFine
<1>2. DraftsApart' /\ Outside(messages', Kept', Drafts')
  BY NextApartIs
<1>3. (composer' \cup paused') \cap queued' = {}
  BY <1>2 DEF DraftsApart
<1>4. /\ CaptureIs(composer' \cup paused', queued') /\ LastSound'
      /\ live'.input = [draft |-> composer' \cup paused', queued |-> queued']
  <2> DEFINE draft == composer' \cup paused'
  <2>1. draft \subseteq Prompt
    BY <1>1
  <2> HIDE DEF draft
  <2>2. draft \cap queued' = {} /\ CapturedInto(draft, queued')
    BY <1>3 DEF draft
  <2>3. CaptureIs(draft, queued') /\ live'.input = [draft |-> draft, queued |-> queued'] /\ LastSound'
    BY <1>1, <2>1, <2>2, CaptureTakes
  <2> QED  BY <2>3 DEF draft
<1> SUFFICES ASSUME ~crossed
             PROVE  InputSound'
  BY <1>4 DEF InputSound
<1>5. /\ live'.messages = live.messages /\ disk' = disk
      /\ save'.stage = "Preserve" /\ save'.step = save.step /\ save'.copy = save.copy
  BY <1>4 DEF CaptureIs
<1>6. Inputs(live') = Drafts' /\ live'.input.draft \cap queued' = {}
  BY <1>3, <1>4 DEF Inputs, Drafts
<1>7. Outside(messages', Kept', Inputs(live'))
  BY <1>2, <1>6
<1>8. Free(live', returned')
  <2>1. Begins(live'.messages, messages')
    BY DEF LinkSound
  <2>2. Kept' = (1..Len(messages')) \ returned'
    BY DEF Kept, Settled
  <2>3. \A i \in (1..Len(live'.messages)) \ returned' : i \in Kept'
    <3>1. messages' \in Seq(Message) /\ live' \in Document
      BY NextTypedParts DEF ArchiveFine, HandleFine
    <3>2. live'.messages \in Seq(Message)
      BY <3>1, DocFields
    <3>3. Len(messages') \in Nat /\ Len(live'.messages) \in Nat
      BY <3>1, <3>2, LenProperties
    <3> QED  BY <2>1, <2>2, <3>3 DEF Begins
  <2> QED  BY <1>7, <2>1, <2>3, FreeBeginning
<1>9. Free(disk', returned') /\ (save'.step = "write" => Free(save'.copy, returned'))
  BY <1>5, InputHolds, FreeLess
<1> QED  BY <1>5, <1>6, <1>7, <1>8, <1>9, InputParts

\* A save that fails gives the input back as it was.
LEMMA SavingInput ==
    ASSUME Typed, Typed', Threads, SaveSound, TurnSound, LinkSound, InputSound, Saving
    PROVE  InputSound'
<1>a. NoSave.stage = "Preserve" /\ NoSave.step = "copy"
  BY NoSaveFields
<1>b. /\ Len(messages) \in Nat /\ Settled \in Nat /\ from \in Nat
      /\ worker # "accepting" => Settled = Len(messages)
      /\ worker = "accepting" => Settled = Len(messages) - 1
  BY TurnLengths
<1>0. UNCHANGED <<messages, returned, queued, recorded, worker, crossed>>
  BY DEF Saving, Copy, WriteDocument, SaveFails, Returns, inputs, threads, archive
<1>c. Kept' = Kept
  BY <1>0 DEF Kept, Settled
<1>d. \A i \in Kept' : i \in Kept /\ messages'[i] = messages[i]
  BY <1>0, <1>c
<1> SUFFICES ASSUME ~crossed
             PROVE  InputSound'
  BY <1>0 DEF InputSound
<1>e. /\ Free(live, returned) /\ Free(disk, returned)
      /\ save.step = "write" => Free(save.copy, returned)
      /\ Outside(messages, Kept, Inputs(live))
      /\ recorded => live.input.draft \cap queued = {}
      /\ save.stage \in {"Begin", "Accept"} =>
             /\ ~save.edited /\ save.before.input.draft = live.input.draft
             /\ Outside(messages, Kept, Inputs(save.before))
  BY InputHolds
<1>1. CASE Copy
  <2>1. /\ UNCHANGED <<live, disk>>
        /\ save'.stage = save.stage /\ save'.before = save.before /\ save'.edited = save.edited
        /\ save'.copy = live
    BY <1>1, CopyEffect DEF CopyIs, SaveIs
  <2> QED  BY <1>0, <1>c, <1>e, <2>1, InputParts
<1>2. CASE WriteDocument
  <2>1. save' = NoSave /\ live' = live /\ disk' = save.copy /\ save.step = "write"
    BY <1>2, WriteEffect DEF WriteIs, ReturnIs
  <2> QED  BY <1>0, <1>a, <1>c, <1>e, <2>1, InputParts
<1>3. CASE SaveFails
  <2>1. FailIs
    BY <1>3, FailEffect
  <2>2. save' = NoSave /\ disk' = disk /\ save.by # Nobody
    BY <2>1 DEF FailIs, ReturnIs
  <2>3. CASE Withdrawn
    <3>1. /\ save.stage \in {"Begin", "Accept"}
          /\ live'.messages = save.before.messages
          /\ live'.input = IF save.edited THEN live.input ELSE save.before.input
      BY <2>3 DEF Withdrawn, DocIs
    <3>2. live'.input = save.before.input /\ save.before.input.draft = live.input.draft
          /\ Outside(messages, Kept, Inputs(save.before))
      BY <1>e, <3>1
    <3>3. Inputs(live') = Inputs(save.before)
      BY <3>2 DEF Inputs
    <3>4. /\ messages \in Seq(Message) /\ live.messages \in Seq(Message)
          /\ save.before.messages \in Seq(Message) /\ Len(save.before.messages) \in Nat
      BY Lengths
    <3>5. Begins(save.before.messages, messages)
      BY <2>2, <3>4, BeginsFurther DEF SaveSound, DocBegins, LinkSound
    <3>6. Len(save.before.messages) <= Settled
      <4>1. CASE save.stage = "Begin"
        <5>1. ui = "beginning" /\ worker = "idle"
          BY <4>1 DEF Threads
        <5>2. Len(save.before.messages) <= from /\ Len(messages) = from + 1
          BY <4>1, <5>1 DEF LinkSound, Unsaved, TurnSound, Beginning
        <5> QED  BY <1>b, <3>4, <5>1, <5>2
      <4>2. CASE save.stage = "Accept"
        <5>1. worker = "accepting" /\ Len(save.before.messages) < Len(messages)
          BY <4>2 DEF Threads, LinkSound
        <5> QED  BY <1>b, <3>4, <5>1
      <4> QED  BY <3>1, <4>1, <4>2
    <3>7. \A i \in (1..Len(save.before.messages)) \ returned : i \in Kept
      BY <1>b, <3>4, <3>6 DEF Kept
    <3>8. Free(save.before, returned)
      BY <3>2, <3>5, <3>7, FreeBeginning
    <3>9. Free(live', returned')
      BY <1>0, <3>1, <3>2, <3>8, FreeSame
    <3> QED  BY <1>0, <1>a, <1>c, <1>e, <2>2, <3>2, <3>3, <3>9, InputParts
  <2>4. CASE Unnoted
    <3>1. live'.messages = live.messages /\ live'.input = live.input
      BY <2>4 DEF Unnoted, DocIs
    <3> QED  BY <1>0, <1>a, <1>d, <2>2, <3>1, InputFrame
  <2>5. CASE UNCHANGED <<live, last, events>>
    BY <1>0, <1>a, <1>d, <2>2, <2>5, InputFrame
  <2> QED  BY <2>1, <2>3, <2>4, <2>5 DEF FailIs
<1> QED  BY <1>1, <1>2, <1>3 DEF Saving

\* Autosave, receipt and title leave input and messages apart.
LEMMA OthersInput ==
    ASSUME Typed, Typed', Threads, TurnSound, LinkSound, InputSound, Flush \/ AppendReceipt \/ Title
    PROVE  InputSound'
<1>a. NoSave.stage = "Preserve" /\ NoSave.step = "copy"
  BY NoSaveFields
<1>0. UNCHANGED <<messages, returned, queued, recorded, worker, disk>>
  BY DEF Flush, AppendReceipt, Title, inputs, archive
<1>c. Kept' = Kept
  BY <1>0 DEF Kept, Settled
<1>d. \A i \in Kept' : i \in Kept /\ messages'[i] = messages[i]
  BY <1>0, <1>c
<1>1. CASE Flush
  <2>1. UNCHANGED <<live, crossed>> /\ save'.step = "copy" /\ save'.stage = "Preserve"
    BY <1>1, FlushEffect DEF FlushIs, SaveIs
  <2> QED  BY <1>0, <1>d, <2>1, InputFrame
<1>2. CASE AppendReceipt
  <2>1. AppendReceiptIs
    BY <1>2, AppendReceiptEffect
  <2>2. /\ live'.messages = live.messages /\ live'.input = live.input /\ crossed' = crossed
        /\ save' = save \/ (save'.step = "copy" /\ save'.stage = "Preserve")
    BY <2>1 DEF AppendReceiptIs, NoteIs, DocIs, SaveIs
  <2> QED  BY <1>0, <1>d, <2>2, InputFrame
<1>3. CASE Title
  <2>1. TitleIs
    BY <1>3, TitleEffect
  <2>a. crossed => crossed'
    BY <2>1 DEF TitleIs
  <2>2. live'.input = live.input /\ save'.step = "copy" /\ save'.stage = "Preserve"
    BY <2>1 DEF TitleIs, DocIs, SaveIs
  <2> SUFFICES ASSUME ~crossed'
               PROVE  InputSound'
    BY DEF InputSound
  <2>3. ~crossed /\ crossed' = crossed
    BY <2>a, HandleTypes, NextHandleTypes DEF Typed
  <2>4. Begins(live.messages, messages) /\ Begins(live.events, events)
    BY <2>3 DEF LinkSound
  <2>5. live'.messages = messages /\ ~NewPrompt
    BY <2>1, <2>3, <2>4 DEF TitleIs, DocIs
  <2>6. CASE messages = live.messages
    BY <1>0, <1>d, <2>2, <2>3, <2>5, <2>6, InputFrame
  <2>7. CASE worker # "accepting"
    <3>1. Kept = (1..Len(messages)) \ returned
      BY <2>7 DEF Kept, Settled
    <3>2. Inputs(live') = Inputs(live)
      BY <2>2 DEF Inputs
    <3>3. Outside(messages, Kept, Inputs(live))
      BY <2>3, InputHolds
    <3>4. Free(live', returned')
      BY <1>0, <2>5, <3>1, <3>2, <3>3 DEF Free, Outside
    <3> QED  BY <1>0, <1>c, <2>2, <2>3, <3>2, <3>3, <3>4, InputHolds, InputParts
  <2>8. CASE worker = "accepting"
    <3>1. /\ live.messages \in Seq(Message) /\ messages \in Seq(Message)
          /\ Len(live.messages) \in Nat /\ Len(messages) \in Nat
      BY Lengths
    <3>2. Len(messages) <= Len(live.messages)
      BY <2>5, <2>8, <3>1 DEF NewPrompt, Preparing
    <3>3. Len(messages) = Len(live.messages)
      BY <2>4, <3>1, <3>2 DEF Begins
    <3>4. messages = live.messages
      BY <2>4, <3>1, <3>3, BeginsAll
    <3> QED  BY <2>6, <3>4
  <2> QED  BY <2>7, <2>8
<1> QED  BY <1>1, <1>2, <1>3

\* What is saved before a step goes on is the archive; the input stays, or
\* loses what is accepted.
LEMMA CheckpointInput ==
    ASSUME Typed, Typed', Threads, TurnSound, LinkSound, InputSound, NEW by \in {"ui", "worker"},
           NEW stage \in {"Preserve", "Begin", "Accept"}, Checkpoint(by, stage),
           stage = "Accept" <=> worker = "accepting",
           UNCHANGED <<messages, returned, queued, recorded, worker, crossed>>
    PROVE  InputSound'
<1> SUFFICES ASSUME ~crossed
             PROVE  InputSound'
  BY DEF InputSound
<1>1. Begins(live.messages, messages) /\ Begins(live.events, events)
  BY DEF LinkSound
<1>2. /\ CheckpointTaken(by, stage) /\ live'.messages = messages
      /\ save'.stage = stage /\ save'.before = live
  BY <1>1, LinkChecked
<1>3. /\ live'.input = IF stage = "Accept" THEN [draft |-> live.input.draft, queued |-> {}]
                       ELSE live.input
      /\ save'.step = "copy" /\ save'.edited = FALSE /\ disk' = disk
  BY <1>2 DEF CheckpointTaken, DocIs, SaveIs
<1>4. Kept' = Kept
  BY DEF Kept, Settled
<1>5. /\ Free(disk, returned) /\ Outside(messages, Kept, Inputs(live))
      /\ recorded => live.input.draft \cap queued = {}
  BY InputHolds
<1>6. live'.input.draft = live.input.draft /\ Inputs(live') \subseteq Inputs(live)
  BY <1>3 DEF Inputs
<1>7. Outside(messages, Kept, Inputs(live'))
  BY <1>5, <1>6 DEF Outside
<1>8. Free(live', returned')
  <2> SUFFICES ASSUME NEW i \in (1..Len(messages)) \ returned
               PROVE  messages[i] \cap Inputs(live') = {}
    BY <1>2 DEF Free
  <2>1. CASE i \in Kept
    BY <1>7, <2>1 DEF Outside
  <2>2. CASE i \notin Kept
    <3>1. /\ Len(messages) \in Nat
          /\ worker # "accepting" => Settled = Len(messages)
          /\ worker = "accepting" => Settled = Len(messages) - 1
      BY TurnLengths
    <3>2. worker = "accepting" /\ i = Len(messages)
      BY <2>2, <3>1 DEF Kept
    <3>3. messages[i] = queued /\ recorded
      BY <3>2 DEF TurnSound
    <3>4. Inputs(live') = live.input.draft
      BY <1>3, <3>2 DEF Inputs
    <3> QED  BY <1>5, <3>3, <3>4
  <2> QED  BY <2>1, <2>2
<1> QED  BY <1>2, <1>3, <1>4, <1>5, <1>6, <1>7, <1>8, InputParts

\* What the user sends leaves the captured input with its checkpoint.
LEMMA UserInput ==
    ASSUME Typed, Typed', Threads, TurnSound, LinkSound', Apart', InputSound, LastSound, User
    PROVE  InputSound' /\ LastSound'
<1>a. save.stage \in {"Preserve", "Begin", "Accept"}
  BY SaveFields DEF Typed
<1>b. ui = "loop" /\ worker # "accepting" => save.stage = "Preserve"
  BY <1>a DEF Threads
<1>1. ASSUME NEW p \in Prompt, Type(p)
      PROVE  InputSound' /\ LastSound'
  <2>1. /\ CapturedInto(composer' \cup paused, queued) /\ ui = "loop" /\ worker # "accepting"
        /\ UNCHANGED <<paused, queued, returned, worker, crossed>>
    BY <1>1 DEF Type, Captures, InboxLocked, archive, threads
  <2>2. CapturedInto(composer' \cup paused', queued')
    BY <2>1
  <2> QED  BY <1>b, <2>1, <2>2, InputCaptured
<1>2. CASE Queue \/ TakeBack
  <2>1. /\ UNCHANGED <<live, save, disk, last, messages, returned, worker, crossed>>
        /\ recorded' => recorded /\ queued' \subseteq queued
    BY <1>2 DEF Queue, TakeBack, handle, archive
  <2>2. Kept' = Kept
    BY <2>1 DEF Kept, Settled
  <2>3. InputSound'
    BY <2>1, <2>2, InputFrame
  <2> QED  BY <2>1, <2>3, LastFrame
<1>3. CASE Send
  <2>1. /\ CapturedInto(composer' \cup paused, queued') /\ ui = "loop" /\ worker = "idle"
        /\ UNCHANGED <<paused, returned, worker, crossed>>
    BY <1>3 DEF Send, Captures
  <2>2. CapturedInto(composer' \cup paused', queued')
    BY <2>1
  <2> QED  BY <1>b, <2>1, <2>2, InputCaptured
<1> QED  BY <1>1, <1>2, <1>3 DEF User

\* What the interface returns is in no message that stays.
LEMMA InterfaceInput ==
    ASSUME Typed, Typed', Threads, TurnSound, LinkSound, LinkSound', Apart', InputSound, LastSound,
           SendingSound, Interface
    PROVE  InputSound' /\ LastSound'
<1>a. save.stage \in {"Preserve", "Begin", "Accept"}
  BY SaveFields DEF Typed
<1>b. ui # "beginning" /\ worker # "accepting" => save.stage = "Preserve"
  BY <1>a DEF Threads
<1>c. ui = "beginning" /\ result["ui"] # "none" => save.stage = "Preserve" /\ worker = "idle"
  BY <1>a DEF Threads
<1>1. CASE CaptureInput \/ Show
  <2>1. /\ CapturedInto(composer \cup paused, queued)
        /\ ui \in {"loop", "capture"} /\ worker # "accepting"
        /\ UNCHANGED <<composer, paused, queued, returned, worker, crossed>>
    BY <1>1 DEF CaptureInput, Show, Captures, InboxLocked, archive, threads
  <2>2. CapturedInto(composer' \cup paused', queued')
    BY <2>1
  <2> QED  BY <1>b, <2>1, <2>2, InputCaptured
<1>2. CASE BeginCheckpoint
  <2>1. /\ Checkpoint("ui", "Begin") /\ ui = "begin"
        /\ UNCHANGED <<messages, returned, queued, recorded, worker, crossed>>
    BY <1>2 DEF BeginCheckpoint, inputs, archive
  <2>2. worker # "accepting"
    BY <2>1 DEF Threads
  <2> QED  BY <2>1, <2>2, CheckpointInput, CheckpointLast
<1>3. CASE ReturnCheckpoint
  <2>1. /\ Checkpoint("ui", "Preserve") /\ ui = "returned"
        /\ UNCHANGED <<messages, returned, queued, recorded, worker, crossed>>
    BY <1>3 DEF ReturnCheckpoint, inputs, archive
  <2>2. worker # "accepting"
    BY <2>1 DEF Threads
  <2> QED  BY <2>1, <2>2, CheckpointInput, CheckpointLast
<1>4. CASE Begun
  <2>1. /\ CapturedInto(composer \cup paused, queued) /\ ui = "beginning"
        /\ TakesResult("ui", "ok") /\ worker' = "asking"
        /\ UNCHANGED <<composer, paused, queued, returned, crossed>>
    BY <1>4 DEF Begun, archive
  <2>2. result["ui"] = "ok"
    BY <2>1, TakesFine
  <2>3. CapturedInto(composer' \cup paused', queued')
    BY <2>1
  <2> QED  BY <1>c, <2>1, <2>2, <2>3, InputCaptured
<1>5. CASE NotBegun
  <2>1. /\ messages' = SubSeq(messages, 1, from) /\ ui = "beginning" /\ TakesResult("ui", "error")
        /\ UNCHANGED <<live, save, disk, last, worker, returned, queued, recorded, crossed>>
    BY <1>5 DEF NotBegun, inputs
  <2>2. worker = "idle" /\ Len(messages) = from + 1
    BY <2>1 DEF Threads, TurnSound, Beginning
  <2>3. /\ messages \in Seq(Message) /\ Len(messages) \in Nat /\ from \in Nat
    BY Lengths, TurnLengths
  <2>4. from \in 0..Len(messages)
    BY <2>2, <2>3
  <2>5. Len(messages') = from /\ \A i \in 1..from : messages'[i] = messages[i]
    BY <2>1, <2>3, <2>4, CutProperties
  <2>6. Kept = (1..(from + 1)) \ returned /\ Kept' = (1..from) \ returned
    BY <2>1, <2>2, <2>5 DEF Kept, Settled
  <2>7. \A i \in Kept' : i \in Kept /\ messages'[i] = messages[i]
    BY <2>3, <2>5, <2>6
  <2>8. InputSound'
    BY <2>1, <2>7, InputFrame
  <2> QED  BY <2>1, <2>8, LastFrame
<1>6. CASE Finished
  <2>1. /\ UNCHANGED <<live, save, disk, last, messages, returned, queued, recorded, crossed>>
        /\ worker = "done" /\ worker' = "idle"
    BY <1>6 DEF Finished, handle, archive
  <2>2. Kept' = Kept
    BY <2>1 DEF Kept, Settled
  <2>3. InputSound'
    BY <2>1, <2>2, InputFrame
  <2> QED  BY <2>1, <2>3, LastFrame
<1>7. CASE Paused
  <2>1. /\ CapturedInto(composer' \cup paused', {}) /\ queued' = {} /\ ui = "loop"
        /\ worker = "done" /\ worker' = "idle"
        /\ UNCHANGED <<returned, crossed>>
    BY <1>7 DEF Paused, Captures, archive
  <2>2. CapturedInto(composer' \cup paused', queued')
    BY <2>1
  <2> QED  BY <1>b, <2>1, <2>2, InputCaptured
<1>8. CASE Returned
  <2>1. /\ CapturedInto(composer' \cup paused', {}) /\ queued' = {} /\ ui = "loop"
        /\ worker = "done" /\ worker' = "idle"
        /\ returned \subseteq returned' /\ crossed' = crossed
    BY <1>8 DEF Returned, Captures
  <2>2. CapturedInto(composer' \cup paused', queued')
    BY <2>1
  <2> QED  BY <1>b, <2>1, <2>2, InputCaptured
<1>9. CASE ReturnSaved
  <2>1. UNCHANGED <<live, save, disk, last, messages, returned, queued, recorded, worker, crossed>>
    BY <1>9 DEF ReturnSaved, inputs, archive
  <2>2. Kept' = Kept
    BY <2>1 DEF Kept, Settled
  <2>3. InputSound'
    BY <2>1, <2>2, InputFrame
  <2> QED  BY <2>1, <2>3, LastFrame
<1>10. CASE PushPrompt
  <2>1. /\ messages' = Append(messages, sending) /\ ui = "starting"
        /\ UNCHANGED <<live, save, disk, last, worker, returned, queued, recorded, crossed>>
    BY <1>10 DEF PushPrompt, handle, inputs
  <2>2. worker = "idle" /\ save.stage = "Preserve"
    BY <1>b, <2>1 DEF Threads
  <2>3. PICK m \in Message : m = sending
    BY InputSets DEF Message
  <2>4. PICK n \in Nat : n = Len(messages) /\ messages \in Seq(Message)
    BY Lengths
  <2>5. /\ Len(messages') = n + 1 /\ messages'[n + 1] = m
        /\ \A i \in 1..n : messages'[i] = messages[i]
    BY <2>1, <2>3, <2>4, AppendedProperties
  <2>6. Kept = (1..n) \ returned /\ Kept' = (1..(n + 1)) \ returned
    BY <2>1, <2>2, <2>4, <2>5 DEF Kept, Settled
  <2>7. m \cap Inputs(live) = {}
    BY <2>1, <2>3 DEF SendingSound, OnItsWay
  <2>8. \A i \in Kept' : (i \in Kept /\ messages'[i] = messages[i])
                         \/ (messages'[i] \cap Inputs(live) = {} /\ save'.stage = "Preserve")
    BY <2>1, <2>2, <2>5, <2>6, <2>7
  <2>9. InputSound'
    BY <2>1, <2>8, InputFrame
  <2> QED  BY <2>1, <2>9, LastFrame
<1>11. CASE Withdraw
  <2>1. /\ CapturedInto(composer' \cup paused', {}) /\ queued' = {} /\ ui = "withdrawing"
        /\ UNCHANGED <<worker, returned, crossed>>
    BY <1>11 DEF Withdraw, Captures
  <2>2. worker = "idle"
    BY <2>1 DEF Threads
  <2>3. CapturedInto(composer' \cup paused', queued')
    BY <2>1
  <2> QED  BY <1>b, <2>1, <2>2, <2>3, InputCaptured
<1> QED  BY <1>1, <1>2, <1>3, <1>4, <1>5, <1>6, <1>7, <1>8, <1>9, <1>10, <1>11 DEF Interface

\* What the worker accepts leaves the captured input.
LEMMA WorkerInput ==
    ASSUME Typed, Typed', Threads, TurnSound, LinkSound, InputSound, LastSound, Worker
    PROVE  InputSound' /\ LastSound'
<1>a. /\ Len(messages) \in Nat /\ messages \in Seq(Message) /\ from \in Nat
      /\ worker # "accepting" => Settled = Len(messages)
      /\ worker = "accepting" => Settled = Len(messages) - 1 /\ Len(messages) \in Nat \ {0}
  BY TurnLengths
<1>b. save.stage \in {"Preserve", "Begin", "Accept"}
  BY SaveFields DEF Typed
<1>1. CASE Accept
  <2>1. /\ worker = "asking" /\ worker' = "accepting" /\ messages' = Append(messages, Deliverable)
        /\ UNCHANGED <<live, save, disk, last, returned, queued, recorded, crossed>>
    BY <1>1 DEF Accept, handle, inputs
  <2>2. PICK m \in Message : m = Deliverable
    BY InputSets DEF Message, Deliverable
  <2>3. PICK n \in Nat : n = Len(messages)
    BY <1>a
  <2>4. Len(messages') = n + 1 /\ \A i \in 1..n : messages'[i] = messages[i]
    BY <1>a, <2>1, <2>2, <2>3, AppendedProperties
  <2>5. Kept = (1..n) \ returned /\ Kept' = (1..n) \ returned
    BY <2>1, <2>3, <2>4 DEF Kept, Settled
  <2>6. \A i \in Kept' : i \in Kept /\ messages'[i] = messages[i]
    BY <2>4, <2>5
  <2>7. InputSound'
    BY <2>1, <2>6, InputFrame
  <2> QED  BY <2>1, <2>7, LastFrame
<1>2. CASE AcceptCheckpoint
  <2>1. /\ Checkpoint("worker", "Accept") /\ worker = "accepting"
        /\ UNCHANGED <<messages, returned, queued, recorded, worker, crossed>>
    BY <1>2 DEF AcceptCheckpoint, archive, threads, inputs
  <2> QED  BY <2>1, CheckpointInput, CheckpointLast
<1>3. CASE Ask \/ Stop \/ Answered \/ Ended \/ KnowsCompletion
  <2>1. /\ UNCHANGED <<live, save, disk, last, messages, returned, queued, recorded, crossed>>
        /\ worker # "accepting" /\ worker' # "accepting"
    BY <1>3 DEF Ask, Stop, Answered, Ended, KnowsCompletion, handle, archive, inputs, threads
  <2>2. Kept' = Kept
    BY <2>1 DEF Kept, Settled
  <2>3. InputSound'
    BY <2>1, <2>2, InputFrame
  <2> QED  BY <2>1, <2>3, LastFrame
<1>4. CASE Accepted
  <2>1. /\ worker = "accepting" /\ worker' = "sampling" /\ queued' = {} /\ TakesResult("worker", "ok")
        /\ UNCHANGED <<live, save, disk, last, messages, returned, recorded, crossed>>
    BY <1>4 DEF Accepted, archive
  <2>2. result["worker"] = "ok"
    BY <2>1, TakesFine
  <2>3. save.stage = "Preserve"
    BY <1>b, <2>1, <2>2 DEF Threads
  <2>4. PICK n \in Nat : Len(messages) = n + 1 /\ Settled = n
    BY <1>a, <2>1
  <2>5. Kept = (1..n) \ returned /\ Kept' = (1..(n + 1)) \ returned
    BY <2>1, <2>4 DEF Kept, Settled
  <2> SUFFICES ASSUME ~crossed
               PROVE  InputSound' /\ LastSound'
    BY <2>1, LastFrame DEF InputSound
  <2>6. Begins(live.messages, messages) /\ Len(live.messages) = n + 1
    BY <2>1, <2>2, <2>4 DEF LinkSound
  <2>7. Free(live, returned)
    BY InputHolds
  <2>8. n + 1 \notin returned => messages[n + 1] \cap Inputs(live) = {}
    BY <2>6, <2>7 DEF Begins, Free
  <2>9. \A i \in Kept' : (i \in Kept /\ messages'[i] = messages[i])
                         \/ (messages'[i] \cap Inputs(live) = {} /\ save'.stage = "Preserve")
    BY <2>1, <2>3, <2>5, <2>8
  <2>10. InputSound'
    BY <2>1, <2>9, InputFrame
  <2> QED  BY <2>1, <2>10, LastFrame
<1>5. CASE NotAccepted
  <2>1. /\ worker = "accepting" /\ worker' = "ending"
        /\ messages' = SubSeq(messages, 1, Len(messages) - 1)
        /\ UNCHANGED <<live, save, disk, last, returned, queued, recorded, crossed>>
    BY <1>5 DEF NotAccepted, inputs
  <2>2. PICK n \in 0..Len(messages) : n = Settled /\ n = Len(messages) - 1
    BY <1>a, <2>1
  <2>3. Len(messages') = n /\ \A i \in 1..n : messages'[i] = messages[i]
    BY <1>a, <2>1, <2>2, CutProperties
  <2>4. Kept' = (1..n) \ returned /\ Kept = (1..n) \ returned
    BY <2>1, <2>2, <2>3 DEF Kept, Settled
  <2>5. \A i \in Kept' : i \in Kept /\ messages'[i] = messages[i]
    BY <2>3, <2>4
  <2>6. InputSound'
    BY <2>1, <2>5, InputFrame
  <2> QED  BY <2>1, <2>6, LastFrame
<1>6. CASE Completion
  <2>1. /\ worker = "sampling" /\ worker' = "answering" /\ messages' = Append(messages, NoPrompts)
        /\ UNCHANGED <<live, save, disk, last, returned, queued, recorded, crossed>>
    BY <1>6 DEF Completion, handle, inputs
  <2>2. save.stage = "Preserve"
    BY <1>b, <2>1 DEF Threads
  <2>3. PICK m \in Message : m = NoPrompts
    BY DEF Message, NoPrompts
  <2>4. PICK n \in Nat : n = Len(messages)
    BY <1>a
  <2>5. /\ Len(messages') = n + 1 /\ messages'[n + 1] = {}
        /\ \A i \in 1..n : messages'[i] = messages[i]
    BY <1>a, <2>1, <2>3, <2>4, AppendedProperties DEF NoPrompts
  <2>6. Kept = (1..n) \ returned /\ Kept' = (1..(n + 1)) \ returned
    BY <2>1, <2>4, <2>5 DEF Kept, Settled
  <2>7. \A i \in Kept' : (i \in Kept /\ messages'[i] = messages[i])
                         \/ (messages'[i] \cap Inputs(live) = {} /\ save'.stage = "Preserve")
    BY <2>1, <2>2, <2>5, <2>6
  <2>8. InputSound'
    BY <2>1, <2>7, InputFrame
  <2> QED  BY <2>1, <2>8, LastFrame
<1>7. CASE WorkerCheckpoint
  <2>1. /\ Checkpoint("worker", "Preserve") /\ worker \in {"answering", "ending"}
        /\ UNCHANGED <<messages, returned, queued, recorded, worker, crossed>>
    BY <1>7 DEF WorkerCheckpoint, archive, threads, inputs
  <2> QED  BY <2>1, CheckpointInput, CheckpointLast
<1> QED  BY <1>1, <1>2, <1>3, <1>4, <1>5, <1>6, <1>7 DEF Worker

-----------------------------------------------------------------------------
(* Each step keeps SendingSound.                                           *)

\* Steps while a prompt is on its way leave it, and where it must not be.
LEMMA SendingFrame ==
    ASSUME SendingSound,
           OnItsWay' => /\ ui' = ui /\ live'.input = live.input
                        /\ UNCHANGED <<messages, returned, worker, composer, paused, queued,
                                       sending, written>>
    PROVE  SendingSound'
<1> SUFFICES ASSUME OnItsWay'
             PROVE  SendingSound'
  BY DEF SendingSound
<1>1. OnItsWay
  BY DEF OnItsWay
<1>2. Kept' = Kept /\ Inputs(live') = Inputs(live)
  BY DEF Kept, Settled, Inputs
<1> QED  BY <1>1, <1>2 DEF SendingSound

\* A save gives input back only while no prompt is on its way.
LEMMA SavingSending ==
    ASSUME Typed, Threads, SaveSound, SendingSound, Saving
    PROVE  SendingSound'
<1>1. UNCHANGED <<messages, returned, ui, worker, composer, paused, queued, sending, written>>
  BY DEF Saving, Copy, WriteDocument, SaveFails, Returns, inputs, threads, archive
<1>2. CASE Copy \/ WriteDocument
  <2>1. live' = live
    BY <1>2 DEF Copy, WriteDocument
  <2> QED  BY <1>1, <2>1, SendingFrame
<1>3. CASE SaveFails
  <2>1. CASE Withdrawn
    <3>1. save.stage \in {"Begin", "Accept"}
      BY <2>1 DEF Withdrawn
    <3>2. ~OnItsWay'
      BY <1>1, <3>1 DEF Threads, OnItsWay
    <3> QED  BY <3>2 DEF SendingSound
  <2>2. CASE Unnoted
    <3>1. live'.input = live.input
      BY <2>2 DEF Unnoted, DocIs
    <3> QED  BY <1>1, <3>1, SendingFrame
  <2>3. CASE UNCHANGED <<live, last, events>>
    BY <1>1, <2>3, SendingFrame
  <2> QED  BY <1>3, <2>1, <2>2, <2>3, FailEffect DEF FailIs
<1> QED  BY <1>2, <1>3 DEF Saving

\* Autosave, receipt and title leave the input.
LEMMA OthersSending ==
    ASSUME Typed, SendingSound, Flush \/ AppendReceipt \/ Title
    PROVE  SendingSound'
<1>1. UNCHANGED <<messages, returned, ui, worker, composer, paused, queued, sending, written>>
  BY DEF Flush, AppendReceipt, Title, inputs, archive
<1>2. CASE Flush
  <2>1. live' = live
    BY <1>2 DEF Flush
  <2> QED  BY <1>1, <2>1, SendingFrame
<1>3. CASE AppendReceipt
  <2>1. live'.input = live.input
    BY <1>3, AppendReceiptEffect DEF AppendReceiptIs, NoteIs, DocIs
  <2> QED  BY <1>1, <2>1, SendingFrame
<1>4. CASE Title
  <2>1. live'.input = live.input
    BY <1>4, TitleEffect DEF TitleIs, DocIs
  <2> QED  BY <1>1, <2>1, SendingFrame
<1> QED  BY <1>2, <1>3, <1>4

\* A prompt that is sent leaves the drafts, and their capture.
LEMMA UserSending ==
    ASSUME Typed, Typed', TurnSound, Apart, Apart', LastSound, User
    PROVE  SendingSound'
<1>1. CASE (\E p \in Prompt : Type(p)) \/ Queue \/ TakeBack
  <2>1. ui' \in {"loop", "capture"}
    BY <1>1 DEF Type, Queue, TakeBack, threads
  <2> QED  BY <2>1 DEF SendingSound, OnItsWay
<1>2. CASE Send
  <2>1. /\ worker = "idle" /\ CapturedInto(composer' \cup paused', queued')
        /\ \/ sending' = composer /\ composer' = {} /\ queued' = queued
           \/ sending' = queued /\ queued' = {} /\ composer' = composer
        /\ UNCHANGED <<written, paused, worker, messages, returned>>
    BY <1>2 DEF Send, Captures
  <2>2. DraftsApart /\ Outside(messages, Kept, Drafts) /\ Written(messages, Drafts, written)
    BY ApartIs
  <2>3. sending' \subseteq Drafts /\ sending' \cap Drafts' = {}
    BY <2>1, <2>2 DEF DraftsApart, Drafts
  <2>4. sending' \subseteq written' /\ \A i \in Kept' : messages'[i] \cap sending' = {}
    BY <2>1, <2>2, <2>3 DEF Written, Outside, Kept, Settled
  <2>5. Inputs(live') = Drafts'
    <3> DEFINE draft == composer' \cup paused'
               queue == queued'
    <3>1. draft \subseteq Prompt /\ queue \subseteq Prompt
      BY NextTypedParts DEF InputsFine
    <3>2. draft \cap queue = {}
      BY NextApartIs DEF DraftsApart
    <3>3. CapturedInto(draft, queue) /\ Drafts' = draft \cup queue
      BY <2>1 DEF Drafts
    <3> HIDE DEF draft, queue
    <3>4. live'.input = [draft |-> draft, queued |-> queue]
      BY <3>1, <3>2, <3>3, CaptureTakes
    <3> QED  BY <3>3, <3>4 DEF Inputs
  <2> QED  BY <2>3, <2>4, <2>5 DEF SendingSound, Drafts
<1> QED  BY <1>1, <1>2 DEF User

\* A prompt that is withdrawn is in no other message and in no draft.
LEMMA InterfaceSending ==
    ASSUME Typed, Threads, TurnSound, Apart, Interface
    PROVE  SendingSound'
<1>1. CASE NotBegun
  <2>1. /\ ui = "beginning" /\ ui' = "withdrawing" /\ messages' = SubSeq(messages, 1, from)
        /\ UNCHANGED <<composer, paused, queued, sending, written, worker, returned>>
    BY <1>1 DEF NotBegun, inputs
  <2>2. /\ worker = "idle" /\ Len(messages) = from + 1 /\ messages[from + 1] = sending
        /\ returned \subseteq 1..from
    BY <2>1 DEF Threads, TurnSound, Beginning
  <2>3. messages \in Seq(Message) /\ Len(messages) \in Nat /\ from \in Nat
    BY Lengths, TurnLengths
  <2>4. from \in 0..Len(messages)
    BY <2>2, <2>3
  <2>5. Len(messages') = from /\ \A i \in 1..from : messages'[i] = messages[i]
    BY <2>1, <2>3, <2>4, CutProperties
  <2>6. Kept = (1..(from + 1)) \ returned /\ Kept' = (1..from) \ returned
    BY <2>1, <2>2, <2>5 DEF Kept, Settled
  <2>7. /\ from + 1 \in Kept /\ from + 1 \in 1..Len(messages)
        /\ \A i \in Kept' : i \in Kept /\ i # from + 1 /\ messages'[i] = messages[i]
    BY <2>2, <2>3, <2>5, <2>6
  <2>8. Outside(messages, Kept, Drafts) /\ Distinct(messages, Kept)
        /\ Written(messages, Drafts, written)
    BY ApartIs
  <2>9. sending \cap Drafts = {} /\ sending \subseteq written
    BY <2>2, <2>7, <2>8 DEF Outside, Written
  <2>10. \A i \in Kept' : messages'[i] \cap sending = {}
    BY <2>2, <2>7, <2>8 DEF Distinct
  <2> QED  BY <2>1, <2>9, <2>10 DEF SendingSound, Drafts
<1>2. CASE ~NotBegun
  <2>1. ui' \in {"loop", "begin", "beginning", "returned", "returning"}
    BY <1>2 DEF Interface, CaptureInput, PushPrompt, BeginCheckpoint, Begun, Withdraw, Show,
                Finished, Paused, Returned, ReturnCheckpoint, ReturnSaved, threads
  <2> QED  BY <2>1 DEF SendingSound, OnItsWay
<1> QED  BY <1>1, <1>2

\* While the worker is busy no prompt is on its way.
LEMMA WorkerSending ==
    ASSUME Threads, Worker
    PROVE  SendingSound'
<1>1. worker # "idle" /\ ui' = ui
  BY DEF Worker, Accept, AcceptCheckpoint, Accepted, NotAccepted, Ask, Stop, Completion,
         KnowsCompletion, WorkerCheckpoint, Answered, Ended, threads
<1>2. ~OnItsWay'
  BY <1>1 DEF Threads, OnItsWay
<1> QED  BY <1>2 DEF SendingSound

-----------------------------------------------------------------------------
(* The invariant, and what it says.                                        *)

\* The fields of a new session's document.
LEMMA EmptyIs ==
    /\ Empty \in Document /\ Empty.messages = <<>> /\ Empty.events = <<>>
    /\ Inputs(Empty) = {} /\ Empty.input.draft = {}
BY EmptyIsDocument DEF Empty, Inputs

\* The invariant holds at first.
LEMMA InitInv == HandleInit => SessionInv
<1> SUFFICES ASSUME HandleInit
             PROVE  SessionInv
  OBVIOUS
<1>1. /\ live = Empty /\ disk = Empty /\ messages = <<>> /\ events = <<>> /\ returned = {}
      /\ save = NoSave /\ dirty = FALSE /\ last = NoInput /\ crossed = FALSE
      /\ ui = "loop" /\ worker = "idle" /\ from = 0
      /\ result = [w \in {"ui", "worker"} |-> "none"]
  BY DEF HandleInit
<1>2. Len(messages) = 0 /\ Len(events) = 0 /\ Len(live.messages) = 0 /\ Len(live.events) = 0
  BY <1>1, EmptyIs
<1>3. messages \in Seq(Message) /\ events \in Seq(HistoryEvent)
  BY <1>1
<1>4. /\ save.by = Nobody /\ save.stage = "Preserve" /\ save.step = "copy"
      /\ save.stale = FALSE /\ save.displaced = 0
  BY <1>1 DEF NoSave
<1>5. save \in SaveState
  BY <1>1, NoSaveIs DEF SaveIs
<1>6. result \in Results /\ result["ui"] = "none" /\ result["worker"] = "none"
  BY <1>1 DEF Results
<1>7. HandleTypeOK
  <2>1. /\ written = {} /\ composer = {} /\ paused = {} /\ queued = {} /\ unshown = {}
        /\ sending = {} /\ submission = {} /\ recorded = FALSE /\ background = "idle"
        /\ namer = "none" /\ receipt = "none" /\ failed = FALSE /\ faults = 0
    BY DEF HandleInit
  <2>2. live \in Document /\ disk \in Document
    BY <1>1, EmptyIs
  <2>3. 0 \in 0..MaxMessages /\ 0 \in 0..MaxFaults
    BY BoundsAssumption
  <2>4. save.by \in Writer \cup {Nobody} /\ save.step \in {"copy", "write"}
    BY <1>4
  <2> QED  BY <1>1, <1>3, <1>6, <2>1, <2>2, <2>3, <2>4, HandleTypes
<1>8. Typed
  BY <1>2, <1>5, <1>7, BoundsAssumption DEF Typed
<1>9. Threads
  BY <1>1, <1>4, <1>6 DEF Threads, Nobody
<1>a. Begins(Empty.messages, Empty.messages) /\ Begins(Empty.events, Empty.events)
  BY EmptyIs, BeginsItself, DocFields
<1>10. SaveSound
  BY <1>1, <1>4, <1>a DEF SaveSound, DocBegins, Nobody
<1>b. ~Beginning /\ ~OnItsWay /\ ~Unstarted /\ Settled = 0 /\ Kept = {}
  BY <1>1, <1>2 DEF Beginning, OnItsWay, Unstarted, Settled, Kept
<1>11. TurnSound
  <2>1. sending = {} /\ submission = {} /\ unshown = {}
    BY DEF HandleInit
  <2> QED  BY <1>1, <1>b, <2>1 DEF TurnSound
<1>12. Apart
  <2>1. composer = {} /\ paused = {} /\ queued = {}
    BY DEF HandleInit
  <2> QED  BY <1>2, <1>b, <2>1 DEF Apart
<1>13. NothingLost
  BY DEF HandleInit, NothingLost
<1>14. LinkSound
  <2>1. Begins(live.messages, messages) /\ Begins(live.events, events)
    BY <1>1, <1>a, EmptyIs
  <2> QED  BY <1>1, <1>4, <1>b, <2>1 DEF LinkSound
<1>15. ReceiptsFound
  BY <1>2 DEF ReceiptsFound, OneIn
<1>16. StaysValid
  <2>1. Valid(live)
    BY <1>1, EmptyIs DEF Valid
  <2> QED  BY <1>2, <1>4, <2>1 DEF StaysValid
<1>17. InputSound
  <2>1. Free(live, returned) /\ Free(disk, returned)
    BY <1>1, <1>2 DEF Free
  <2>2. Outside(messages, Kept, Inputs(live))
    BY <1>b DEF Outside
  <2>3. recorded = FALSE
    BY DEF HandleInit
  <2> QED  BY <1>4, <2>1, <2>2, <2>3, ClearIs DEF InputSound
<1>18. LastSound /\ SendingSound
  BY <1>1, <1>b DEF LastSound, SendingSound
<1> QED  BY <1>8, <1>9, <1>10, <1>11, <1>12, <1>13, <1>14, <1>15, <1>16, <1>17, <1>18 DEF SessionInv

\* Every step keeps the invariant.
LEMMA NextInv == SessionInv /\ HandleNext => SessionInv'
<1> SUFFICES ASSUME SessionInv, HandleNext
             PROVE  SessionInv'
  OBVIOUS
<1>1. /\ Typed /\ Threads /\ SaveSound /\ TurnSound /\ Apart /\ NothingLost
      /\ LinkSound /\ ReceiptsFound /\ StaysValid /\ InputSound /\ LastSound /\ SendingSound
  BY DEF SessionInv
<1>2. CASE Saving
  <2>1. Typed' /\ Threads'
    BY <1>1, <1>2, SavingTyped, SavingThreads
  <2>2. SaveSound' /\ TurnSound' /\ Apart'
    BY <1>1, <1>2, SavingSound, SavingTurn, SavingApart
  <2>3. NothingLost' /\ LinkSound' /\ ReceiptsFound'
    BY <1>1, <1>2, <2>1, OthersLost, SavingLink, SavingReceipts
  <2>4. StaysValid'
    BY <1>1, <1>2, <2>1, <2>2, SavingValid
  <2>5. InputSound' /\ LastSound' /\ SendingSound'
    BY <1>1, <1>2, <2>1, SavingInput, SavingLast, SavingSending
  <2> QED  BY <2>1, <2>2, <2>3, <2>4, <2>5 DEF SessionInv
<1>3. CASE Flush \/ AppendReceipt \/ Title
  <2>1. Typed' /\ Threads'
    BY <1>1, <1>3, OthersTyped, OthersThreads
  <2>2. SaveSound' /\ TurnSound' /\ Apart'
    BY <1>1, <1>3, OthersSound, OthersTurn, OthersApart
  <2>3. NothingLost' /\ LinkSound' /\ ReceiptsFound'
    BY <1>1, <1>3, <2>1, OthersLost, OthersLink, OthersReceipts
  <2>4. StaysValid'
    BY <1>1, <1>3, <2>1, <2>2, OthersValid
  <2>5. InputSound' /\ LastSound' /\ SendingSound'
    BY <1>1, <1>3, <2>1, OthersInput, OthersLast, OthersSending
  <2> QED  BY <2>1, <2>2, <2>3, <2>4, <2>5 DEF SessionInv
<1>4. CASE User
  <2>1. Typed' /\ Threads'
    BY <1>1, <1>4, UserTyped, UserThreads
  <2>2. SaveSound' /\ TurnSound' /\ Apart'
    BY <1>1, <1>4, ActorSound, UserTurn, UserApart
  <2>3. NothingLost' /\ LinkSound' /\ ReceiptsFound'
    BY <1>1, <1>4, <2>1, UserLost, UserLink, ActorReceipts
  <2>4. StaysValid'
    BY <1>1, <1>4, <2>1, <2>2, UserValid
  <2>5. InputSound' /\ LastSound' /\ SendingSound'
    BY <1>1, <1>4, <2>1, <2>2, <2>3, UserInput, UserSending
  <2> QED  BY <2>1, <2>2, <2>3, <2>4, <2>5 DEF SessionInv
<1>5. CASE Interface
  <2>1. Typed' /\ Threads'
    BY <1>1, <1>5, InterfaceTyped, InterfaceThreads
  <2>2. SaveSound' /\ TurnSound' /\ Apart'
    BY <1>1, <1>5, ActorSound, InterfaceTurn, InterfaceApart
  <2>3. NothingLost' /\ LinkSound' /\ ReceiptsFound'
    BY <1>1, <1>5, <2>1, InterfaceLost, InterfaceLink, ActorReceipts
  <2>4. StaysValid'
    BY <1>1, <1>5, <2>1, <2>2, InterfaceValid
  <2>5. InputSound' /\ LastSound' /\ SendingSound'
    BY <1>1, <1>5, <2>1, <2>2, <2>3, InterfaceInput, InterfaceSending
  <2> QED  BY <2>1, <2>2, <2>3, <2>4, <2>5 DEF SessionInv
<1>6. CASE Worker
  <2>1. Typed' /\ Threads'
    BY <1>1, <1>6, WorkerTyped, WorkerThreads
  <2>2. SaveSound' /\ TurnSound' /\ Apart'
    BY <1>1, <1>6, ActorSound, WorkerTurn, WorkerApart
  <2>3. NothingLost' /\ LinkSound' /\ ReceiptsFound'
    BY <1>1, <1>6, <2>1, WorkerLost, WorkerLink, ActorReceipts
  <2>4. StaysValid'
    BY <1>1, <1>6, <2>1, <2>2, WorkerValid
  <2>5. InputSound' /\ LastSound' /\ SendingSound'
    BY <1>1, <1>6, <2>1, WorkerInput, WorkerSending
  <2> QED  BY <2>1, <2>2, <2>3, <2>4, <2>5 DEF SessionInv
<1> QED  BY <1>2, <1>3, <1>4, <1>5, <1>6 DEF HandleNext

\* So does none.
LEMMA StutterInv == SessionInv /\ UNCHANGED handleVars => SessionInv'
<1> SUFFICES ASSUME SessionInv, UNCHANGED handleVars
             PROVE  SessionInv'
  OBVIOUS
<1>1. /\ UNCHANGED <<written, composer, paused, queued, recorded, unshown, sending, submission,
                     from, ui, worker, background, namer, receipt, failed>>
      /\ UNCHANGED <<messages, events, returned, live, dirty, last, save, result, disk, faults,
                     crossed>>
  BY DEF handleVars, inputs, threads, archive, handle
<1>2. Typed' /\ Threads' /\ SaveSound'
  BY <1>1 DEF SessionInv, Typed, HandleTypeOK, Threads, SaveSound, DocBegins, ReceiptSaved
<1>3. TurnSound' /\ Apart' /\ NothingLost'
  BY <1>1 DEF SessionInv, TurnSound, Apart, NothingLost, Conversation, Beginning, Turning, OnItsWay,
                  Settled, Kept
<1>4. LinkSound' /\ ReceiptsFound'
  BY <1>1 DEF SessionInv, LinkSound, Unstarted, Unsaved, Start, ReceiptsFound
<1>5. StaysValid'
  BY <1>1 DEF SessionInv, StaysValid, Valid, Floor, Base, Beginning, Settled
<1>6. InputSound' /\ LastSound' /\ SendingSound'
  BY <1>1 DEF SessionInv, InputSound, Clear, KeptFrom, Inputs, Kept, Settled, LastSound,
              SendingSound, OnItsWay
<1> QED  BY <1>2, <1>3, <1>4, <1>5, <1>6 DEF SessionInv

\* Types, who holds io, how the disk, the document and the archive begin each
\* other, where each prompt is: what the parts of the model keep true together.
THEOREM SessionSound == HandleSpec => []SessionInv
<1>1. SessionInv /\ [HandleNext]_handleVars => SessionInv'
  BY NextInv, StutterInv
<1> QED  BY InitInv, <1>1, PTL DEF HandleSpec

\* HandleTypeOK: every variable stays in its set, the conversation within its bound.
THEOREM HandleTypeInvariant == HandleSpec => []HandleTypeOK
<1>1. SessionInv => HandleTypeOK
  BY DEF SessionInv, Typed
<1> QED  BY SessionSound, <1>1, PTL

\* What is saved begins the conversation, and is all of it once nothing waits.
LEMMA SavedFollows ==
    ASSUME SessionInv
    PROVE  SavedIsTrue
<1>1. Typed /\ SaveSound /\ LinkSound
  BY DEF SessionInv
<1>2. CleanIsSaved
  BY <1>1 DEF SaveSound, CleanIsSaved
<1>3. /\ live.messages \in Seq(Message) /\ live.events \in Seq(HistoryEvent)
      /\ messages \in Seq(Message) /\ events \in Seq(HistoryEvent)
  BY <1>1, Lengths
<1>4. IsPrefix(live.messages, messages) <=> Begins(live.messages, messages)
  BY <1>3, PrefixBegins
<1>5. IsPrefix(live.events, events) <=> Begins(live.events, events)
  BY <1>3, PrefixBegins
<1>6. AlignedUnlessCrossed
  BY <1>1, <1>4, <1>5 DEF AlignedUnlessCrossed, Aligned, Linked, LinkSound
<1> QED  BY <1>2, <1>6 DEF SavedIsTrue

\* SavedIsTrue: whatever receipts, titles, failed preparations and saves of five
\* threads interleave (sessions/handle.rs), the document begins the conversation,
\* unless a title was saved amid a preparation; and it is on the disk once clean.
THEOREM SavedStaysTrue == HandleSpec => []SavedIsTrue
<1>1. SessionInv => SavedIsTrue
  BY SavedFollows
<1> QED  BY SessionSound, <1>1, PTL

\* The invariant keeps the user's prompts apart and none lost.
LEMMA KeptFollows ==
    ASSUME SessionInv
    PROVE  InputIsKept
<1>1. /\ Typed /\ SaveSound /\ NothingLost /\ ReceiptsFound /\ StaysValid /\ InputSound
  BY DEF SessionInv
<1>2. NeverBoth
  <2> SUFFICES ASSUME ~crossed, NEW doc \in {live, disk}
               PROVE  Conversation(doc, returned) \cap (doc.input.draft \cup doc.input.queued) = {}
    BY DEF NeverBoth
  <2>1. Free(doc, returned)
    BY <1>1, InputHolds
  <2>2. DOMAIN doc.messages = 1..Len(doc.messages)
    <3>1. live.messages \in Seq(Message) /\ disk.messages \in Seq(Message)
      BY <1>1, Lengths
    <3> QED  BY <3>1, LenProperties
  <2> QED  BY <2>1, <2>2 DEF Conversation, Free, Inputs
<1>3. OneReceipt
  <2>1. /\ events \in Seq(HistoryEvent) /\ live.events \in Seq(HistoryEvent)
        /\ disk.events \in Seq(HistoryEvent)
    BY <1>1, Lengths
  <2>2. OneIn(events) /\ OneIn(live.events)
    BY <1>1 DEF ReceiptsFound
  <2>3. Begins(disk.events, live.events)
    BY <1>1 DEF SaveSound, DocBegins
  <2>4. OneIn(disk.events)
    BY <2>1, <2>2, <2>3, FoundItself, OneInBeginning
  <2>5. \A es \in {events, live.events, disk.events} : DOMAIN es = 1..Len(es) /\ OneIn(es)
    BY <2>1, <2>2, <2>4, LenProperties
  <2> QED  BY <2>5 DEF OneReceipt, OneIn
<1>4. NeverInvalid
  BY <1>1 DEF StaysValid, NeverInvalid
<1> QED  BY <1>1, <1>2, <1>3, <1>4 DEF InputIsKept

\* InputIsKept: a prompt is never saved both as input and as a message, none is
\* dropped on its way, one end of a process has one receipt, and nothing that
\* validation refuses is added (tui/recovery.rs, agent/retraction.rs, handle.rs).
THEOREM InputStaysKept == HandleSpec => []InputIsKept
<1>1. SessionInv => InputIsKept
  BY KeptFollows
<1> QED  BY SessionSound, <1>1, PTL

\* What the journal holds is only added to: no save, whichever thread's it is and
\* whatever was withdrawn meanwhile, rewrites or shortens the saved history.
SavedGrows == DocBegins(disk, disk')

\* The saved document begins itself.
LEMMA DiskItself ==
    ASSUME Typed
    PROVE  DocBegins(disk, disk)
BY Lengths, BeginsItself DEF DocBegins

\* Only a write changes the disk, and what it writes extends it.
LEMMA NextSavedGrows == SessionInv /\ HandleNext => SavedGrows
<1> SUFFICES ASSUME SessionInv, HandleNext
             PROVE  SavedGrows
  OBVIOUS
<1>1. Typed /\ Threads /\ SaveSound
  BY DEF SessionInv
<1>2. CASE WriteDocument
  <2>1. disk' = save.copy /\ save.step = "write"
    BY <1>1, <1>2, WriteEffect DEF WriteIs
  <2>2. save.copy.messages = live.messages /\ save.copy.events = live.events /\ DocBegins(disk, live)
    BY <1>1, <2>1 DEF SaveSound
  <2> QED  BY <2>1, <2>2 DEF SavedGrows, DocBegins
<1>3. CASE disk' = disk
  BY <1>1, <1>3, DiskItself DEF SavedGrows
<1>4. WriteDocument \/ disk' = disk
  BY DEF HandleNext, Saving, Copy, SaveFails, User, Type, Queue, TakeBack, Send, Interface,
         CaptureInput, PushPrompt, BeginCheckpoint, Begun, NotBegun, Withdraw, Show, Finished,
         Paused, Returned,
         ReturnCheckpoint, ReturnSaved, Worker, Accept, AcceptCheckpoint, Accepted, NotAccepted,
         Ask, Stop, Completion, KnowsCompletion, WorkerCheckpoint, Answered, Ended, Flush,
         AppendReceipt, Title, Captures, CapturedInto, Checkpoint, handle
<1> QED  BY <1>2, <1>3, <1>4

\* SavedOnlyGrows: a save of any thread (sessions/handle/save.rs) extends what the
\* disk holds and withdraws nothing from it, a title that crossed included.
THEOREM SavedOnlyGrows == HandleSpec => [][SavedGrows]_handleVars
<1>1. SessionInv /\ [HandleNext]_handleVars => [SavedGrows]_handleVars
  BY NextSavedGrows
<1> QED  BY SessionSound, <1>1, PTL DEF HandleSpec

=============================================================================
