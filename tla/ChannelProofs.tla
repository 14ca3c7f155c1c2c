------------------------------ MODULE ChannelProofs ------------------------------
(***************************************************************************)
(* Proofs about the two channels between threads of the program: the       *)
(* events of a worker (WorkerEvents), for any capacity, any number of      *)
(* events a poll reads and any number of events, and the assignments of a  *)
(* collaborator (Collaborator), for any number of versions, any inbox and  *)
(* any number of failed receipts and crashes.                              *)
(*                                                                         *)
(* EventInv is about the line of events that the interface has been shown  *)
(* or that wait for it: they were sent, they are in the order in which     *)
(* they were sent (LineOf), every reliable event is there unless it was    *)
(* refused at a shutdown (ReliableKept), and the last preview before each  *)
(* of them is there (PreviewsKept).                                        *)
(*                                                                         *)
(* CollaboratorInv is about the versions of an assignment: those the       *)
(* record calls pending are those that the worker holds and those in its   *)
(* inbox, at every point between a turn's checkpoint and the receipts that *)
(* follow it (Matches), so that an event which tells only a number of      *)
(* prompts names the versions that were accepted.                          *)
(***************************************************************************)
EXTENDS WorkerEvents, Collaborator, SequenceTheorems, FiniteSetTheorems,
        NaturalsInduction, WellFoundedInduction, TLAPS

-----------------------------------------------------------------------------
(* WorkerEvents: the line of events.                                       *)

\* What the interface has been given, and what waits for it in the queue.
Line == shown \o events

Rising(s) == \A i, j \in DOMAIN s : i < j => s[i].n < s[j].n

\* A line of events that were sent, in the order in which they were.
LineOf(line, s) ==
    /\ line \in Seq(Event) /\ Rising(line)
    /\ \A i \in DOMAIN line : line[i].n \in DOMAIN s /\ s[line[i].n] = line[i]

\* An event that may be put at the line's end.
Follows(e, line, s) ==
    e # NoEvent => /\ e.n \in DOMAIN s /\ s[e.n] = e
                   /\ \A i \in DOMAIN line : line[i].n < e.n

\* Only one of the three waits behind the queue, or a preview and the fact that
\* flushes it.
Waiting(stream, prev, pend) ==
    /\ stream # NoEvent => stream.kind = "preview" /\ prev = NoEvent /\ pend = NoEvent
    /\ prev # NoEvent => prev.kind = "preview" /\ pend # NoEvent /\ prev.n < pend.n
    /\ pend.kind # "preview"

\* p is the last preview before x: only hints come between.
LastBefore(p, x, s) ==
    /\ p < x /\ s[p].kind = "preview"
    /\ \A q \in (p + 1)..(x - 1) : s[q].kind = "hint"

\* The latest preview is in the line or waits, and one that a fact follows gets
\* into the line before the fact.
PreviewsKept(line, s, stream, prev, pend) ==
    /\ \A p \in DOMAIN s :
          LastBefore(p, Len(s) + 1, s) => p \in Numbers(line) \/ stream.n = p
    /\ \A p, x \in DOMAIN s :
          s[x].kind = "fact" /\ LastBefore(p, x, s) =>
             /\ x \in Numbers(line) => p \in Numbers(line)
             /\ pend.n = x => p \in Numbers(line) \/ prev.n = p

ReliableKept(line, s, pend, fails, stops) ==
    \A i \in DOMAIN s :
        Reliable(s[i]) => i \in Numbers(line) \/ pend.n = i \/ (i \in fails /\ stops)

Sound(line, s, stream, prev, pend, fails, stops) ==
    /\ s \in Seq(Event) /\ \A i \in DOMAIN s : s[i].n = i
    /\ {stream, prev, pend} \subseteq Event
    /\ LineOf(line, s)
    /\ Follows(stream, line, s) /\ Follows(prev, line, s) /\ Follows(pend, line, s)
    /\ Waiting(stream, prev, pend)
    /\ PreviewsKept(line, s, stream, prev, pend)
    /\ ReliableKept(line, s, pend, fails, stops)

\* Where the worker and the loop stand.
Standing ==
    /\ sender \in {"flush", "push"} <=> pending # NoEvent
    /\ sender = "flush" <=> preview # NoEvent
    /\ loop = "quitting" => cancelled
    /\ loop = "done" => sender = "finished" /\ (cancelled \/ Empty)

EventInv ==
    /\ EventTypeOK /\ Standing
    /\ Sound(Line, sent, streaming, preview, pending, refused, cancelled)

-----------------------------------------------------------------------------
\* The fields of an event.
LEMMA EventFacts ==
    /\ NoEvent \in Event /\ NoEvent.n = 0 /\ NoEvent.kind = "hint"
    /\ \A e \in Event : e.n \in Nat /\ e.kind \in Kind
BY DEF NoEvent, Event, Kind

\* The numbers of a longer line.
LEMMA NumbersGrow ==
    ASSUME NEW line \in Seq(Event), NEW e \in Event
    PROVE  Numbers(Append(line, e)) = Numbers(line) \cup {e.n}
<1>1. PICK l : l = Append(line, e)
  OBVIOUS
<1>2. /\ DOMAIN line = 1..Len(line) /\ DOMAIN l = 1..(Len(line) + 1) /\ Len(line) \in Nat
      /\ \A i \in 1..Len(line) : l[i] = line[i]
      /\ l[Len(line) + 1] = e
  BY <1>1, AppendProperties, LenProperties
<1>3. \A i \in DOMAIN l : l[i].n \in Numbers(line) \cup {e.n}
  <2> SUFFICES ASSUME NEW i \in DOMAIN l PROVE l[i].n \in Numbers(line) \cup {e.n}
    OBVIOUS
  <2>1. i \in DOMAIN line \/ i = Len(line) + 1
    BY <1>2
  <2> QED  BY <1>2, <2>1 DEF Numbers
<1>4. \A i \in DOMAIN line : line[i].n \in Numbers(l)
  BY <1>2 DEF Numbers
<1>5. e.n \in Numbers(l)
  BY <1>2 DEF Numbers
<1> QED  BY <1>1, <1>3, <1>4, <1>5 DEF Numbers

\* An event that follows the line is put at its end.
LEMMA LineGrows ==
    ASSUME NEW s \in Seq(Event), NEW line, NEW e \in Event,
           LineOf(line, s), Follows(e, line, s), e # NoEvent
    PROVE  /\ LineOf(Append(line, e), s)
           /\ \A x \in Event : Follows(x, line, s) /\ (x # NoEvent => e.n < x.n)
                                 => Follows(x, Append(line, e), s)
<1>1. PICK l : l = Append(line, e)
  OBVIOUS
<1>2. line \in Seq(Event)
  BY DEF LineOf
<1>3. /\ l \in Seq(Event)
      /\ DOMAIN line = 1..Len(line) /\ DOMAIN l = 1..(Len(line) + 1) /\ Len(line) \in Nat
      /\ \A i \in 1..Len(line) : l[i] = line[i]
      /\ l[Len(line) + 1] = e
  BY <1>1, <1>2, AppendProperties, LenProperties
<1>4. Rising(l)
  <2> SUFFICES ASSUME NEW i \in DOMAIN l, NEW j \in DOMAIN l, i < j PROVE l[i].n < l[j].n
    BY DEF Rising
  <2>1. i \in DOMAIN line /\ l[i] = line[i]
    BY <1>3
  <2>2. CASE j \in DOMAIN line
    BY <1>3, <2>1, <2>2 DEF LineOf, Rising
  <2>3. CASE j = Len(line) + 1
    BY <1>3, <2>1, <2>3 DEF Follows
  <2> QED  BY <1>3, <2>2, <2>3
<1>5. ASSUME NEW i \in DOMAIN l PROVE (i \in DOMAIN line /\ l[i] = line[i]) \/ l[i] = e
  BY <1>3
<1>6. \A i \in DOMAIN l : l[i].n \in DOMAIN s /\ s[l[i].n] = l[i]
  BY <1>5 DEF LineOf, Follows
<1>7. ASSUME NEW x \in Event, Follows(x, line, s), x # NoEvent => e.n < x.n
      PROVE  Follows(x, l, s)
  BY <1>5, <1>7 DEF Follows
<1> QED  BY <1>1, <1>3, <1>4, <1>6, <1>7 DEF LineOf

\* One more event is sent.
LEMMA SentGrows ==
    ASSUME NEW s \in Seq(Event), NEW line, NEW e \in Event, e.n = Len(s) + 1,
           \A i \in DOMAIN s : s[i].n = i, LineOf(line, s)
    PROVE  /\ Append(s, e) \in Seq(Event) /\ Len(Append(s, e)) = Len(s) + 1
           /\ DOMAIN s = 1..Len(s) /\ DOMAIN Append(s, e) = 1..(Len(s) + 1) /\ Len(s) \in Nat
           /\ \A i \in DOMAIN s : Append(s, e)[i] = s[i]
           /\ Append(s, e)[Len(s) + 1] = e
           /\ \A i \in DOMAIN Append(s, e) : Append(s, e)[i].n = i
           /\ LineOf(line, Append(s, e)) /\ Follows(e, line, Append(s, e))
           /\ \A x : Follows(x, line, s) => Follows(x, line, Append(s, e))
<1>1. PICK t : t = Append(s, e)
  OBVIOUS
<1>2. /\ t \in Seq(Event) /\ Len(t) = Len(s) + 1
      /\ DOMAIN s = 1..Len(s) /\ DOMAIN t = 1..(Len(s) + 1) /\ Len(s) \in Nat
      /\ \A i \in DOMAIN s : t[i] = s[i]
      /\ t[Len(s) + 1] = e
  BY <1>1, AppendProperties, LenProperties
<1>3. DOMAIN s \subseteq DOMAIN t
  BY <1>2
<1>4. \A i \in DOMAIN t : t[i].n = i
  BY <1>2
<1>5. LineOf(line, t)
  BY <1>2, <1>3 DEF LineOf
<1>6. Follows(e, line, t)
  BY <1>2 DEF LineOf, Follows
<1>7. \A x : Follows(x, line, s) => Follows(x, line, t)
  BY <1>2, <1>3 DEF Follows
<1> QED  BY <1>1, <1>2, <1>4, <1>5, <1>6, <1>7

\* What the last preview is, with one more event.
LEMMA LastBeforeGrows ==
    ASSUME NEW s \in Seq(Event), NEW e \in Event,
           NEW t, t = Append(s, e)
    PROVE  /\ \A p, x \in DOMAIN s : LastBefore(p, x, t) <=> LastBefore(p, x, s)
           /\ \A p \in DOMAIN s :
                 /\ LastBefore(p, Len(s) + 1, t) <=> LastBefore(p, Len(s) + 1, s)
                 /\ LastBefore(p, Len(s) + 2, t)
                       => e.kind = "hint" /\ LastBefore(p, Len(s) + 1, s)
<1>1. /\ DOMAIN s = 1..Len(s) /\ DOMAIN t = 1..(Len(s) + 1) /\ Len(s) \in Nat
      /\ \A i \in DOMAIN s : t[i] = s[i]
      /\ t[Len(s) + 1] = e
  BY AppendProperties, LenProperties
<1>2. PICK n \in Nat : n = Len(s)
  BY <1>1
<1>3. \A p \in 1..n, x \in 1..(n + 1) : (p + 1)..(x - 1) \subseteq 1..n /\ p \in Int /\ x \in Int
  BY <1>2
<1>4. \A p \in 1..n, x \in 1..(n + 1) : LastBefore(p, x, t) <=> LastBefore(p, x, s)
  BY <1>1, <1>2, <1>3 DEF LastBefore
<1>5. ASSUME NEW p \in 1..n, LastBefore(p, n + 2, t)
      PROVE  e.kind = "hint" /\ LastBefore(p, n + 1, t)
  <2>1. n + 1 \in (p + 1)..(n + 2 - 1) /\ (p + 1)..(n + 1 - 1) \subseteq (p + 1)..(n + 2 - 1) /\ p < n + 1
    BY <1>2
  <2> QED  BY <1>1, <1>2, <1>5, <2>1 DEF LastBefore
<1> QED  BY <1>1, <1>2, <1>4, <1>5

-----------------------------------------------------------------------------
(* What is sent, held back and refused.                                    *)

\* A preview is sent: it replaces the one that waits.
LEMMA PreviewSent ==
    ASSUME NEW line, NEW s, NEW stream, NEW fails, NEW stops,
           Sound(line, s, stream, NoEvent, NoEvent, fails, stops),
           NEW e \in Event, e.kind = "preview", e.n = Len(s) + 1
    PROVE  Sound(line, Append(s, e), e, NoEvent, NoEvent, fails, stops)
<1>1. PICK t : t = Append(s, e)
  OBVIOUS
<1>2. s \in Seq(Event) /\ LineOf(line, s) /\ \A i \in DOMAIN s : s[i].n = i
  BY DEF Sound
<1>3. /\ t \in Seq(Event) /\ Len(t) = Len(s) + 1 /\ Len(s) \in Nat
      /\ DOMAIN s = 1..Len(s) /\ DOMAIN t = 1..(Len(s) + 1)
      /\ \A i \in DOMAIN s : t[i] = s[i]
      /\ t[Len(s) + 1] = e /\ \A i \in DOMAIN t : t[i].n = i
      /\ LineOf(line, t) /\ Follows(e, line, t)
  BY <1>1, <1>2, SentGrows
<1>4. Waiting(e, NoEvent, NoEvent)
  BY EventFacts DEF Waiting
<1>5. ReliableKept(line, t, NoEvent, fails, stops)
  <2> SUFFICES ASSUME NEW i \in DOMAIN t, Reliable(t[i])
               PROVE  i \in Numbers(line) \/ NoEvent.n = i \/ (i \in fails /\ stops)
    BY DEF ReliableKept
  <2>1. i \in DOMAIN s
    BY <1>3 DEF Reliable
  <2> QED  BY <1>3, <2>1 DEF Sound, ReliableKept
<1>6. PreviewsKept(line, t, e, NoEvent, NoEvent)
  <2>1. ASSUME NEW p \in DOMAIN t, LastBefore(p, Len(t) + 1, t)
        PROVE  p \in Numbers(line) \/ e.n = p
    <3>1. CASE p \in DOMAIN s
      <4>1. Len(t) + 1 = Len(s) + 2
        BY <1>3
      <4>2. e.kind = "hint"
        BY <1>1, <1>2, <2>1, <3>1, <4>1, LastBeforeGrows
      <4> QED  BY <4>2
    <3>2. CASE p = Len(s) + 1
      BY <3>2
    <3> QED  BY <1>3, <3>1, <3>2
  <2>2. ASSUME NEW p \in DOMAIN t, NEW x \in DOMAIN t, t[x].kind = "fact", LastBefore(p, x, t)
        PROVE  /\ x \in Numbers(line) => p \in Numbers(line)
               /\ NoEvent.n = x => p \in Numbers(line) \/ NoEvent.n = p
    <3>1. x \in DOMAIN s /\ p \in DOMAIN s
      BY <1>3, <2>2 DEF LastBefore
    <3>2. LastBefore(p, x, s) /\ s[x].kind = "fact"
      BY <1>1, <1>2, <1>3, <2>2, <3>1, LastBeforeGrows
    <3> QED  BY <3>1, <3>2 DEF Sound, PreviewsKept
  <2> QED  BY <2>1, <2>2 DEF PreviewsKept
<1>7. {e, NoEvent} \subseteq Event /\ Follows(NoEvent, line, t)
  BY EventFacts DEF Follows
<1> QED  BY <1>1, <1>3, <1>4, <1>5, <1>6, <1>7 DEF Sound

\* A hint is dropped.
LEMMA HintDropped ==
    ASSUME NEW line, NEW s, NEW stream, NEW fails, NEW stops,
           Sound(line, s, stream, NoEvent, NoEvent, fails, stops),
           NEW e \in Event, e.kind = "hint", e.n = Len(s) + 1
    PROVE  Sound(line, Append(s, e), stream, NoEvent, NoEvent, fails, stops)
<1>1. PICK t : t = Append(s, e)
  OBVIOUS
<1>2. s \in Seq(Event) /\ LineOf(line, s) /\ Follows(stream, line, s) /\ \A i \in DOMAIN s : s[i].n = i
  BY DEF Sound
<1>3. /\ t \in Seq(Event) /\ Len(t) = Len(s) + 1 /\ Len(s) \in Nat
      /\ DOMAIN s = 1..Len(s) /\ DOMAIN t = 1..(Len(s) + 1)
      /\ \A i \in DOMAIN s : t[i] = s[i]
      /\ t[Len(s) + 1] = e /\ \A i \in DOMAIN t : t[i].n = i
      /\ LineOf(line, t)
  BY <1>1, <1>2, SentGrows
<1>0. Follows(stream, line, t)
  BY <1>1, <1>2, SentGrows
<1>4. Waiting(stream, NoEvent, NoEvent) /\ stream \in Event
  BY DEF Sound
<1>5. ReliableKept(line, t, NoEvent, fails, stops)
  <2> SUFFICES ASSUME NEW i \in DOMAIN t, Reliable(t[i])
               PROVE  i \in Numbers(line) \/ NoEvent.n = i \/ (i \in fails /\ stops)
    BY DEF ReliableKept
  <2>1. i \in DOMAIN s
    BY <1>3 DEF Reliable
  <2> QED  BY <1>3, <2>1 DEF Sound, ReliableKept
<1>6. PreviewsKept(line, t, stream, NoEvent, NoEvent)
  <2>1. ASSUME NEW p \in DOMAIN t, LastBefore(p, Len(t) + 1, t)
        PROVE  p \in Numbers(line) \/ stream.n = p
    <3>1. p \in DOMAIN s
      BY <1>3, <2>1 DEF LastBefore
    <3>2. Len(t) + 1 = Len(s) + 2
      BY <1>3
    <3>3. LastBefore(p, Len(s) + 1, s)
      BY <1>1, <1>2, <2>1, <3>1, <3>2, LastBeforeGrows
    <3> QED  BY <3>1, <3>3 DEF Sound, PreviewsKept
  <2>2. ASSUME NEW p \in DOMAIN t, NEW x \in DOMAIN t, t[x].kind = "fact", LastBefore(p, x, t)
        PROVE  /\ x \in Numbers(line) => p \in Numbers(line)
               /\ NoEvent.n = x => p \in Numbers(line) \/ NoEvent.n = p
    <3>1. x \in DOMAIN s /\ p \in DOMAIN s
      BY <1>3, <2>2 DEF LastBefore
    <3>2. LastBefore(p, x, s) /\ s[x].kind = "fact"
      BY <1>1, <1>2, <1>3, <2>2, <3>1, LastBeforeGrows
    <3> QED  BY <3>1, <3>2 DEF Sound, PreviewsKept
  <2> QED  BY <2>1, <2>2 DEF PreviewsKept
<1>7. NoEvent \in Event /\ Follows(NoEvent, line, t)
  BY EventFacts DEF Follows
<1> QED  BY <1>0, <1>1, <1>3, <1>4, <1>5, <1>6, <1>7 DEF Sound

\* Any other event is held until there is room, and a fact takes the waiting
\* preview along.
LEMMA EventHeld ==
    ASSUME NEW line, NEW s, NEW stream, NEW fails, NEW stops,
           Sound(line, s, stream, NoEvent, NoEvent, fails, stops),
           NEW e \in Event, e.kind # "preview", e.n = Len(s) + 1,
           NEW prev, prev = (IF e.kind = "fact" THEN stream ELSE NoEvent),
           e.kind = "hint" => stream = NoEvent
    PROVE  Sound(line, Append(s, e), NoEvent, prev, e, fails, stops)
<1>1. PICK t : t = Append(s, e)
  OBVIOUS
<1>2. /\ s \in Seq(Event) /\ LineOf(line, s) /\ \A i \in DOMAIN s : s[i].n = i
      /\ stream \in Event /\ Waiting(stream, NoEvent, NoEvent) /\ Follows(stream, line, s)
  BY DEF Sound
<1>3. /\ t \in Seq(Event) /\ Len(t) = Len(s) + 1 /\ Len(s) \in Nat
      /\ DOMAIN s = 1..Len(s) /\ DOMAIN t = 1..(Len(s) + 1)
      /\ \A i \in DOMAIN s : t[i] = s[i]
      /\ t[Len(s) + 1] = e /\ \A i \in DOMAIN t : t[i].n = i
      /\ LineOf(line, t) /\ Follows(e, line, t)
      /\ Follows(stream, line, t)
  BY <1>1, <1>2, SentGrows
<1>4. Waiting(NoEvent, prev, e) /\ Follows(prev, line, t) /\ {NoEvent, prev, e} \subseteq Event
  <2>1. prev = NoEvent \/ (prev = stream /\ stream # NoEvent)
    OBVIOUS
  <2>2. CASE prev = NoEvent
    BY <2>2, EventFacts DEF Waiting, Follows
  <2>3. CASE prev = stream /\ stream # NoEvent
    <3>1. stream.n \in DOMAIN s
      BY <2>3 DEF Sound, Follows
    <3>2. stream.n < e.n
      BY <1>3, <3>1
    <3>3. e # NoEvent
      BY <1>3, EventFacts
    <3> QED  BY <1>2, <1>3, <2>3, <3>2, <3>3, EventFacts DEF Waiting
  <2> QED  BY <2>1, <2>2, <2>3
<1>5. ReliableKept(line, t, e, fails, stops)
  <2> SUFFICES ASSUME NEW i \in DOMAIN t, Reliable(t[i])
               PROVE  i \in Numbers(line) \/ e.n = i \/ (i \in fails /\ stops)
    BY DEF ReliableKept
  <2>1. CASE i \in DOMAIN s
    <3>1. NoEvent.n # i
      BY <1>3, <2>1, EventFacts
    <3> QED  BY <1>3, <2>1, <3>1 DEF Sound, ReliableKept
  <2> QED  BY <1>3, <2>1
<1>6. PreviewsKept(line, t, NoEvent, prev, e)
  <2>1. ASSUME NEW p \in DOMAIN t, LastBefore(p, Len(t) + 1, t)
        PROVE  p \in Numbers(line)
    <3>1. p \in DOMAIN s
      BY <1>3, <2>1 DEF LastBefore
    <3>2. Len(t) + 1 = Len(s) + 2
      BY <1>3
    <3>3. LastBefore(p, Len(s) + 1, s) /\ e.kind = "hint"
      BY <1>1, <1>2, <2>1, <3>1, <3>2, LastBeforeGrows
    <3>4. p \in Numbers(line) \/ stream.n = p
      BY <3>1, <3>3 DEF Sound, PreviewsKept
    <3>5. stream.n # p
      BY <1>3, <3>1, <3>3, EventFacts
    <3> QED  BY <3>4, <3>5
  <2>2. ASSUME NEW p \in DOMAIN t, NEW x \in DOMAIN t, t[x].kind = "fact", LastBefore(p, x, t)
        PROVE  /\ x \in Numbers(line) => p \in Numbers(line)
               /\ e.n = x => p \in Numbers(line) \/ prev.n = p
    <3>1. p \in DOMAIN s
      BY <1>3, <2>2 DEF LastBefore
    <3>2. CASE x \in DOMAIN s
      <4>1. LastBefore(p, x, s) /\ s[x].kind = "fact"
        BY <1>1, <1>2, <1>3, <2>2, <3>1, <3>2, LastBeforeGrows
      <4>2. e.n # x
        BY <1>3, <3>2
      <4> QED  BY <3>1, <3>2, <4>1, <4>2 DEF Sound, PreviewsKept
    <3>3. CASE x = Len(s) + 1
      <4>1. LastBefore(p, Len(s) + 1, s) /\ e.kind = "fact"
        BY <1>1, <1>2, <1>3, <2>2, <3>1, <3>3, LastBeforeGrows
      <4>2. p \in Numbers(line) \/ prev.n = p
        BY <3>1, <4>1 DEF Sound, PreviewsKept
      <4>3. x \notin Numbers(line)
        <5> SUFFICES ASSUME NEW i \in DOMAIN line, line[i].n = x PROVE FALSE
          BY DEF Numbers
        <5> QED  BY <1>2, <1>3, <3>3 DEF LineOf
      <4> QED  BY <4>2, <4>3
    <3> QED  BY <1>3, <3>2, <3>3
  <2> QED  BY <2>1, <2>2 DEF PreviewsKept
<1>7. Follows(NoEvent, line, t)
  BY DEF Follows
<1> QED  BY <1>1, <1>3, <1>4, <1>5, <1>6, <1>7 DEF Sound

\* The event that waits is put into the line: a preview that is flushed, the
\* event of the send, or the preview behind an empty queue.
LEMMA Flushes ==
    ASSUME NEW line, NEW s, NEW stream, NEW prev, NEW pend, NEW fails, NEW stops,
           Sound(line, s, stream, prev, pend, fails, stops),
           NEW e, e # NoEvent,
           NEW stream2, NEW prev2, NEW pend2,
           \/ e = prev /\ prev2 = NoEvent /\ pend2 = pend /\ stream2 = stream
           \/ e = pend /\ prev = NoEvent /\ prev2 = NoEvent /\ pend2 = NoEvent /\ stream2 = stream
           \/ e = stream /\ stream2 = NoEvent /\ prev2 = prev /\ pend2 = pend
    PROVE  Sound(Append(line, e), s, stream2, prev2, pend2, fails, stops)
<1>1. PICK l : l = Append(line, e)
  OBVIOUS
<1>2. /\ s \in Seq(Event) /\ LineOf(line, s) /\ \A i \in DOMAIN s : s[i].n = i
      /\ e \in Event /\ Waiting(stream, prev, pend) /\ Follows(e, line, s)
      /\ line \in Seq(Event)
  BY DEF Sound, LineOf
<1>3. Numbers(l) = Numbers(line) \cup {e.n}
  BY <1>1, <1>2, NumbersGrow
<1>4. /\ LineOf(l, s)
      /\ \A x \in Event : Follows(x, line, s) /\ (x # NoEvent => e.n < x.n) => Follows(x, l, s)
  BY <1>1, <1>2, LineGrows
<1>5. Follows(stream2, l, s) /\ Follows(prev2, l, s) /\ Follows(pend2, l, s)
  <2>1. Follows(NoEvent, l, s)
    BY DEF Follows
  <2>2. \A x \in {stream2, prev2, pend2} : x = NoEvent \/ (x = pend /\ e.n < x.n)
    BY <1>2 DEF Waiting
  <2>3. pend \in Event /\ Follows(pend, line, s)
    BY DEF Sound
  <2>4. \A x \in {stream2, prev2, pend2} : Follows(x, l, s)
    BY <1>4, <2>1, <2>2, <2>3
  <2> QED  BY <2>4
<1>6. {stream2, prev2, pend2} \subseteq Event /\ Waiting(stream2, prev2, pend2)
  BY <1>2, EventFacts DEF Sound, Waiting
<1>7. ReliableKept(l, s, pend2, fails, stops)
  BY <1>3, EventFacts DEF Sound, ReliableKept, Waiting
<1>8. PreviewsKept(l, s, stream2, prev2, pend2)
  <2>0. DOMAIN s = 1..Len(s) /\ Len(s) \in Nat
    BY <1>2, LenProperties
  <2>1. ASSUME NEW p \in DOMAIN s, LastBefore(p, Len(s) + 1, s)
        PROVE  p \in Numbers(l) \/ stream2.n = p
    BY <1>3, <2>1 DEF Sound, PreviewsKept
  <2>2. ASSUME NEW p \in DOMAIN s, NEW x \in DOMAIN s, s[x].kind = "fact", LastBefore(p, x, s)
        PROVE  /\ x \in Numbers(l) => p \in Numbers(l)
               /\ pend2.n = x => p \in Numbers(l) \/ prev2.n = p
    <3>1. /\ x \in Numbers(line) => p \in Numbers(line)
          /\ pend.n = x => p \in Numbers(line) \/ prev.n = p
      BY <2>2 DEF Sound, PreviewsKept
    <3>2. e.n = x => e = s[x]
      BY <1>2 DEF Follows
    <3>3. e.n = x => e = pend /\ prev = NoEvent
      BY <1>2, <2>2, <3>2 DEF Waiting
    <3>4. NoEvent.n # x /\ NoEvent.n # p
      BY <2>0, EventFacts
    <3>5. x \in Numbers(l) => p \in Numbers(l)
      BY <1>3, <3>1, <3>3, <3>4
    <3>6. pend2.n = x => p \in Numbers(l) \/ prev2.n = p
      BY <1>3, <3>1, <3>4
    <3> QED  BY <3>5, <3>6
  <2> QED  BY <2>1, <2>2 DEF PreviewsKept
<1> QED  BY <1>1, <1>2, <1>4, <1>5, <1>6, <1>7, <1>8 DEF Sound

\* A send that gives up refuses its event.
LEMMA Refuses ==
    ASSUME NEW line, NEW s, NEW stream, NEW prev, NEW pend, NEW fails, NEW stops,
           Sound(line, s, stream, prev, pend, fails, stops), pend # NoEvent, stops = TRUE
    PROVE  Sound(line, s, stream, NoEvent, NoEvent, fails \cup {pend.n}, stops)
<1>1. DOMAIN s = 1..Len(s) /\ Len(s) \in Nat
  BY LenProperties DEF Sound
<1>2. Waiting(stream, NoEvent, NoEvent) /\ {stream, NoEvent} \subseteq Event /\ Follows(NoEvent, line, s)
  BY EventFacts DEF Sound, Waiting, Follows
<1>3. ReliableKept(line, s, NoEvent, fails \cup {pend.n}, stops)
  BY DEF Sound, ReliableKept
<1>4. NoEvent.n \notin DOMAIN s
  BY <1>1, EventFacts
<1>5. PreviewsKept(line, s, stream, NoEvent, NoEvent)
  BY <1>4 DEF Sound, PreviewsKept
<1> QED  BY <1>2, <1>3, <1>5 DEF Sound

\* The turn may be stopped.
LEMMA Stops ==
    ASSUME NEW line, NEW s, NEW stream, NEW prev, NEW pend, NEW fails, NEW stops,
           Sound(line, s, stream, prev, pend, fails, stops)
    PROVE  Sound(line, s, stream, prev, pend, fails, TRUE)
BY DEF Sound, ReliableKept

-----------------------------------------------------------------------------
(* Steps of the events.                                                    *)

\* What the typed state says of sequences.
LEMMA EventTypes ==
    ASSUME EventInv
    PROVE  /\ events \in Seq(Event) /\ shown \in Seq(Event) /\ sent \in Seq(Event)
           /\ Line \in Seq(Event)
           /\ streaming \in Event /\ preview \in Event /\ pending \in Event
           /\ cancelled \in BOOLEAN /\ Len(sent) \in Nat /\ Len(events) \in 0..Capacity
           /\ polled \in 0..PollLimit /\ Capacity \in Nat /\ PollLimit \in Nat
<1>1. events \in Seq(Event) /\ shown \in Seq(Event) /\ sent \in Seq(Event)
  BY DEF EventInv, EventTypeOK
<1>2. Len(sent) \in Nat /\ Len(events) \in Nat
  BY <1>1, LenProperties
<1>3. Line \in Seq(Event)
  BY <1>1 DEF Line
<1> QED  BY <1>1, <1>2, <1>3, CapacityAssumption, PollLimitAssumption DEF EventInv, EventTypeOK

\* Nothing that concerns events changes.
LEMMA NothingSent ==
    ASSUME EventInv, UNCHANGED <<events, shown, streaming, preview, pending, sent, refused, cancelled>>
    PROVE  Sound(Line, sent, streaming, preview, pending, refused, cancelled)'
<1>1. Line' = Line
  BY DEF Line
<1> QED  BY <1>1 DEF EventInv, Sound, PreviewsKept, ReliableKept, Waiting

\* An event is appended to the queue.
LEMMA Appended ==
    ASSUME EventInv, NEW e \in Event, events' = Append(events, e), shown' = shown
    PROVE  Line' = Append(Line, e) /\ events' \in Seq(Event) /\ Len(events') = Len(events) + 1
<1>1. events' = events \o <<e>> /\ Append(Line, e) = Line \o <<e>>
  BY EventTypes, AppendIsConcat
<1>0. <<e>> \in Seq(Event)
  OBVIOUS
<1>2. PICK a \in Seq(Event), b \in Seq(Event), c \in Seq(Event) : a = shown /\ b = events /\ c = <<e>>
  BY <1>0, EventTypes
<1>3. (a \o b) \o c = a \o (b \o c)
  BY ONLY <1>2, ConcatAssociative
<1>4. events' \in Seq(Event) /\ Len(events') = Len(events) + 1
  BY EventTypes, AppendProperties
<1> QED  BY <1>1, <1>2, <1>3, <1>4 DEF Line

\* EventSender::queue: the event is sent, dropped, flushed first or held back.
LEMMA SendStep ==
    ASSUME EventInv, NEW kind \in Kind, Send(kind)
    PROVE  EventInv'
<1>1. PICK e : e = [kind |-> kind, n |-> Len(sent) + 1]
  OBVIOUS
<1>2. e \in Event /\ e.kind = kind /\ e.n = Len(sent) + 1 /\ e # NoEvent
  <2>1. e \in Event /\ e.kind = kind /\ e.n = Len(sent) + 1
    BY <1>1, EventTypes DEF Event
  <2>2. e.n # 0
    BY <2>1, EventTypes
  <2> QED  BY <2>1, <2>2, EventFacts
<1>3. /\ sender = "idle" /\ sent' = Append(sent, e)
      /\ UNCHANGED <<events, waker, cancelled, loop, polled, woken, refused, shown>>
      /\ pending = NoEvent /\ preview = NoEvent /\ Line' = Line
  BY <1>1 DEF Send, EventInv, Standing, Line
<1>4. sent' \in Seq(Event)
  BY <1>2, <1>3, EventTypes
<1>5. PICK L, s, st, rf, cn : L = Line /\ s = sent /\ st = streaming /\ rf = refused /\ cn = cancelled
  OBVIOUS
<1>6. Sound(L, s, st, NoEvent, NoEvent, rf, cn)
  BY <1>3, <1>5 DEF EventInv
<1>8. loop # "done"
  BY <1>3 DEF EventInv, Standing
<1>9. CASE kind = "preview"
  <2>1. streaming' = e /\ sender' \in {"wake", "idle"} /\ UNCHANGED <<pending, preview, wakes>>
    BY <1>1, <1>9 DEF Send, AfterSend, Dropped
  <2>2. Sound(L, Append(s, e), e, NoEvent, NoEvent, rf, cn)
    BY ONLY <1>2, <1>5, <1>6, <1>9, PreviewSent
  <2>3. Sound(Line, sent, streaming, preview, pending, refused, cancelled)'
    BY <1>3, <1>5, <2>1, <2>2
  <2>4. EventTypeOK' /\ Standing'
    BY <1>2, <1>3, <1>4, <1>8, <2>1 DEF EventInv, EventTypeOK, Standing, Sender, Sending, Empty
  <2> QED  BY <2>3, <2>4 DEF EventInv
<1>10. CASE kind # "preview" /\ Dropped(e)
  <2>1. sender' \in {"wake", "idle"} /\ UNCHANGED <<streaming, pending, preview, wakes>> /\ e.kind = "hint"
    BY <1>1, <1>10 DEF Send, AfterSend, Dropped
  <2>2. Sound(L, Append(s, e), st, NoEvent, NoEvent, rf, cn)
    BY ONLY <1>2, <1>6, <1>5, <2>1, HintDropped
  <2>3. Sound(Line, sent, streaming, preview, pending, refused, cancelled)'
    BY <1>3, <1>5, <2>1, <2>2
  <2>4. EventTypeOK' /\ Standing'
    BY <1>2, <1>3, <1>4, <1>8, <2>1 DEF EventInv, EventTypeOK, Standing, Sender, Sending, Empty
  <2> QED  BY <2>3, <2>4 DEF EventInv
<1>11. CASE kind # "preview" /\ ~Dropped(e)
  <2>1. /\ pending' = e /\ wakes' = (Empty /\ waker)
        /\ IF Flushed(e)
           THEN sender' = "flush" /\ preview' = streaming /\ streaming' = NoEvent
           ELSE /\ sender' = "push" /\ preview' = preview
                /\ streaming' = IF streaming \in Stale(e) THEN NoEvent ELSE streaming
    BY <1>1, <1>11 DEF Send
  <2>2. /\ streaming' = NoEvent
        /\ preview' = IF e.kind = "fact" THEN streaming ELSE NoEvent
        /\ e.kind = "hint" => streaming = NoEvent
        /\ sender' = IF preview' # NoEvent THEN "flush" ELSE "push"
    <3>1. CASE Flushed(e)
      BY <2>1, <3>1 DEF Flushed
    <3>2. CASE ~Flushed(e) /\ e.kind = "settle"
      BY <1>3, <2>1, <3>2 DEF Stale
    <3>3. CASE ~Flushed(e) /\ e.kind = "fact"
      BY <1>3, <2>1, <3>3 DEF Flushed, Stale
    <3>4. CASE ~Flushed(e) /\ e.kind = "hint"
      BY <1>3, <1>11, <2>1, <3>4 DEF Dropped, Stale
    <3> QED  BY <1>2, <1>11, <3>1, <3>2, <3>3, <3>4 DEF Kind
  <2>3. PICK pr : pr = IF e.kind = "fact" THEN st ELSE NoEvent
    OBVIOUS
  <2>4. e.kind # "preview" /\ (e.kind = "hint" => st = NoEvent)
    BY <1>2, <1>5, <1>11, <2>2
  <2>5. Sound(L, Append(s, e), NoEvent, pr, e, rf, cn)
    BY ONLY <1>2, <1>5, <1>6, <2>3, <2>4, EventHeld
  <2>6. Sound(Line, sent, streaming, preview, pending, refused, cancelled)'
    BY <1>3, <1>5, <2>1, <2>2, <2>3, <2>5
  <2>7. preview' \in Event /\ pending' \in Event /\ streaming' \in Event
    BY <2>6 DEF Sound
  <2>8. sender' \in {"flush", "push"} /\ (sender' = "flush" <=> preview' # NoEvent) /\ pending' # NoEvent
    BY <1>2, <2>1, <2>2
  <2>9. wakes' \in BOOLEAN
    BY <2>1 DEF Empty, EventInv, EventTypeOK
  <2>10. EventTypeOK' /\ Standing'
    BY <1>3, <1>4, <1>8, <2>7, <2>8, <2>9 DEF EventInv, EventTypeOK, Standing, Sender, Sending
  <2> QED  BY <2>6, <2>10 DEF EventInv
<1> QED  BY <1>9, <1>10, <1>11

\* The preview goes before the event that follows it.
LEMMA FlushStep ==
    ASSUME EventInv, Flush
    PROVE  EventInv'
<1>1. /\ sender = "flush" /\ ~Full /\ events' = Append(events, preview)
      /\ preview' = NoEvent /\ sender' = "push" /\ preview # NoEvent /\ pending # NoEvent
      /\ UNCHANGED <<streaming, waker, pending, wakes, cancelled, loop, polled, woken, sent, refused, shown>>
  BY DEF Flush, EventInv, Standing
<1>2. Line' = Append(Line, preview) /\ events' \in Seq(Event) /\ Len(events') = Len(events) + 1
  BY <1>1, EventTypes, Appended
<1>3. PICK L, s, st, pr, pe, rf, cn : L = Line /\ s = sent /\ st = streaming /\ pr = preview
                                      /\ pe = pending /\ rf = refused /\ cn = cancelled
  OBVIOUS
<1>4. Sound(L, s, st, pr, pe, rf, cn) /\ pr # NoEvent
  BY <1>1, <1>3 DEF EventInv
<1>5. Sound(Append(L, pr), s, st, NoEvent, pe, rf, cn)
  BY ONLY <1>4, Flushes
<1>6. Sound(Line, sent, streaming, preview, pending, refused, cancelled)'
  BY <1>1, <1>2, <1>3, <1>5
<1>7. EventTypeOK' /\ Standing'
  BY <1>1, <1>2, EventTypes, EventFacts DEF EventInv, EventTypeOK, Standing, Full, Sender, Sending
<1> QED  BY <1>6, <1>7 DEF EventInv

\* The event held back enters the queue.
LEMMA PushStep ==
    ASSUME EventInv, Push
    PROVE  EventInv'
<1>1. /\ sender = "push" /\ ~Full /\ events' = Append(events, pending)
      /\ pending' = NoEvent /\ sender' \in {"wake", "idle"} /\ wakes' = FALSE
      /\ preview = NoEvent /\ pending # NoEvent
      /\ UNCHANGED <<streaming, waker, preview, cancelled, loop, polled, woken, sent, refused, shown>>
  BY DEF Push, EventInv, Standing, AfterSend
<1>2. Line' = Append(Line, pending) /\ events' \in Seq(Event) /\ Len(events') = Len(events) + 1
  BY <1>1, EventTypes, Appended
<1>3. PICK L, s, st, pe, rf, cn : L = Line /\ s = sent /\ st = streaming
                                      /\ pe = pending /\ rf = refused /\ cn = cancelled
  OBVIOUS
<1>4. Sound(L, s, st, NoEvent, pe, rf, cn) /\ pe # NoEvent
  BY <1>1, <1>3 DEF EventInv
<1>5. Sound(Append(L, pe), s, st, NoEvent, NoEvent, rf, cn)
  BY ONLY <1>4, Flushes
<1>6. Sound(Line, sent, streaming, preview, pending, refused, cancelled)'
  BY <1>1, <1>2, <1>3, <1>5
<1>7. wakes' \in BOOLEAN
  BY <1>1
<1>8. loop # "done"
  BY <1>1 DEF EventInv, Standing
<1>9. EventTypeOK' /\ Standing'
  BY <1>1, <1>2, <1>7, <1>8, EventTypes, EventFacts DEF EventInv, EventTypeOK, Standing, Full, Sender, Sending
<1> QED  BY <1>6, <1>9 DEF EventInv

\* Nobody will read: the event is refused.
LEMMA SendFailsStep ==
    ASSUME EventInv, SendFails
    PROVE  EventInv'
<1>1. /\ sender \in {"flush", "push"} /\ cancelled = TRUE /\ pending # NoEvent
      /\ refused' = refused \cup {pending.n}
      /\ pending' = NoEvent /\ preview' = NoEvent /\ sender' \in {"wake", "idle"} /\ wakes' = FALSE
      /\ UNCHANGED <<events, streaming, waker, cancelled, loop, polled, woken, sent, shown>>
      /\ Line' = Line
  BY DEF SendFails, GivesUp, EventInv, EventTypeOK, Standing, AfterSend, Line
<1>2. PICK L, s, st, pr, pe, rf, cn : L = Line /\ s = sent /\ st = streaming /\ pr = preview
                                      /\ pe = pending /\ rf = refused /\ cn = cancelled
  OBVIOUS
<1>3. Sound(L, s, st, pr, pe, rf, cn) /\ pe # NoEvent /\ cn = TRUE
  BY <1>1, <1>2 DEF EventInv
<1>4. Sound(L, s, st, NoEvent, NoEvent, rf \cup {pe.n}, cn)
  BY ONLY <1>3, Refuses
<1>5. Sound(Line, sent, streaming, preview, pending, refused, cancelled)'
  BY <1>1, <1>2, <1>4
<1>6. wakes' \in BOOLEAN /\ refused' \subseteq Nat
  BY <1>1, EventTypes, EventFacts DEF EventInv, EventTypeOK
<1>7. loop # "done"
  BY <1>1 DEF EventInv, Standing
<1>8. EventTypeOK' /\ Standing'
  BY <1>1, <1>6, <1>7, EventFacts DEF EventInv, EventTypeOK, Standing, Sender, Sending
<1> QED  BY <1>5, <1>8 DEF EventInv

\* EventReceiver::take: an event leaves the queue and is shown.
LEMMA TakeStep ==
    ASSUME EventInv, Take
    PROVE  EventInv'
<1>1. /\ loop = "poll" /\ polled < PollLimit /\ ~Empty /\ polled' = polled + 1
      /\ UNCHANGED <<waker, sender, pending, preview, wakes, cancelled, loop, woken, sent, refused>>
  BY DEF Take
<1>2. polled' \in 0..PollLimit
  BY <1>1, EventTypes
<1>3. CASE events # <<>>
  <2>1. shown' = Append(shown, Head(events)) /\ events' = Tail(events) /\ streaming' = streaming
    BY <1>3 DEF Take
  <2>2. /\ Head(events) \in Event /\ events' \in Seq(Event) /\ Len(events') = Len(events) - 1
        /\ events = <<Head(events)>> \o events'
    <3>1. /\ Head(events) \in Event /\ events' \in Seq(Event) /\ Len(events') = Len(events) - 1
          /\ \A i \in 1..Len(events') : events'[i] = events[i + 1]
          /\ Head(events) = events[1]
      BY <1>3, <2>1, EventTypes, HeadTailProperties
    <3>2. PICK t : t = <<Head(events)>> \o events'
      OBVIOUS
    <3>3. Len(events) \in Nat \ {0} /\ <<Head(events)>> \in Seq(Event) /\ Len(<<Head(events)>>) = 1
      BY <1>3, <3>1, EventTypes, EmptySeq
    <3>4. /\ t \in Seq(Event) /\ Len(t) = Len(events)
          /\ \A i \in 1..Len(events) : t[i] = IF i <= 1 THEN <<Head(events)>>[i] ELSE events'[i - 1]
      BY <3>1, <3>2, <3>3, ConcatProperties
    <3>5. \A i \in 1..Len(events) : t[i] = events[i]
      BY <3>1, <3>3, <3>4
    <3>6. t = events
      BY <3>4, <3>5, EventTypes, SeqEqual
    <3> QED  BY <3>1, <3>2, <3>6
  <2>3. shown' \in Seq(Event)
    BY <2>1, <2>2, EventTypes
  <2>4. Line' = Line
    <3>1. shown' = shown \o <<Head(events)>>
      BY <2>1, <2>2, EventTypes, AppendIsConcat
    <3>0. <<Head(events)>> \in Seq(Event)
      BY <2>2
    <3>2. PICK a \in Seq(Event), b \in Seq(Event), c \in Seq(Event) :
              a = shown /\ b = <<Head(events)>> /\ c = events'
      BY <2>2, <3>0, EventTypes
    <3>3. (a \o b) \o c = a \o (b \o c)
      BY ONLY <3>2, ConcatAssociative
    <3> QED  BY <2>2, <3>1, <3>2, <3>3 DEF Line
  <2>5. Sound(Line, sent, streaming, preview, pending, refused, cancelled)'
    BY <1>1, <2>1, <2>4 DEF EventInv, Sound, PreviewsKept, ReliableKept, Waiting
  <2>6. Len(events') <= Capacity
    BY <2>2, EventTypes
  <2>7. EventTypeOK' /\ Standing'
    BY <1>1, <1>2, <2>1, <2>2, <2>3, <2>6 DEF EventInv, EventTypeOK, Standing
  <2> QED  BY <2>5, <2>7 DEF EventInv
<1>4. CASE events = <<>>
  <2>1. shown' = Append(shown, streaming) /\ streaming' = NoEvent /\ events' = events /\ streaming # NoEvent
    BY <1>1, <1>4 DEF Take, Empty
  <2>2. shown' \in Seq(Event) /\ Line = shown /\ Line' = shown'
    <3>1. shown' \in Seq(Event)
      BY <2>1, EventTypes
    <3> QED  BY <1>4, <2>1, <3>1, EventTypes, ConcatEmptySeq DEF Line
  <2>3. PICK L, s, st, pr, pe, rf, cn : L = Line /\ s = sent /\ st = streaming /\ pr = preview
                                        /\ pe = pending /\ rf = refused /\ cn = cancelled
    OBVIOUS
  <2>4. Sound(L, s, st, pr, pe, rf, cn) /\ st # NoEvent
    BY <2>1, <2>3 DEF EventInv
  <2>5. Sound(Append(L, st), s, NoEvent, pr, pe, rf, cn)
    BY ONLY <2>4, Flushes
  <2>6. Sound(Line, sent, streaming, preview, pending, refused, cancelled)'
    BY <1>1, <2>1, <2>2, <2>3, <2>5
  <2>7. EventTypeOK' /\ Standing'
    BY <1>1, <1>2, <2>1, <2>2, EventFacts DEF EventInv, EventTypeOK, Standing
  <2> QED  BY <2>6, <2>7 DEF EventInv
<1> QED  BY <1>3, <1>4

\* The poll ends; when the worker has finished, all that is left is shown.
LEMMA PollEndStep ==
    ASSUME EventInv, PollEnd
    PROVE  EventInv'
<1>1. /\ loop = "poll" /\ polled' = 0
      /\ UNCHANGED <<waker, sender, pending, preview, wakes, cancelled, woken, sent, refused>>
  BY DEF PollEnd
<1>2. polled' \in 0..PollLimit
  BY <1>1, EventTypes
<1>3. CASE sender # "finished"
  <2>1. loop' = "inputs" /\ UNCHANGED <<events, streaming, shown>>
    BY <1>3 DEF PollEnd
  <2>2. Sound(Line, sent, streaming, preview, pending, refused, cancelled)'
    BY <1>1, <2>1, NothingSent
  <2>3. EventTypeOK' /\ Standing'
    BY <1>1, <1>2, <2>1 DEF EventInv, EventTypeOK, Standing, Loop
  <2> QED  BY <2>2, <2>3 DEF EventInv
<1>4. CASE sender = "finished"
  <2>1. shown' = shown \o Remaining /\ events' = <<>> /\ streaming' = NoEvent /\ loop' = "done"
    BY <1>4 DEF PollEnd
  <2>0. PICK L, s, st, pr, pe, rf, cn : /\ L = Line /\ s = sent /\ st = streaming /\ pr = preview
                                        /\ pe = pending /\ rf = refused /\ cn = cancelled
    OBVIOUS
  <2>2. /\ L = Line /\ s = sent /\ st = streaming /\ pr = preview /\ pe = pending
        /\ rf = refused /\ cn = cancelled /\ L \in Seq(Event) /\ st \in Event
    BY <2>0, EventTypes
  <2>3. Sound(L, s, st, pr, pe, rf, cn)
    BY <2>2 DEF EventInv
  <2>4. shown' = IF st = NoEvent THEN L ELSE Append(L, st)
    <3>1. CASE st = NoEvent
      BY <2>1, <2>2, <3>1, EventTypes, ConcatEmptySeq DEF Remaining, Just, Line
    <3>2. CASE st # NoEvent
      <4>1. <<st>> \in Seq(Event)
        BY <2>2
      <4>2. PICK a \in Seq(Event), b \in Seq(Event), c \in Seq(Event) :
                a = shown /\ b = events /\ c = <<st>>
        BY <4>1, EventTypes
      <4>3. (a \o b) \o c = a \o (b \o c)
        BY ONLY <4>2, ConcatAssociative
      <4>4. Append(L, st) = L \o <<st>>
        BY <2>2, AppendIsConcat
      <4> QED  BY <2>1, <2>2, <3>2, <4>2, <4>3, <4>4 DEF Remaining, Just, Line
    <3> QED  BY <3>1, <3>2
  <2>5. PICK M : M = IF st = NoEvent THEN L ELSE Append(L, st)
    OBVIOUS
  <2>6. Sound(M, s, NoEvent, pr, pe, rf, cn)
    <3>1. CASE st = NoEvent
      BY <2>3, <2>5, <3>1
    <3>2. CASE st # NoEvent
      <4>1. Sound(Append(L, st), s, NoEvent, pr, pe, rf, cn)
        BY ONLY <2>3, <3>2, Flushes
      <4> QED  BY <2>5, <3>2, <4>1
    <3> QED  BY <3>1, <3>2
  <2>7. shown' = M /\ M \in Seq(Event) /\ Line' = M
    <3>1. M \in Seq(Event)
      BY <2>6 DEF Sound, LineOf
    <3> QED  BY <2>1, <2>4, <2>5, <3>1, ConcatEmptySeq DEF Line
  <2>8. Sound(Line, sent, streaming, preview, pending, refused, cancelled)'
    BY <1>1, <2>1, <2>2, <2>6, <2>7
  <2>9. events' \in Seq(Event) /\ Len(events') = 0
    BY <2>1, EmptySeq
  <2>10. EventTypeOK'
    BY <1>1, <1>2, <2>1, <2>7, <2>9, EventTypes, EventFacts DEF EventInv, EventTypeOK, Loop
  <2>11. Standing'
    BY <1>1, <1>4, <2>1 DEF EventInv, Standing, Empty
  <2> QED  BY <2>8, <2>10, <2>11 DEF EventInv
<1> QED  BY <1>3, <1>4

\* Steps that change no event.
LEMMA OtherEventSteps ==
    ASSUME EventInv,
           Wake \/ Drop \/ Finish \/ WakeWith \/ Inputs \/ Awake \/ WorkerJoined \/ Cancel \/ Quit
             \/ UNCHANGED eventVars
    PROVE  EventInv'
<1>1. /\ UNCHANGED <<events, streaming, pending, preview, sent, refused, shown>>
      /\ (cancelled' = cancelled \/ cancelled' = TRUE)
  BY DEF Wake, Drop, Finish, WakeWith, Inputs, Awake, WorkerJoined, Cancel, Quit, eventVars
<1>2. Line' = Line
  BY <1>1 DEF Line
<1>3. Sound(Line, sent, streaming, preview, pending, refused, cancelled)'
  <2>1. PICK L, s, st, pr, pe, rf, cn : /\ L = Line /\ s = sent /\ st = streaming /\ pr = preview
                                        /\ pe = pending /\ rf = refused /\ cn = cancelled
    OBVIOUS
  <2>2. Sound(L, s, st, pr, pe, rf, cn)
    BY <2>1 DEF EventInv
  <2>3. Sound(L, s, st, pr, pe, rf, TRUE)
    BY ONLY <2>2, Stops
  <2> QED  BY <1>1, <1>2, <2>1, <2>2, <2>3
<1>4. CASE Wake \/ Drop \/ Finish
  <2>1. {waker', wakes', cancelled', woken'} \subseteq BOOLEAN
    BY <1>4 DEF EventInv, EventTypeOK, Wake, Drop, Finish
  <2>2. EventTypeOK'
    BY <1>1, <1>4, <2>1 DEF EventInv, EventTypeOK, Wake, Drop, Finish, Sender, Sending
  <2>3. Standing'
    BY <1>4 DEF EventInv, Standing, Wake, Drop, Finish, Empty
  <2> QED  BY <1>3, <2>2, <2>3 DEF EventInv
<1>5. CASE WakeWith \/ Inputs \/ Awake \/ WorkerJoined \/ Cancel \/ Quit
  <2>1. {waker', wakes', cancelled', woken'} \subseteq BOOLEAN
    <3>1. waker \in BOOLEAN /\ wakes \in BOOLEAN /\ cancelled \in BOOLEAN /\ woken \in BOOLEAN
      BY DEF EventInv, EventTypeOK
    <3>2. wakes' \in BOOLEAN /\ cancelled' \in BOOLEAN
      BY <1>5, <3>1 DEF WakeWith, Inputs, Awake, WorkerJoined, Cancel, Quit
    <3>3. waker' \in BOOLEAN
      BY <1>5, <3>1 DEF WakeWith, Inputs, Awake, WorkerJoined, Cancel, Quit
    <3>4. woken' \in BOOLEAN
      <4>1. CASE WakeWith
        BY <3>1, <4>1 DEF WakeWith, Empty
      <4>2. CASE Inputs \/ Awake \/ WorkerJoined \/ Cancel \/ Quit
        BY <3>1, <4>2 DEF Inputs, Awake, WorkerJoined, Cancel, Quit
      <4> QED  BY <1>5, <4>1, <4>2
    <3> QED  BY <3>2, <3>3, <3>4
  <2>2. loop' \in Loop /\ polled' = polled /\ sender' = sender
    BY <1>5 DEF WakeWith, Inputs, Awake, WorkerJoined, Cancel, Quit, Loop, EventInv, EventTypeOK
  <2>3. EventTypeOK'
    BY <1>1, <2>1, <2>2 DEF EventInv, EventTypeOK
  <2>4. Standing'
    BY <1>5 DEF EventInv, Standing, WakeWith, Inputs, Awake, WorkerJoined, Cancel, Quit, Empty
  <2> QED  BY <1>3, <2>3, <2>4 DEF EventInv
<1>6. CASE UNCHANGED eventVars
  BY <1>3, <1>6 DEF EventInv, EventTypeOK, Standing, eventVars, Full, Empty
<1> QED  BY <1>4, <1>5, <1>6

\* The first state.
LEMMA EventInitInv ==
    ASSUME EventInit
    PROVE  EventInv
<1>1. PICK z : z = <<>>
  OBVIOUS
<1>2. z \in Seq(Event) /\ Len(z) = 0 /\ DOMAIN z = {}
  <2>1. z \in Seq(Event) /\ Len(z) = 0
    BY <1>1, EmptySeq
  <2>2. DOMAIN z = 1..0
    BY <2>1, LenProperties
  <2> QED  BY <2>1, <2>2
<1>3. Line = z /\ sent = z /\ events = z /\ shown = z
  BY <1>1, <1>2, ConcatEmptySeq DEF EventInit, Line
<1>4. Sound(z, z, NoEvent, NoEvent, NoEvent, {}, FALSE)
  <2>1. LineOf(z, z) /\ Follows(NoEvent, z, z)
    BY <1>2 DEF LineOf, Rising, Follows
  <2>2. PreviewsKept(z, z, NoEvent, NoEvent, NoEvent) /\ ReliableKept(z, z, NoEvent, {}, FALSE)
    BY <1>2 DEF PreviewsKept, ReliableKept
  <2> QED  BY <1>2, <2>1, <2>2, EventFacts DEF Sound, Waiting
<1>5. Sound(Line, sent, streaming, preview, pending, refused, cancelled)
  BY <1>3, <1>4 DEF EventInit
<1>6. 0 \in 0..PollLimit /\ 0 <= Capacity
  BY PollLimitAssumption, CapacityAssumption
<1>7. EventTypeOK
  BY <1>2, <1>3, <1>6, EventFacts DEF EventInit, EventTypeOK, Sender, Loop
<1>8. Standing
  BY DEF EventInit, Standing
<1> QED  BY <1>5, <1>7, <1>8 DEF EventInv

\* In every reachable state the line holds events that were sent, in their
\* order, and each preview and reliable event is where EventInv says.
THEOREM EventInvariant == EventSpec => []EventInv
<1>1. EventInv /\ [EventNext]_eventVars => EventInv'
  <2> SUFFICES ASSUME EventInv, [EventNext]_eventVars PROVE EventInv'
    OBVIOUS
  <2>1. CASE \E kind \in Kind : Send(kind)
    BY <2>1, SendStep
  <2>2. CASE Flush
    BY <2>2, FlushStep
  <2>3. CASE Push
    BY <2>3, PushStep
  <2>4. CASE SendFails
    BY <2>4, SendFailsStep
  <2>5. CASE Take
    BY <2>5, TakeStep
  <2>6. CASE PollEnd
    BY <2>6, PollEndStep
  <2>7. CASE Wake \/ Drop \/ Finish \/ WakeWith \/ Inputs \/ Awake \/ WorkerJoined \/ Cancel \/ Quit
               \/ UNCHANGED eventVars
    BY <2>7, OtherEventSteps
  <2> QED  BY <2>1, <2>2, <2>3, <2>4, <2>5, <2>6, <2>7 DEF EventNext, SenderStep, LoopStep
<1> QED  BY <1>1, EventInitInv, PTL DEF EventSpec

-----------------------------------------------------------------------------
(* What the interface shows.                                               *)

\* A line with the event that may follow it, if there is one.
LEMMA LineAndNext ==
    ASSUME NEW s \in Seq(Event), NEW line, NEW e \in Event, LineOf(line, s), Follows(e, line, s)
    PROVE  /\ LineOf(line \o Just(e), s)
           /\ \A x \in Event : Follows(x, line, s) /\ (e # NoEvent /\ x # NoEvent => e.n < x.n)
                                 => Follows(x, line \o Just(e), s)
<1>1. line \in Seq(Event)
  BY DEF LineOf
<1>2. CASE e = NoEvent
  <2>1. line \o Just(e) = line
    BY <1>1, <1>2, ConcatEmptySeq DEF Just
  <2> QED  BY <2>1
<1>3. CASE e # NoEvent
  <2>1. line \o Just(e) = Append(line, e)
    BY <1>1, <1>3, AppendIsConcat DEF Just
  <2> QED  BY <1>3, <2>1, LineGrows
<1> QED  BY <1>2, <1>3

\* What was shown, and what is left to show, is in the order it was sent.
LEMMA ShownInOrderInv ==
    ASSUME EventInv
    PROVE  ShownInOrder
<1>1. PICK a \in Seq(Event), b \in Seq(Event), st \in Event, pr \in Event, pe \in Event, s \in Seq(Event) :
          a = shown /\ b = events /\ st = streaming /\ pr = preview /\ pe = pending /\ s = sent
  BY EventTypes
<1>2. Sound(a \o b, s, st, pr, pe, refused, cancelled)
  BY <1>1 DEF EventInv, Line
<1>3. /\ LineOf(a \o b, s) /\ Follows(st, a \o b, s) /\ Follows(pr, a \o b, s) /\ Follows(pe, a \o b, s)
      /\ Waiting(st, pr, pe)
  BY <1>2 DEF Sound
<1>4. PICK l1 : l1 = (a \o b) \o Just(st)
  OBVIOUS
<1>5. LineOf(l1, s) /\ Follows(pr, l1, s) /\ Follows(pe, l1, s)
  BY <1>3, <1>4, LineAndNext DEF Waiting
<1>6. PICK l2 : l2 = l1 \o Just(pr)
  OBVIOUS
<1>7. LineOf(l2, s) /\ Follows(pe, l2, s)
  BY <1>3, <1>5, <1>6, LineAndNext DEF Waiting
<1>8. PICK l3 : l3 = l2 \o Just(pe)
  OBVIOUS
<1>9. LineOf(l3, s)
  BY <1>7, <1>8, LineAndNext
<1>10. a \o (b \o Just(st)) = l1
  <2>1. PICK c \in Seq(Event) : c = Just(st)
    <3>1. <<>> \in Seq(Event) /\ <<st>> \in Seq(Event)
      OBVIOUS
    <3> QED  BY <3>1 DEF Just
  <2>2. (a \o b) \o c = a \o (b \o c)
    BY ONLY a \in Seq(Event), b \in Seq(Event), c \in Seq(Event), ConcatAssociative
  <2> QED  BY <1>4, <2>1, <2>2
<1>11. shown \o Remaining \o Just(preview) \o Just(pending) = l3
  BY <1>1, <1>6, <1>8, <1>10 DEF Remaining
<1> QED  BY <1>9, <1>11 DEF ShownInOrder, LineOf, Rising

\* The numbers of what was shown are a beginning of those of the line.
LEMMA ShownFirst ==
    ASSUME EventInv
    PROVE  /\ Numbers(Line) = Numbers(shown) \cup Numbers(events)
           /\ \A x \in Numbers(shown), p \in Numbers(Line) : p < x => p \in Numbers(shown)
<1>1. PICK a \in Seq(Event), b \in Seq(Event) : a = shown /\ b = events
  BY EventTypes
<1>2. PICK l : l = a \o b
  OBVIOUS
<1>3. /\ l \in Seq(Event) /\ Len(l) = Len(a) + Len(b) /\ Len(a) \in Nat /\ Len(b) \in Nat
      /\ DOMAIN l = 1..(Len(a) + Len(b)) /\ DOMAIN a = 1..Len(a) /\ DOMAIN b = 1..Len(b)
      /\ \A i \in 1..(Len(a) + Len(b)) : l[i] = IF i <= Len(a) THEN a[i] ELSE b[i - Len(a)]
  BY <1>2, ConcatProperties, LenProperties
<1>4. \A i \in DOMAIN a : i \in DOMAIN l /\ l[i] = a[i]
  BY <1>3
<1>5. \A i \in DOMAIN b : i + Len(a) \in DOMAIN l /\ l[i + Len(a)] = b[i]
  BY <1>3
<1>6. \A i \in DOMAIN l : (i \in DOMAIN a /\ l[i] = a[i]) \/ (i > Len(a) /\ i - Len(a) \in DOMAIN b /\ l[i] = b[i - Len(a)])
  BY <1>3
<1>7. Numbers(l) = Numbers(a) \cup Numbers(b)
  BY <1>4, <1>5, <1>6 DEF Numbers
<1>8. ASSUME NEW x \in Numbers(a), NEW p \in Numbers(l), p < x
      PROVE  p \in Numbers(a)
  <2>1. PICK i \in DOMAIN a : a[i].n = x
    BY DEF Numbers
  <2>2. PICK j \in DOMAIN l : l[j].n = p
    BY DEF Numbers
  <2>3. CASE j \in DOMAIN a
    BY <1>4, <2>2, <2>3 DEF Numbers
  <2>4. CASE j > Len(a)
    <3>1. i < j /\ i \in DOMAIN l /\ l[i].n = x
      BY <1>3, <1>4, <2>1, <2>4
    <3>2. Rising(l)
      BY <1>1, <1>2 DEF EventInv, Sound, LineOf, Line
    <3>3. x < p
      BY <2>2, <3>1, <3>2 DEF Rising
    <3>4. x \in Nat /\ p \in Nat
      BY <1>3, <2>2, <3>1, EventFacts
    <3> QED  BY <1>8, <3>3, <3>4
  <2> QED  BY <1>6, <2>3, <2>4
<1> QED  BY <1>1, <1>2, <1>7, <1>8 DEF Line

\* A reliable event that was neither shown nor refused waits somewhere.
LEMMA NothingLostInv ==
    ASSUME EventInv
    PROVE  NoReliableLost
BY ShownFirst DEF EventInv, Sound, ReliableKept, NoReliableLost

\* The last preview before a reliable event is shown before it.
LEMMA LastPreviewInv ==
    ASSUME EventInv
    PROVE  LastPreviewShown
<1> SUFFICES ASSUME NEW i \in DOMAIN shown, shown[i].kind = "fact",
                    NEW p \in 1..(shown[i].n - 1), sent[p].kind = "preview",
                    \A q \in (p + 1)..(shown[i].n - 1) : sent[q].kind = "hint"
             PROVE  p \in Numbers(shown)
  BY DEF LastPreviewShown
<1>1. PICK x : x = shown[i].n
  OBVIOUS
<1>2. x \in Numbers(shown)
  BY <1>1 DEF Numbers
<1>3. PICK j \in DOMAIN Line : Line[j] = shown[i]
  <2>1. i \in DOMAIN Line /\ Line[i] = shown[i]
    <3>1. PICK a \in Seq(Event), b \in Seq(Event) : a = shown /\ b = events
      BY EventTypes
    <3>2. /\ i \in 1..Len(a) /\ Len(a) \in Nat /\ Len(b) \in Nat
          /\ DOMAIN (a \o b) = 1..(Len(a) + Len(b))
          /\ \A k \in 1..(Len(a) + Len(b)) : (a \o b)[k] = IF k <= Len(a) THEN a[k] ELSE b[k - Len(a)]
      BY <3>1, ConcatProperties, LenProperties
    <3> QED  BY <3>1, <3>2 DEF Line
  <2> QED  BY <2>1
<1>4. x \in DOMAIN sent /\ sent[x] = shown[i]
  BY <1>1, <1>3 DEF EventInv, Sound, LineOf
<1>5. DOMAIN sent = 1..Len(sent) /\ Len(sent) \in Nat
  BY EventTypes, LenProperties
<1>6. p \in DOMAIN sent /\ p < x
  BY <1>1, <1>4, <1>5
<1>7. LastBefore(p, x, sent) /\ sent[x].kind = "fact"
  BY <1>1, <1>4, <1>6 DEF LastBefore
<1>8. p \in Numbers(Line)
  BY <1>2, <1>4, <1>6, <1>7, ShownFirst DEF EventInv, Sound, PreviewsKept
<1> QED  BY <1>2, <1>6, <1>8, ShownFirst

\* A worker that is collected has no events left.
LEMMA CollectedInv ==
    ASSUME EventInv
    PROVE  CollectedWhole
<1> SUFFICES ASSUME loop = "done", ~cancelled
             PROVE  Empty /\ \A i \in DOMAIN sent : Reliable(sent[i]) => i \in Numbers(shown)
  BY DEF CollectedWhole
<1>1. Empty /\ pending = NoEvent
  BY DEF EventInv, Standing
<1>2. DOMAIN sent = 1..Len(sent) /\ Len(sent) \in Nat
  BY EventTypes, LenProperties
<1>3. Numbers(events) = {}
  <2>1. events = <<>> /\ Len(events) = 0 /\ DOMAIN events = 1..Len(events)
    BY <1>1, EventTypes, EmptySeq, LenProperties DEF Empty
  <2> QED  BY <2>1 DEF Numbers
<1>4. \A i \in DOMAIN sent : pending.n # i
  BY <1>1, <1>2, EventFacts
<1> QED  BY <1>1, <1>3, <1>4, NothingLostInv DEF NoReliableLost

\* What the interface shows is what the worker sent, in its order: no fact or
\* settling event is lost, a fact is shown after the preview it interrupts, and
\* what is collected is whole, for any capacity of the queue.
THEOREM ShownIsSent == EventSpec => []EventsShown
<1>1. EventInv => EventsShown
  BY ShownInOrderInv, NothingLostInv, LastPreviewInv, CollectedInv DEF EventsShown
<1> QED  BY <1>1, EventInvariant, PTL

-----------------------------------------------------------------------------
(* Collaborator: records and versions.                                     *)

\* A record and its fields.
Fields(d, st, newest, got, waits, rep, ok, ended) ==
    /\ d \in Record
    /\ d.state = st /\ d.sent = newest /\ d.received = got /\ d.pending = waits
    /\ d.report = rep /\ d.reviewed = ok /\ d.closed = ended

\* Another state.
LEMMA StateFields ==
    ASSUME NEW d \in Record, NEW st \in State
    PROVE  Fields([d EXCEPT !.state = st],
                  st, d.sent, d.received, d.pending, d.report, d.reviewed, d.closed)
BY DEF Record, Fields

\* AsReceived: a version is received.
LEMMA ReceivedFields ==
    ASSUME NEW d \in Record, NEW v \in Version
    PROVE  Fields([d EXCEPT !.received = v, !.state = "running", !.pending = {w \in @ : w > v}],
                  "running", d.sent, v, {w \in d.pending : w > v}, d.report, d.reviewed, d.closed)
<1>1. PICK p : p = {w \in d.pending : w > v}
  OBVIOUS
<1>2. p \in SUBSET Version /\ "running" \in State /\ v \in 0..MaxVersion
  BY <1>1, BoundsAssumption DEF Record, State, Version
<1>3. Fields([d EXCEPT !.received = v, !.state = "running", !.pending = p],
             "running", d.sent, v, p, d.report, d.reviewed, d.closed)
  BY ONLY d \in Record, <1>2 DEF Record, Fields
<1>4. [d EXCEPT !.received = v, !.state = "running", !.pending = {w \in @ : w > v}]
        = [d EXCEPT !.received = v, !.state = "running", !.pending = p]
  BY <1>1, Zenon DEF Record
<1> QED  BY <1>1, <1>3, <1>4

\* Updated: a version is sent.
LEMMA UpdatedFields ==
    ASSUME NEW d \in Record, d.sent < MaxVersion
    PROVE  Fields([d EXCEPT !.state = "running", !.reviewed = FALSE, !.sent = @ + 1,
                            !.pending = @ \cup {d.sent + 1}],
                  "running", d.sent + 1, d.received, d.pending \cup {d.sent + 1}, d.report, FALSE, d.closed)
<1>1. PICK n : n = d.sent + 1
  OBVIOUS
<1>2. PICK p : p = d.pending \cup {n}
  OBVIOUS
<1>3. d.sent \in 1..MaxVersion /\ d.pending \subseteq Version
  BY DEF Record, Version
<1>4. n \in Version
  BY <1>1, <1>3, BoundsAssumption DEF Version
<1>5. p \in SUBSET Version /\ "running" \in State
  BY <1>2, <1>3, <1>4 DEF State
<1>6. PICK f : f = FALSE
  OBVIOUS
<1>7. Fields([d EXCEPT !.state = "running", !.reviewed = f, !.sent = n, !.pending = p],
             "running", n, d.received, p, d.report, f, d.closed)
  <2>1. f \in BOOLEAN
    BY <1>6
  <2> QED  BY ONLY d \in Record, <1>4, <1>5, <2>1 DEF Record, Fields
<1>8. [d EXCEPT !.state = "running", !.reviewed = FALSE, !.sent = @ + 1, !.pending = @ \cup {d.sent + 1}]
        = [d EXCEPT !.state = "running", !.reviewed = f, !.sent = n, !.pending = p]
  BY <1>1, <1>2, <1>6, Zenon DEF Record
<1> QED  BY <1>1, <1>2, <1>6, <1>7, <1>8

\* AfterTurn: a turn's report.
LEMMA TurnFields ==
    ASSUME NEW d \in Record, NEW rep \in Report, NEW st \in State
    PROVE  Fields([d EXCEPT !.report = rep, !.reviewed = FALSE, !.state = st],
                  st, d.sent, d.received, d.pending, rep, FALSE, d.closed)
<1>1. PICK f \in BOOLEAN : f = FALSE
  OBVIOUS
<1>2. Fields([d EXCEPT !.report = rep, !.reviewed = f, !.state = st],
             st, d.sent, d.received, d.pending, rep, f, d.closed)
  BY ONLY d \in Record, rep \in Report, st \in State, f \in BOOLEAN DEF Record, Fields
<1> QED  BY <1>1, <1>2

\* The report is reviewed, or the review is taken back.
LEMMA ReviewedFields ==
    ASSUME NEW d \in Record, NEW f \in BOOLEAN
    PROVE  Fields([d EXCEPT !.reviewed = f],
                  d.state, d.sent, d.received, d.pending, d.report, f, d.closed)
BY DEF Record, Fields

\* The collaborator is closed.
LEMMA ClosedFields ==
    ASSUME NEW d \in Record
    PROVE  Fields([d EXCEPT !.state = "stopped", !.closed = TRUE],
                  "stopped", d.sent, d.received, d.pending, d.report, d.reviewed, TRUE)
<1>1. PICK f \in BOOLEAN : f = TRUE
  OBVIOUS
<1>2. "stopped" \in State
  BY DEF State
<1>3. Fields([d EXCEPT !.state = "stopped", !.closed = f],
             "stopped", d.sent, d.received, d.pending, d.report, d.reviewed, f)
  BY ONLY d \in Record, f \in BOOLEAN, <1>2 DEF Record, Fields
<1> QED  BY <1>1, <1>3

\* Restored: the record read from a receipt.
LEMMA RestoredFields ==
    ASSUME NEW d \in Record
    PROVE  LET e == [d EXCEPT !.state = IF @ \in {"running", "stopping"} THEN "unknown" ELSE @,
                              !.pending = IF @ = {} THEN {} ELSE {d.sent}]
           IN  /\ Fields(e, e.state, d.sent, d.received, e.pending, d.report, d.reviewed, d.closed)
               /\ e.pending \subseteq {d.sent}
               /\ e.state = IF d.state \in {"running", "stopping"} THEN "unknown" ELSE d.state
<1>1. PICK st : st = IF d.state \in {"running", "stopping"} THEN "unknown" ELSE d.state
  OBVIOUS
<1>2. PICK p : p = IF d.pending = {} THEN {} ELSE {d.sent}
  OBVIOUS
<1>3. st \in State
  BY <1>1 DEF Record, State
<1>4. p \in SUBSET Version /\ p \subseteq {d.sent}
  BY <1>2 DEF Record
<1>5. PICK e : e = [d EXCEPT !.state = st, !.pending = p]
  OBVIOUS
<1>6. Fields(e, st, d.sent, d.received, p, d.report, d.reviewed, d.closed)
  BY ONLY d \in Record, <1>3, <1>4, <1>5 DEF Record, Fields
<1>7. [d EXCEPT !.state = IF @ \in {"running", "stopping"} THEN "unknown" ELSE @,
                !.pending = IF @ = {} THEN {} ELSE {d.sent}] = e
  BY <1>1, <1>2, <1>5, Zenon DEF Record
<1> QED  BY <1>1, <1>4, <1>6, <1>7 DEF Fields

-----------------------------------------------------------------------------
\* Versions are numbers, finitely many.
LEMMA VersionsAreFinite ==
    ASSUME NEW s \in SUBSET Version
    PROVE  /\ IsFiniteSet(s) /\ Cardinality(s) \in Nat
           /\ \A v \in s : v \in Nat /\ v <= MaxVersion
<1>1. IsFiniteSet(Version)
  BY BoundsAssumption, FS_Interval DEF Version
<1>2. IsFiniteSet(s)
  BY <1>1, FS_Subset
<1> QED  BY <1>2, FS_CardinalityType, BoundsAssumption DEF Version

\* Min is the least of some versions.
LEMMA LeastVersion ==
    ASSUME NEW s \in SUBSET Version, s # {}
    PROVE  Min(s) \in s /\ \A v \in s : Min(s) <= v
<1>1. s \subseteq Nat
  BY VersionsAreFinite
<1>2. PICK m \in s : \A n \in s : ~(<<n, m>> \in OpToRel(<, Nat))
  BY <1>1, NatLessThanWellFounded, WFMin
<1>3. ASSUME NEW n \in s PROVE m <= n
  <2>1. m \in Nat /\ n \in Nat
    BY <1>1
  <2>2. ~(n < m)
    BY <1>2, <2>1 DEF OpToRel
  <2> QED  BY <2>1, <2>2
<1> QED  BY <1>3 DEF Min

\* Max is the greatest of some versions.
LEMMA GreatestVersion ==
    ASSUME NEW s \in SUBSET Version, s # {}
    PROVE  Max(s) \in s /\ \A v \in s : v <= Max(s)
<1> DEFINE rest == {d \in Nat : \E v \in s : d = MaxVersion - v}
<1>1. \A v \in s : v \in Nat /\ v <= MaxVersion /\ MaxVersion - v \in Nat
  BY VersionsAreFinite, BoundsAssumption
<1>2. rest \subseteq Nat /\ rest # {}
  BY <1>1
<1>3. PICK m \in rest : \A n \in rest : ~(<<n, m>> \in OpToRel(<, Nat))
  BY <1>2, NatLessThanWellFounded, WFMin
<1>4. PICK g \in s : m = MaxVersion - g
  BY <1>3
<1>5. ASSUME NEW v \in s PROVE v <= g
  <2>1. MaxVersion - v \in rest
    BY <1>1
  <2>2. ~(MaxVersion - v < m)
    BY <1>2, <1>3, <2>1 DEF OpToRel
  <2> QED  BY <1>1, <1>4, <2>2, BoundsAssumption
<1>6. \A v \in s : g >= v
  BY <1>1, <1>5
<1> QED  BY <1>1, <1>6 DEF Max

\* Of versions without the least one, the greatest is the same.
LEMMA WithoutTheLeast ==
    ASSUME NEW s \in SUBSET Version, s # {}, s \ {Min(s)} # {}
    PROVE  Max(s \ {Min(s)}) = Max(s)
<1>1. /\ Min(s) \in s /\ \A v \in s : Min(s) <= v
      /\ Max(s) \in s /\ \A v \in s : v <= Max(s)
  BY LeastVersion, GreatestVersion
<1>2. PICK r \in SUBSET Version : r = s \ {Min(s)}
  OBVIOUS
<1>3. Max(r) \in r /\ \A v \in r : v <= Max(r)
  BY <1>2, GreatestVersion
<1>4. \A v \in s : v \in Nat
  BY VersionsAreFinite
<1>5. Max(s) \in r
  BY <1>1, <1>2, <1>3, <1>4
<1> QED  BY <1>1, <1>2, <1>3, <1>4, <1>5

\* Every version of one set comes before every one of another.
Below(a, b) == \A v \in a, w \in b : v < w

\* When the pending versions are those a turn accepted and later ones, as many
\* as it accepted are those it accepted.
LEMMA AnnouncedAreAccepted ==
    ASSUME NEW a \in SUBSET Version, NEW b \in SUBSET Version, Below(a, b),
           record.pending = a \cup b
    PROVE  Announced(Cardinality(a)) = a
<1>1. IsFiniteSet(a) /\ Cardinality(a) \in Nat
  BY VersionsAreFinite
<1>2. \A v \in a \cup b : v \in Nat
  BY VersionsAreFinite
<1>3. ASSUME NEW v \in a PROVE Cardinality(UpTo(v, a \cup b)) <= Cardinality(a)
  <2>1. UpTo(v, a \cup b) \subseteq a
    BY <1>2 DEF UpTo, Below
  <2> QED  BY <1>1, <2>1, FS_Subset
<1>4. ASSUME NEW v \in b PROVE ~(Cardinality(UpTo(v, a \cup b)) <= Cardinality(a))
  <2>1. a \cup {v} \subseteq UpTo(v, a \cup b) /\ v \notin a
    BY <1>2 DEF UpTo, Below
  <2>2. PICK u \in SUBSET Version : u = UpTo(v, a \cup b)
    BY DEF UpTo
  <2>3. IsFiniteSet(u) /\ Cardinality(u) \in Nat
    BY VersionsAreFinite
  <2>4. IsFiniteSet(a \cup {v}) /\ Cardinality(a \cup {v}) = Cardinality(a) + 1
    BY <1>1, <2>1, FS_AddElement
  <2>5. Cardinality(a \cup {v}) <= Cardinality(u)
    BY <2>1, <2>2, <2>3, FS_Subset
  <2> QED  BY <1>1, <2>2, <2>3, <2>4, <2>5
<1> QED  BY <1>3, <1>4 DEF Announced

-----------------------------------------------------------------------------
(* Collaborator: what holds of a collaborator at any time.                 *)

\* The worker is between the selection of an assignment and the turn's end.
Serving == {"receive", "received", "prepare", "turn", "accepted", "ended"}

\* A turn accepted some versions: they wait before those in the inbox.
TurnAccepted ==
    \E a \in SUBSET Version :
        /\ record.pending = a \cup inbox /\ Below(a, inbox) /\ a # {}
        /\ accepted = Cardinality(a) /\ told = Max(a)

\* The versions to be received next are those a turn accepted, or one selected.
ReceivingSound ==
    /\ receiving # {} /\ Below(receiving, inbox)
    /\ turning => record.pending = receiving \cup inbox /\ told = Max(receiving)
    /\ ~turning =>
          \E v \in Version : receiving = {v} /\ {w \in record.pending : w > v} = inbox

\* One of them is received, and its receipt is not yet written.
ReceiptSound ==
    /\ receiving # {} /\ Below(receiving, inbox)
    /\ record.received = Min(receiving)
    /\ record.pending = (receiving \ {record.received}) \cup inbox
    /\ turning => told = Max(receiving)
    /\ ~turning => receiving = {record.received}

\* While no update has found the inbox full, the versions pending are those
\* the worker holds and those in the inbox, and the child's model has been
\* told the version that the record calls received.
Matches ==
    /\ pc \in {"prepare", "turn"} => record.pending = inbox
    /\ pc = "turn" \/ (pc = "ended" /\ answered) => told = record.received
    /\ pc = "accepted" => TurnAccepted
    /\ pc = "receive" => ReceivingSound
    /\ pc = "received" => ReceiptSound

\* A record with work to do has not returned, and while a review waits for
\* its receipt the worker begins none.
Quiet ==
    /\ pc \in {"turn", "accepted"} => turning
    /\ pc \in Serving => record.state \notin {"returned", "failed"}
    /\ pc # "exited" /\ record.pending # {} => record.state \notin {"returned", "failed"}
    /\ pc = "exited" \/ main # "down"
    /\ main \in {"review", "review again"} =>
          /\ record.report.version = record.sent
          /\ record.state \in {"returned", "failed", "unknown"}
          /\ record.state = "unknown" => pc \in {"final", "exited"}

\* No version is anywhere before it is sent, and each is saved as it is sent.
NoneBeforeSent ==
    /\ saved.sent = record.sent
    /\ \A v \in record.pending \cup inbox \cup receiving : v <= record.sent

CollaboratorInv ==
    /\ CollaboratorTypeOK /\ Quiet /\ NoneBeforeSent /\ ReportsAreTrue
    /\ ~overflowed => Matches

\* What the typed state says of a record.
LEMMA RecordFields ==
    ASSUME NEW d \in Record
    PROVE  /\ Fields(d, d.state, d.sent, d.received, d.pending, d.report, d.reviewed, d.closed)
           /\ d.state \in State /\ d.sent \in Version /\ d.received \in 0..MaxVersion
           /\ d.pending \in SUBSET Version /\ d.report \in Report
           /\ d.reviewed \in BOOLEAN /\ d.closed \in BOOLEAN
           /\ d.sent \in Nat /\ d.received \in Nat
<1>1. d.sent \in Version /\ d.received \in 0..MaxVersion
  BY DEF Record
<1>2. d.sent \in Nat /\ d.received \in Nat
  BY <1>1, BoundsAssumption DEF Version
<1> QED  BY <1>2 DEF Record, Fields

Types ==
    /\ record \in Record /\ saved \in Record
    /\ inbox \in SUBSET Version /\ receiving \in SUBSET Version
    /\ listed \in BOOLEAN /\ attached \in BOOLEAN /\ childCancelled \in BOOLEAN
    /\ childWoken \in BOOLEAN /\ turning \in BOOLEAN /\ answered \in BOOLEAN
    /\ pc \in {"top", "sleep", "receive", "received", "prepare", "turn", "accepted",
               "ended", "returned", "stopped", "final", "exited"}
    /\ accepted \in Nat /\ told \in 0..MaxVersion
    /\ main \in {"idle", "stop", "review", "review again", "joining", "close",
                 "leaving", "down"}
    /\ faults \in 0..MaxFaults /\ crashes \in 0..MaxCrashes /\ overflowed \in BOOLEAN

\* The type invariant, one variable at a time.
LEMMA CollaboratorTypes == CollaboratorTypeOK <=> Types
<1>1. {listed, attached, childCancelled, childWoken, turning, answered} \subseteq BOOLEAN
        <=> /\ listed \in BOOLEAN /\ attached \in BOOLEAN /\ childCancelled \in BOOLEAN
            /\ childWoken \in BOOLEAN /\ turning \in BOOLEAN /\ answered \in BOOLEAN
  BY Zenon
<1> QED  BY <1>1 DEF CollaboratorTypeOK, Types

\* The same of the next state.
LEMMA NextTypes == CollaboratorTypeOK' <=> Types'
BY CollaboratorTypes, PTL

\* A fault is counted, or there is none.
LEMMA FaultTypes ==
    ASSUME CollaboratorTypeOK, Fault \/ NoFault
    PROVE  faults' \in 0..MaxFaults
<1>1. faults \in 0..MaxFaults /\ MaxFaults \in Nat
  BY CollaboratorTypes, BoundsAssumption DEF Types
<1> QED  BY <1>1 DEF Fault, NoFault

-----------------------------------------------------------------------------
(* Steps that leave what the worker holds alone. *)

\* What Matches is about stays as it is.
Held ==
    /\ record'.received = record.received /\ record'.pending = record.pending
    /\ UNCHANGED <<pc, receiving, accepted, turning, answered, told, inbox>>

\* A step that leaves all of them alone keeps the versions matched.
LEMMA HeldMatches ==
    ASSUME Matches, Held
    PROVE  Matches'
<1>1. (TurnAccepted' <=> TurnAccepted) /\ (ReceivingSound' <=> ReceivingSound)
      /\ (ReceiptSound' <=> ReceiptSound)
  BY DEF Held, TurnAccepted, ReceivingSound, ReceiptSound
<1> QED  BY <1>1 DEF Held, Matches

\* The worker leaves what it was doing.
Idling == {"top", "sleep", "returned", "stopped", "final", "exited"}
\* A worker that holds nothing has nothing to match.
LEMMA IdleMatches ==
    ASSUME pc' \in Idling
    PROVE  Matches'
BY DEF Idling, Matches

\* The reports of two documents are those that were there.
Copied(d, docs) ==
    \E e \in docs : d.report = e.report /\ d.sent = e.sent /\ (d.reviewed => e.reviewed)
\* Documents that say what a sound one said of its report are sound.
LEMMA CopiedReports ==
    ASSUME ReportsAreTrue, overflowed' = overflowed,
           Copied(record', {record, saved}), Copied(saved', {record, saved})
    PROVE  ReportsAreTrue'
BY DEF ReportsAreTrue, ReportIsTrue, ReviewIsOfLatest, Copied

\* The same, when the record stays and a receipt may be written.
LEMMA SameReports ==
    ASSUME ReportsAreTrue, overflowed' = overflowed, record' = record,
           saved' \in {record, saved}
    PROVE  ReportsAreTrue'
BY CopiedReports DEF Copied

-----------------------------------------------------------------------------
(* Steps of the worker that leave the record alone. *)

\* What the invariant says, to be cited as facts.
LEMMA CollaboratorFacts ==
    ASSUME CollaboratorInv
    PROVE  /\ CollaboratorTypeOK /\ Quiet /\ NoneBeforeSent /\ ReportsAreTrue
           /\ ~overflowed => Matches
           /\ record \in Record /\ saved \in Record
           /\ inbox \in SUBSET Version /\ receiving \in SUBSET Version
           /\ record.pending \in SUBSET Version
           /\ record.sent \in Version /\ record.received \in 0..MaxVersion
           /\ overflowed \in BOOLEAN /\ turning \in BOOLEAN
BY CollaboratorTypes, RecordFields DEF CollaboratorInv, Types

\* The newest assignment starts a turn, and what the inbox holds is part of it.
LEMMA SelectStep ==
    ASSUME CollaboratorInv, Select
    PROVE  CollaboratorInv'
<1>1. /\ CollaboratorTypeOK /\ Quiet /\ NoneBeforeSent /\ ReportsAreTrue
      /\ inbox \in SUBSET Version /\ receiving \in SUBSET Version
      /\ record \in Record /\ record.pending \in SUBSET Version
  BY CollaboratorFacts
<1>2. /\ pc = "top" /\ turning' = FALSE
      /\ UNCHANGED <<record, saved, listed, attached, childCancelled, main, crashes, overflowed>>
      /\ UNCHANGED <<childWoken, accepted, answered, told, faults>>
  BY DEF Select, mainVars
<1>3. \/ pc' \in {"final", "sleep"} /\ UNCHANGED <<receiving, inbox>>
      \/ /\ pc' = "receive" /\ record.pending # {}
         /\ receiving' = {Max(record.pending)} /\ inbox' = {}
  BY DEF Select, Selected
<1>4. record.pending # {} =>
        /\ Max(record.pending) \in record.pending
        /\ \A v \in record.pending : v <= Max(record.pending) /\ v \in Nat
  BY <1>1, GreatestVersion, VersionsAreFinite
<1>5. CollaboratorTypeOK'
  <2>1. receiving' \in SUBSET Version /\ inbox' \in SUBSET Version
    BY <1>1, <1>3, <1>4
  <2>2. pc' \in {"sleep", "receive", "final"}
    BY <1>3
  <2> QED  BY <1>1, <1>2, <2>1, <2>2, CollaboratorTypes, NextTypes DEF Types
<1>6. Quiet'
  BY <1>1, <1>2, <1>3 DEF Quiet, Serving
<1>7. NoneBeforeSent'
  BY <1>1, <1>2, <1>3, <1>4 DEF NoneBeforeSent
<1>8. ReportsAreTrue'
  BY <1>1, <1>2, SameReports
<1>9. Matches'
  <2>1. CASE pc' \in {"final", "sleep"}
    BY <2>1, IdleMatches DEF Idling
  <2>2. CASE pc' = "receive"
    <3>1. PICK v \in Version : v = Max(record.pending)
      BY <1>1, <1>3, <1>4, <2>2
    <3>2. receiving' = {v} /\ inbox' = {} /\ record' = record /\ turning' = FALSE
      BY <1>2, <1>3, <2>2, <3>1
    <3>3. {w \in record.pending : w > v} = {} /\ v \in Nat
      BY <1>3, <1>4, <2>2, <3>1
    <3>4. ReceivingSound'
      BY <3>2, <3>3 DEF ReceivingSound, Below
    <3> QED  BY <2>2, <3>4 DEF Matches
  <2> QED  BY <1>3, <2>1, <2>2
<1> QED  BY <1>5, <1>6, <1>7, <1>8, <1>9 DEF CollaboratorInv

\* The worker stops to wait, wakes, or its turn ends.
LEMMA IdleWorkerStep ==
    ASSUME CollaboratorInv, WakeChild
    PROVE  CollaboratorInv'
<1>1. CollaboratorTypeOK /\ Quiet /\ NoneBeforeSent /\ ReportsAreTrue
  BY CollaboratorFacts
<1>2. /\ pc = "sleep" /\ childWoken' = FALSE /\ pc' \in {"top", "final"}
      /\ UNCHANGED <<record, saved, listed, attached, childCancelled, main, crashes, overflowed>>
      /\ UNCHANGED <<inbox, receiving, accepted, turning, answered, told, faults>>
  BY DEF WakeChild, mainVars
<1>3. CollaboratorTypeOK'
  BY <1>1, <1>2, CollaboratorTypes, NextTypes DEF Types
<1>4. Quiet'
  BY <1>1, <1>2 DEF Quiet, Serving
<1>5. NoneBeforeSent'
  BY <1>1, <1>2 DEF NoneBeforeSent
<1>6. ReportsAreTrue'
  BY <1>1, <1>2, SameReports
<1>7. Matches'
  BY <1>2, IdleMatches DEF Idling
<1> QED  BY <1>3, <1>4, <1>5, <1>6, <1>7 DEF CollaboratorInv

\* prepare_turn puts the assignment into the conversation, or fails.
LEMMA PrepareStep ==
    ASSUME CollaboratorInv, Prepare
    PROVE  CollaboratorInv'
<1>1. /\ CollaboratorTypeOK /\ Quiet /\ NoneBeforeSent /\ ReportsAreTrue
      /\ ~overflowed => Matches
      /\ record.received \in 0..MaxVersion
  BY CollaboratorFacts
<1>2. /\ pc = "prepare"
      /\ UNCHANGED <<record, saved, listed, attached, childCancelled, main, crashes, overflowed>>
      /\ UNCHANGED <<childWoken, inbox, receiving, accepted, faults>>
      /\ \/ told' = record.received /\ turning' = TRUE /\ pc' = "turn" /\ answered' = answered
         \/ answered' = FALSE /\ pc' = "ended" /\ told' = told /\ turning' = turning
  BY DEF Prepare, mainVars
<1>3. CollaboratorTypeOK'
  BY <1>1, <1>2, CollaboratorTypes, NextTypes DEF Types
<1>4. Quiet'
  BY <1>1, <1>2 DEF Quiet, Serving
<1>5. NoneBeforeSent'
  BY <1>1, <1>2 DEF NoneBeforeSent
<1>6. ReportsAreTrue'
  BY <1>1, <1>2, SameReports
<1>7. ~overflowed' => Matches'
  BY <1>1, <1>2 DEF Matches
<1> QED  BY <1>3, <1>4, <1>5, <1>6, <1>7 DEF CollaboratorInv

\* accept_input empties the inbox into the conversation.
LEMMA AcceptStep ==
    ASSUME CollaboratorInv, Accept
    PROVE  CollaboratorInv'
<1>1. /\ CollaboratorTypeOK /\ Quiet /\ NoneBeforeSent /\ ReportsAreTrue
      /\ ~overflowed => Matches
      /\ inbox \in SUBSET Version
  BY CollaboratorFacts
<1>2. /\ pc = "turn" /\ inbox # {} /\ pc' = "accepted"
      /\ UNCHANGED <<record, saved, listed, attached, childCancelled, main, crashes, overflowed>>
      /\ UNCHANGED <<childWoken, receiving, turning, answered, faults>>
      /\ accepted' = Cardinality(inbox) /\ told' = Max(inbox) /\ inbox' = {}
  BY DEF Accept, mainVars
<1>3. Cardinality(inbox) \in Nat /\ Max(inbox) \in 0..MaxVersion
  <2>1. Max(inbox) \in inbox
    BY <1>1, <1>2, GreatestVersion
  <2> QED  BY <1>1, <2>1, VersionsAreFinite, BoundsAssumption
<1>4. CollaboratorTypeOK'
  BY <1>1, <1>2, <1>3, CollaboratorTypes, NextTypes DEF Types
<1>5. Quiet'
  BY <1>1, <1>2 DEF Quiet, Serving
<1>6. NoneBeforeSent'
  BY <1>1, <1>2 DEF NoneBeforeSent
<1>7. ReportsAreTrue'
  BY <1>1, <1>2, SameReports
<1>8. ~overflowed' => Matches'
  <2>1. SUFFICES ASSUME ~overflowed PROVE Matches'
    BY <1>2
  <2>2. PICK a \in SUBSET Version : a = inbox
    BY <1>1
  <2>3. record.pending = inbox
    BY <1>1, <1>2, <2>1 DEF Matches
  <2>4. TurnAccepted'
    BY <1>2, <2>2, <2>3 DEF TurnAccepted, Below
  <2> QED  BY <1>2, <2>4 DEF Matches
<1> QED  BY <1>4, <1>5, <1>6, <1>7, <1>8 DEF CollaboratorInv

\* The Accepted event tells a number, and that many versions are received.
LEMMA AcceptedStep ==
    ASSUME CollaboratorInv, Accepted
    PROVE  CollaboratorInv'
<1>1. /\ CollaboratorTypeOK /\ Quiet /\ NoneBeforeSent /\ ReportsAreTrue
      /\ ~overflowed => Matches
      /\ inbox \in SUBSET Version /\ record.pending \in SUBSET Version
  BY CollaboratorFacts
<1>2. /\ pc = "accepted" /\ receiving' = Announced(accepted) /\ accepted' = 0
      /\ pc' = IF receiving' = {} THEN "turn" ELSE "receive"
      /\ UNCHANGED <<record, saved, listed, attached, childCancelled, main, crashes, overflowed>>
      /\ UNCHANGED <<childWoken, inbox, turning, answered, told, faults>>
  BY DEF Accepted, mainVars
<1>3. receiving' \subseteq record.pending /\ receiving' \in SUBSET Version
  BY <1>1, <1>2 DEF Announced
<1>4. CollaboratorTypeOK'
  BY <1>1, <1>2, <1>3, CollaboratorTypes, NextTypes DEF Types
<1>5. turning
  BY <1>1, <1>2 DEF Quiet
<1>6. Quiet'
  BY <1>1, <1>2, <1>5 DEF Quiet, Serving
<1>7. NoneBeforeSent'
  BY <1>1, <1>2, <1>3 DEF NoneBeforeSent
<1>8. ReportsAreTrue'
  BY <1>1, <1>2, SameReports
<1>9. ~overflowed' => Matches'
  <2>1. SUFFICES ASSUME ~overflowed PROVE Matches'
    BY <1>2
  <2>2. TurnAccepted
    BY <1>1, <1>2, <2>1 DEF Matches
  <2>3. PICK a \in SUBSET Version :
            /\ record.pending = a \cup inbox /\ Below(a, inbox) /\ a # {}
            /\ accepted = Cardinality(a) /\ told = Max(a)
    BY <2>2 DEF TurnAccepted
  <2>4. receiving' = a
    BY <1>1, <1>2, <2>3, AnnouncedAreAccepted
  <2>5. pc' = "receive" /\ turning' = turning
    BY <1>2, <2>3, <2>4
  <2>6. Below(receiving', inbox')
    BY <1>2, <2>3, <2>4
  <2>7. ReceivingSound'
    BY <1>2, <1>5, <2>3, <2>4, <2>5, <2>6 DEF ReceivingSound
  <2> QED  BY <2>5, <2>7 DEF Matches
<1> QED  BY <1>4, <1>6, <1>7, <1>8, <1>9 DEF CollaboratorInv

\* The turn ends, with an answer or without.
LEMMA TurnIsOverStep ==
    ASSUME CollaboratorInv, Answer \/ Fail
    PROVE  CollaboratorInv'
<1>1. /\ CollaboratorTypeOK /\ Quiet /\ NoneBeforeSent /\ ReportsAreTrue
      /\ ~overflowed => Matches
  BY CollaboratorFacts
<1>2. /\ pc = "turn" /\ pc' = "ended" /\ answered' \in BOOLEAN
      /\ UNCHANGED <<record, saved, listed, attached, childCancelled, main, crashes, overflowed>>
      /\ UNCHANGED <<childWoken, inbox, receiving, accepted, turning, told, faults>>
  BY DEF Answer, Fail, mainVars
<1>3. CollaboratorTypeOK'
  BY <1>1, <1>2, CollaboratorTypes, NextTypes DEF Types
<1>4. Quiet'
  BY <1>1, <1>2 DEF Quiet, Serving
<1>5. NoneBeforeSent'
  BY <1>1, <1>2 DEF NoneBeforeSent
<1>6. ReportsAreTrue'
  BY <1>1, <1>2, SameReports
<1>7. ~overflowed' => Matches'
  BY <1>1, <1>2 DEF Matches
<1> QED  BY <1>3, <1>4, <1>5, <1>6, <1>7 DEF CollaboratorInv

-----------------------------------------------------------------------------
(* Steps of the worker that change the record. *)

\* received: the record.
LEMMA ReceiveStep ==
    ASSUME CollaboratorInv, Receive
    PROVE  CollaboratorInv'
<1>1. /\ CollaboratorTypeOK /\ Quiet /\ NoneBeforeSent /\ ReportsAreTrue
      /\ ~overflowed => Matches
      /\ record \in Record /\ saved \in Record /\ receiving \in SUBSET Version
      /\ record.pending \in SUBSET Version /\ inbox \in SUBSET Version
      /\ turning \in BOOLEAN
  BY CollaboratorFacts
<1>2. /\ pc = "receive" /\ receiving # {} /\ pc' = "received"
      /\ record' = AsReceived(Min(receiving))
      /\ UNCHANGED <<saved, listed, attached, childCancelled, main, crashes, overflowed>>
      /\ UNCHANGED <<childWoken, inbox, receiving, accepted, turning, answered, told, faults>>
  BY DEF Receive, mainVars
<1>3. PICK v \in Version : v = Min(receiving) /\ v \in receiving /\ \A w \in receiving : v <= w
  BY <1>1, <1>2, LeastVersion
<1>4. PICK d \in Record : d = record
  BY <1>1
<1>5. Fields(record', "running", d.sent, v, {w \in d.pending : w > v}, d.report, d.reviewed, d.closed)
  <2>1. record' = [d EXCEPT !.received = v, !.state = "running", !.pending = {w \in @ : w > v}]
    BY <1>2, <1>3, <1>4 DEF AsReceived
  <2> QED  BY <2>1, ReceivedFields
<1>6. /\ record' \in Record /\ record'.state = "running" /\ record'.sent = record.sent
      /\ record'.received = v /\ record'.pending = {w \in record.pending : w > v}
      /\ record'.report = record.report /\ record'.reviewed = record.reviewed
  BY <1>4, <1>5 DEF Fields
<1>7. CollaboratorTypeOK'
  BY <1>1, <1>2, <1>6, CollaboratorTypes, NextTypes DEF Types
<1>8. Quiet'
  BY <1>1, <1>2, <1>6 DEF Quiet, Serving
<1>9. NoneBeforeSent'
  BY <1>1, <1>2, <1>6 DEF NoneBeforeSent
<1>10. ReportsAreTrue'
  <2>1. Copied(record', {record, saved}) /\ Copied(saved', {record, saved})
    BY <1>2, <1>6 DEF Copied
  <2> QED  BY <1>1, <1>2, <2>1, CopiedReports
<1>11. ~overflowed' => Matches'
  <2>1. SUFFICES ASSUME ~overflowed PROVE Matches'
    BY <1>2
  <2>2. ReceivingSound
    BY <1>1, <1>2, <2>1 DEF Matches
  <2>3. \A w \in receiving \cup inbox \cup record.pending : w \in Nat
    BY <1>1, VersionsAreFinite
  <2>4. Below(receiving, inbox)
    BY <2>2 DEF ReceivingSound
  <2>5. \A w \in inbox : v < w
    BY <1>3, <2>4 DEF Below
  <2>6. record'.pending = (receiving \ {v}) \cup inbox
    <3>1. CASE turning
      <4>1. record.pending = receiving \cup inbox
        BY <2>2, <3>1 DEF ReceivingSound
      <4> QED  BY <1>3, <1>6, <2>3, <2>5, <4>1
    <3>2. CASE ~turning
      <4>1. PICK u \in Version : receiving = {u} /\ {w \in record.pending : w > u} = inbox
        BY <2>2, <3>2 DEF ReceivingSound
      <4>2. u = v
        BY <1>3, <4>1
      <4> QED  BY <1>6, <4>1, <4>2
    <3> QED  BY <3>1, <3>2
  <2>7. turning => told = Max(receiving)
    BY <2>2 DEF ReceivingSound
  <2>8. ~turning => receiving = {v}
    BY <1>3, <2>2 DEF ReceivingSound
  <2>9. ReceiptSound'
    BY <1>2, <1>3, <1>6, <2>4, <2>6, <2>7, <2>8 DEF ReceiptSound, Below
  <2> QED  BY <1>2, <2>9 DEF Matches
<1> QED  BY <1>7, <1>8, <1>9, <1>10, <1>11 DEF CollaboratorInv

\* persistence_failed: the outcome is unknown.
LEMMA UnconfirmedFields ==
    ASSUME record \in Record
    PROVE  /\ Unconfirmed \in Record /\ Unconfirmed.state = "unknown"
           /\ Unconfirmed.sent = record.sent /\ Unconfirmed.received = record.received
           /\ Unconfirmed.pending = record.pending /\ Unconfirmed.report = record.report
           /\ Unconfirmed.reviewed = record.reviewed
<1>1. PICK d \in Record : d = record
  OBVIOUS
<1>2. "unknown" \in State
  BY DEF State
<1>3. Unconfirmed = [d EXCEPT !.state = "unknown"]
  BY <1>1 DEF Unconfirmed
<1> QED  BY <1>1, <1>2, <1>3, StateFields DEF Fields

\* A receipt fails: the worker ends.
LEMMA ReceiptFails ==
    ASSUME CollaboratorInv, pc \notin {"exited"},
           record' = Unconfirmed, pc' \in {"final", "exited"}, saved' = saved, Fault,
           UNCHANGED <<listed, attached, childCancelled, main, crashes, overflowed>>,
           UNCHANGED <<childWoken, inbox, receiving, accepted, turning, answered, told>>
    PROVE  CollaboratorInv'
<1>1. /\ CollaboratorTypeOK /\ Quiet /\ NoneBeforeSent /\ ReportsAreTrue
      /\ record \in Record /\ saved \in Record
  BY CollaboratorFacts
<1>2. /\ record' \in Record /\ record'.state = "unknown"
      /\ record'.sent = record.sent /\ record'.received = record.received
      /\ record'.pending = record.pending /\ record'.report = record.report
      /\ record'.reviewed = record.reviewed
  BY <1>1, UnconfirmedFields
<1>3. CollaboratorTypeOK'
  <2>1. faults' \in 0..MaxFaults
    BY <1>1, FaultTypes
  <2> QED  BY <1>1, <1>2, <2>1, CollaboratorTypes, NextTypes DEF Types
<1>4. Quiet'
  BY <1>1, <1>2 DEF Quiet, Serving
<1>5. NoneBeforeSent'
  BY <1>1, <1>2 DEF NoneBeforeSent
<1>6. ReportsAreTrue'
  <2>1. Copied(record', {record, saved}) /\ Copied(saved', {record, saved})
    BY <1>2 DEF Copied
  <2> QED  BY <1>1, <2>1, CopiedReports
<1>7. Matches'
  BY IdleMatches DEF Idling
<1> QED  BY <1>3, <1>4, <1>5, <1>6, <1>7 DEF CollaboratorInv

\* A receipt is written, between two assignments or after the last.
LEMMA ReceiptSucceeds ==
    ASSUME CollaboratorInv, NoFault, record' = record, saved' = record,
           \/ pc = "returned" /\ pc' = "top"
           \/ pc = "stopped" /\ pc' = "exited",
           UNCHANGED <<listed, attached, childCancelled, main, crashes, overflowed>>,
           UNCHANGED <<childWoken, inbox, receiving, accepted, turning, answered, told>>
    PROVE  CollaboratorInv'
<1>1. /\ CollaboratorTypeOK /\ Quiet /\ NoneBeforeSent /\ ReportsAreTrue
      /\ record \in Record
  BY CollaboratorFacts
<1>2. CollaboratorTypeOK'
  BY <1>1, CollaboratorTypes, NextTypes DEF Types, NoFault
<1>3. Quiet'
  BY <1>1 DEF Quiet, Serving
<1>4. NoneBeforeSent'
  BY <1>1 DEF NoneBeforeSent
<1>5. ReportsAreTrue'
  BY <1>1, SameReports
<1>6. Matches'
  BY IdleMatches DEF Idling
<1> QED  BY <1>2, <1>3, <1>4, <1>5, <1>6 DEF CollaboratorInv

\* received: its receipt.
LEMMA ReceivedReceiptStep ==
    ASSUME CollaboratorInv, ReceivedReceipt
    PROVE  CollaboratorInv'
<1>1. /\ CollaboratorTypeOK /\ Quiet /\ NoneBeforeSent /\ ReportsAreTrue
      /\ ~overflowed => Matches
      /\ record \in Record /\ receiving \in SUBSET Version /\ turning \in BOOLEAN
  BY CollaboratorFacts
<1>2. /\ pc = "received"
      /\ UNCHANGED <<listed, attached, childCancelled, main, crashes, overflowed>>
      /\ UNCHANGED <<childWoken, inbox, accepted, turning, answered, told>>
  BY DEF ReceivedReceipt, mainVars
<1>3. CASE /\ NoFault
           /\ saved' = record /\ receiving' = receiving \ {record.received}
           /\ pc' = IF receiving' # {} THEN "receive" ELSE IF turning THEN "turn" ELSE "prepare"
           /\ UNCHANGED record
  <2>1. receiving' \in SUBSET Version /\ receiving' \subseteq receiving
    BY <1>1, <1>3
  <2>2. CollaboratorTypeOK'
    BY <1>1, <1>2, <1>3, <2>1, CollaboratorTypes, NextTypes DEF Types, NoFault
  <2>3. Quiet'
    BY <1>1, <1>2, <1>3 DEF Quiet, Serving
  <2>4. NoneBeforeSent'
    BY <1>1, <1>2, <1>3, <2>1 DEF NoneBeforeSent
  <2>5. ReportsAreTrue'
    BY <1>1, <1>2, <1>3, SameReports
  <2>6. ~overflowed' => Matches'
    <3>1. SUFFICES ASSUME ~overflowed PROVE Matches'
      BY <1>2
    <3>2. ReceiptSound
      BY <1>1, <1>2, <3>1 DEF Matches
    <3>3. /\ receiving # {} /\ Below(receiving, inbox)
          /\ record.received = Min(receiving)
          /\ record.pending = (receiving \ {record.received}) \cup inbox
          /\ turning => told = Max(receiving)
          /\ ~turning => receiving = {record.received}
      BY <3>2 DEF ReceiptSound
    <3>4. Min(receiving) \in receiving /\ Max(receiving) \in receiving
      BY <1>1, <3>3, LeastVersion, GreatestVersion
    <3>5. CASE receiving' # {}
      <4>1. turning /\ pc' = "receive"
        BY <1>1, <1>3, <3>3, <3>5
      <4>2. Max(receiving') = Max(receiving)
        BY <1>1, <1>3, <3>3, <3>5, WithoutTheLeast
      <4>3. Below(receiving', inbox')
        BY <1>2, <2>1, <3>3 DEF Below
      <4>4. record'.pending = receiving' \cup inbox' /\ told' = Max(receiving') /\ turning'
        BY <1>2, <1>3, <3>3, <4>1, <4>2
      <4>5. ReceivingSound'
        BY <3>5, <4>3, <4>4 DEF ReceivingSound
      <4> QED  BY <4>1, <4>5 DEF Matches
    <3>6. CASE receiving' = {}
      <4>1. receiving = {record.received}
        BY <1>3, <3>3, <3>4, <3>6
      <4>2. turning => told = record.received
        BY <3>3, <3>4, <4>1
      <4>3. record'.pending = inbox' /\ record' = record
        BY <1>2, <1>3, <3>3, <3>6
      <4>4. pc' = IF turning THEN "turn" ELSE "prepare"
        BY <1>3, <3>6
      <4> QED  BY <1>2, <4>2, <4>3, <4>4 DEF Matches
    <3> QED  BY <3>5, <3>6
  <2> QED  BY <2>2, <2>3, <2>4, <2>5, <2>6 DEF CollaboratorInv
<1>4. CASE Fault /\ record' = Unconfirmed /\ pc' = "final" /\ UNCHANGED <<saved, receiving>>
  BY <1>2, <1>4, ReceiptFails
<1> QED  BY <1>3, <1>4 DEF ReceivedReceipt

\* The receipts after a turn and after the loop.
LEMMA LaterReceiptStep ==
    ASSUME CollaboratorInv, ReturnedReceipt \/ StoppedReceipt
    PROVE  CollaboratorInv'
<1>1. CASE ReturnedReceipt
  BY <1>1, ReceiptFails, ReceiptSucceeds DEF ReturnedReceipt, mainVars
<1>2. CASE StoppedReceipt
  BY <1>2, ReceiptFails, ReceiptSucceeds DEF StoppedReceipt, mainVars
<1> QED  BY <1>1, <1>2

\* The record after a stop was noted.
LEMMA NotedFields ==
    ASSUME record \in Record, NEW st \in State
    PROVE  LET d == [record EXCEPT !.state = st]
           IN  /\ d \in Record /\ d.state = st /\ d.sent = record.sent
               /\ d.received = record.received /\ d.pending = record.pending
               /\ d.report = record.report /\ d.reviewed = record.reviewed
<1>1. PICK e \in Record : e = record
  OBVIOUS
<1>2. [record EXCEPT !.state = st] = [e EXCEPT !.state = st]
  BY <1>1
<1>3. Fields([e EXCEPT !.state = st],
             st, e.sent, e.received, e.pending, e.report, e.reviewed, e.closed)
  BY StateFields
<1> QED  BY <1>1, <1>2, <1>3 DEF Fields

\* The worker takes note of a stop.
LEMMA StopNotedStep ==
    ASSUME CollaboratorInv, pc \in {"ended", "final"}, record.state = "stopping",
           record' = [record EXCEPT !.state = "stopped"], pc' = "stopped", saved' = saved,
           UNCHANGED <<listed, attached, childCancelled, main, crashes, overflowed>>,
           UNCHANGED <<childWoken, inbox, receiving, accepted, turning, answered, told, faults>>
    PROVE  CollaboratorInv'
<1>1. /\ CollaboratorTypeOK /\ Quiet /\ NoneBeforeSent /\ ReportsAreTrue
      /\ record \in Record /\ saved \in Record
  BY CollaboratorFacts
<1>2. "stopped" \in State
  BY DEF State
<1>3. /\ record' \in Record /\ record'.state = "stopped"
      /\ record'.sent = record.sent /\ record'.received = record.received
      /\ record'.pending = record.pending /\ record'.report = record.report
      /\ record'.reviewed = record.reviewed
  BY <1>1, <1>2, NotedFields
<1>4. CollaboratorTypeOK'
  BY <1>1, <1>3, CollaboratorTypes, NextTypes DEF Types
<1>5. Quiet'
  BY <1>1, <1>3 DEF Quiet, Serving
<1>6. NoneBeforeSent'
  BY <1>1, <1>3 DEF NoneBeforeSent
<1>7. ReportsAreTrue'
  <2>1. Copied(record', {record, saved}) /\ Copied(saved', {record, saved})
    BY <1>3 DEF Copied
  <2> QED  BY <1>1, <2>1, CopiedReports
<1>8. Matches'
  BY IdleMatches DEF Idling
<1> QED  BY <1>4, <1>5, <1>6, <1>7, <1>8 DEF CollaboratorInv

\* What the record says after a turn.
LEMMA AfterTurnFields ==
    ASSUME CollaboratorInv
    PROVE  /\ AfterTurn \in Record
           /\ AfterTurn.report.version = record.received
           /\ AfterTurn.report.about = IF answered THEN told ELSE record.received
           /\ AfterTurn.reviewed = FALSE /\ AfterTurn.sent = record.sent
           /\ AfterTurn.received = record.received /\ AfterTurn.pending = record.pending
           /\ record.pending # {} => AfterTurn.state = "running"
<1>1. PICK d \in Record : d = record
  BY CollaboratorFacts
<1>2. PICK about : about = IF answered THEN told ELSE record.received
  OBVIOUS
<1>3. told \in 0..MaxVersion /\ record.received \in 0..MaxVersion
  BY CollaboratorFacts, CollaboratorTypes DEF Types
<1>4. PICK rep : rep = [version |-> record.received, about |-> about]
  OBVIOUS
<1>5. rep \in Report /\ rep.version = record.received /\ rep.about = about
  BY <1>2, <1>3, <1>4 DEF Report
<1>6. PICK st \in State :
        st = CASE record.pending # {} -> "running"
               [] record.pending = {} /\ answered -> "returned"
               [] OTHER -> "failed"
  BY DEF State
<1>7. AfterTurn = [d EXCEPT !.report = rep, !.reviewed = FALSE, !.state = st]
  BY <1>1, <1>2, <1>4, <1>6, Zenon DEF AfterTurn
<1>8. Fields(AfterTurn, st, d.sent, d.received, d.pending, rep, FALSE, d.closed)
  BY <1>5, <1>7, TurnFields
<1>9. record.pending # {} => st = "running"
  BY <1>6
<1> QED  BY <1>1, <1>2, <1>5, <1>8, <1>9 DEF Fields

\* The turn's outcome enters the record.
LEMMA EndTurnStep ==
    ASSUME CollaboratorInv, EndTurn
    PROVE  CollaboratorInv'
<1>1. /\ CollaboratorTypeOK /\ Quiet /\ NoneBeforeSent /\ ReportsAreTrue
      /\ ~overflowed => Matches
      /\ record \in Record /\ saved \in Record
  BY CollaboratorFacts
<1>2. /\ pc = "ended"
      /\ UNCHANGED <<saved, listed, attached, childCancelled, main, crashes, overflowed>>
      /\ UNCHANGED <<childWoken, inbox, receiving, accepted, turning, answered, told, faults>>
  BY DEF EndTurn, mainVars
<1>3. CASE record.state = "stopping"
  <2>1. record' = [record EXCEPT !.state = "stopped"] /\ pc' = "stopped"
    BY <1>3 DEF EndTurn
  <2> QED  BY <1>2, <1>3, <2>1, StopNotedStep
<1>4. CASE record.state # "stopping"
  <2>1. record' = AfterTurn /\ pc' = "returned"
    BY <1>4 DEF EndTurn
  <2>2. /\ record' \in Record
        /\ record'.report.version = record.received
        /\ record'.report.about = IF answered THEN told ELSE record.received
        /\ record'.reviewed = FALSE /\ record'.sent = record.sent
        /\ record'.received = record.received /\ record'.pending = record.pending
        /\ record.pending # {} => record'.state = "running"
    BY <2>1, AfterTurnFields
  <2>3. CollaboratorTypeOK'
    BY <1>1, <1>2, <2>1, <2>2, CollaboratorTypes, NextTypes DEF Types
  <2>4. Quiet'
    BY <1>1, <1>2, <2>1, <2>2 DEF Quiet, Serving
  <2>5. NoneBeforeSent'
    BY <1>1, <1>2, <2>2 DEF NoneBeforeSent
  <2>6. ReportsAreTrue'
    <3>1. ~overflowed => record'.report.version = record'.report.about
      BY <1>1, <1>2, <2>2 DEF Matches
    <3> QED  BY <1>1, <1>2, <2>2, <3>1 DEF ReportsAreTrue, ReportIsTrue, ReviewIsOfLatest
  <2>7. Matches'
    BY <2>1, IdleMatches DEF Idling
  <2> QED  BY <2>3, <2>4, <2>5, <2>6, <2>7 DEF CollaboratorInv
<1> QED  BY <1>3, <1>4

\* After the loop, a stop that no turn has taken note of.
LEMMA FinalStep ==
    ASSUME CollaboratorInv, Final
    PROVE  CollaboratorInv'
<1>1. CollaboratorTypeOK /\ Quiet /\ NoneBeforeSent /\ ReportsAreTrue
  BY CollaboratorFacts
<1>2. /\ pc = "final"
      /\ UNCHANGED <<saved, listed, attached, childCancelled, main, crashes, overflowed>>
      /\ UNCHANGED <<childWoken, inbox, receiving, accepted, turning, answered, told, faults>>
  BY DEF Final, mainVars
<1>3. CASE record.state = "stopping"
  <2>1. record' = [record EXCEPT !.state = "stopped"] /\ pc' = "stopped"
    BY <1>3 DEF Final
  <2> QED  BY <1>2, <1>3, <2>1, StopNotedStep
<1>4. CASE record.state # "stopping"
  <2>1. record' = record /\ pc' = "exited"
    BY <1>4 DEF Final
  <2>2. CollaboratorTypeOK'
    BY <1>1, <1>2, <2>1, CollaboratorTypes, NextTypes DEF Types
  <2>3. Quiet'
    BY <1>1, <1>2, <2>1 DEF Quiet, Serving
  <2>4. NoneBeforeSent'
    BY <1>1, <1>2, <2>1 DEF NoneBeforeSent
  <2>5. ReportsAreTrue'
    BY <1>1, <1>2, <2>1, SameReports
  <2>6. Matches'
    BY <2>1, IdleMatches DEF Idling
  <2> QED  BY <2>2, <2>3, <2>4, <2>5, <2>6 DEF CollaboratorInv
<1> QED  BY <1>3, <1>4

\* Every step of the worker.
LEMMA WorkerStep ==
    ASSUME CollaboratorInv, Worker
    PROVE  CollaboratorInv'
BY SelectStep, IdleWorkerStep, PrepareStep, AcceptStep, AcceptedStep, TurnIsOverStep,
   ReceiveStep, ReceivedReceiptStep, LaterReceiptStep, EndTurnStep, FinalStep DEF Worker

-----------------------------------------------------------------------------
(* Steps of the main agent's thread. *)

\* The record keeps what it says of assignments, and gets no new result.
Keeps(d) ==
    /\ d \in Record
    /\ d.sent = record.sent /\ d.received = record.received /\ d.pending = record.pending
    /\ d.report = record.report
    /\ d.reviewed => record.reviewed \/ record.report.version = record.sent
    /\ d.state = record.state \/ d.state \notin {"returned", "failed"}

\* A review is of the latest assignment while its receipt is being written.
ReviewGoesOn ==
    main \in {"review", "review again"} =>
        /\ record.report.version = record.sent
        /\ record.state \in {"returned", "failed", "unknown"}
        /\ record.state = "unknown" => pc \in {"final", "exited"}

\* A step of the main agent that keeps the record's assignments.
LEMMA MainMoves ==
    ASSUME CollaboratorInv, Keeps(record'), saved' \in {saved, record, record'},
           UNCHANGED <<pc, receiving, accepted, turning, answered, told, inbox>>,
           UNCHANGED <<crashes, overflowed>>,
           listed' \in BOOLEAN, attached' \in BOOLEAN, childCancelled' \in BOOLEAN,
           childWoken' \in BOOLEAN, faults' = faults \/ Fault,
           main' \in {"idle", "stop", "review", "review again", "joining", "close",
                      "leaving", "down"},
           ReviewGoesOn', main' = "down" => pc = "exited"
    PROVE  CollaboratorInv'
<1>1. /\ CollaboratorTypeOK /\ Quiet /\ NoneBeforeSent /\ ReportsAreTrue
      /\ ~overflowed => Matches
      /\ record \in Record /\ saved \in Record
  BY CollaboratorFacts
<1>2. /\ record' \in Record
      /\ record'.sent = record.sent /\ record'.received = record.received
      /\ record'.pending = record.pending /\ record'.report = record.report
      /\ record'.reviewed => record.reviewed \/ record.report.version = record.sent
      /\ record'.state = record.state \/ record'.state \notin {"returned", "failed"}
  BY DEF Keeps
<1>3. faults' \in 0..MaxFaults
  BY <1>1, FaultTypes DEF NoFault
<1>4. CollaboratorTypeOK'
  BY <1>1, <1>2, <1>3, CollaboratorTypes, NextTypes DEF Types
<1>5. Quiet'
  BY <1>1, <1>2 DEF Quiet, Serving, ReviewGoesOn
<1>6. NoneBeforeSent'
  BY <1>1, <1>2 DEF NoneBeforeSent
<1>7. ReportsAreTrue'
  BY <1>1, <1>2 DEF ReportsAreTrue, ReportIsTrue, ReviewIsOfLatest
<1>8. ~overflowed' => Matches'
  BY <1>1, <1>2, HeldMatches DEF Held
<1> QED  BY <1>4, <1>5, <1>6, <1>7, <1>8 DEF CollaboratorInv

\* The record itself.
LEMMA SameKeeps ==
    ASSUME record \in Record
    PROVE  Keeps(record)
BY DEF Keeps

\* A record with another state, for work that is asked to stop or is over.
LEMMA StateKeeps ==
    ASSUME record \in Record, NEW st \in State, st \notin {"returned", "failed"}
    PROVE  Keeps([record EXCEPT !.state = st])
BY NotedFields DEF Keeps

\* close and stop_all ask a running worker to stop.
LEMMA StoppingKeeps ==
    ASSUME record \in Record
    PROVE  Keeps(Stopping)
<1>1. CASE attached /\ record.state = "running"
  <2>1. PICK d \in Record : d = record
    OBVIOUS
  <2>2. PICK st : st = IF attached /\ d.state = "running" THEN "stopping" ELSE d.state
    OBVIOUS
  <2>3. Stopping = [d EXCEPT !.state = st]
    BY <2>1, <2>2, Zenon DEF Stopping, Record
  <2>4. st = "stopping" /\ "stopping" \in State
    BY <1>1, <2>1, <2>2 DEF State
  <2> QED  BY <2>1, <2>3, <2>4, StateKeeps
<1>2. CASE ~(attached /\ record.state = "running")
  <2>1. PICK d \in Record : d = record
    OBVIOUS
  <2>2. PICK st : st = IF attached /\ d.state = "running" THEN "stopping" ELSE d.state
    OBVIOUS
  <2>3. Stopping = [d EXCEPT !.state = st]
    BY <2>1, <2>2, Zenon DEF Stopping, Record
  <2>4. st = d.state
    BY <1>2, <2>1, <2>2
  <2>5. [d EXCEPT !.state = st] = d
    BY <2>4 DEF Record
  <2> QED  BY <2>1, <2>3, <2>5, SameKeeps
<1> QED  BY <1>1, <1>2

\* The collaborator is closed.
LEMMA ClosedKeeps ==
    ASSUME record \in Record
    PROVE  Keeps([record EXCEPT !.state = "stopped", !.closed = TRUE])
<1>1. PICK d \in Record : d = record
  OBVIOUS
<1>2. PICK e : e = [d EXCEPT !.state = "stopped", !.closed = TRUE]
  OBVIOUS
<1>3. Fields(e, "stopped", d.sent, d.received, d.pending, d.report, d.reviewed, TRUE)
  BY <1>2, ClosedFields
<1>4. [record EXCEPT !.state = "stopped", !.closed = TRUE] = e
  BY <1>1, <1>2
<1> QED  BY <1>1, <1>3, <1>4 DEF Keeps, Fields

\* A review of the latest report, or its removal.
LEMMA ReviewedKeeps ==
    ASSUME record \in Record, NEW f \in BOOLEAN,
           f => record.report.version = record.sent
    PROVE  Keeps([record EXCEPT !.reviewed = f]) /\ [record EXCEPT !.reviewed = f].state = record.state
<1>1. PICK d \in Record : d = record
  OBVIOUS
<1>2. PICK e : e = [d EXCEPT !.reviewed = f]
  OBVIOUS
<1>3. Fields(e, d.state, d.sent, d.received, d.pending, d.report, f, d.closed)
  BY <1>2, ReviewedFields
<1>4. [record EXCEPT !.reviewed = f] = e
  BY <1>1, <1>2
<1> QED  BY <1>1, <1>3, <1>4 DEF Keeps, Fields

\* The main agent's types.
LEMMA MainTypes ==
    ASSUME CollaboratorInv
    PROVE  /\ listed \in BOOLEAN /\ attached \in BOOLEAN /\ childCancelled \in BOOLEAN
           /\ childWoken \in BOOLEAN /\ record \in Record /\ Keeps(record)
           /\ main \in {"idle", "stop", "review", "review again", "joining", "close",
                        "leaving", "down"}
           /\ Quiet /\ (pc = "exited" \/ main # "down")
BY CollaboratorFacts, CollaboratorTypes, SameKeeps DEF Types, Quiet

\* stop: the request.
LEMMA StopStep ==
    ASSUME CollaboratorInv, Stop
    PROVE  CollaboratorInv'
<1>1. /\ record' = [record EXCEPT !.state = "stopping"] /\ main' = "stop"
      /\ childCancelled' = TRUE /\ childWoken' = TRUE
      /\ UNCHANGED <<saved, listed, attached, inbox, faults, crashes, overflowed>>
      /\ UNCHANGED <<pc, receiving, accepted, turning, answered, told>>
  BY DEF Stop, workerVars
<1>2. Keeps(record')
  BY <1>1, MainTypes, StateKeeps DEF State
<1>3. ReviewGoesOn'
  BY <1>1 DEF ReviewGoesOn
<1> QED  BY <1>1, <1>2, <1>3, MainTypes, MainMoves

\* stop: its receipt.
LEMMA StopReceiptStep ==
    ASSUME CollaboratorInv, StopReceipt
    PROVE  CollaboratorInv'
<1>1. /\ main' = "idle"
      /\ saved' \in {saved, record} /\ (faults' = faults \/ Fault)
      /\ UNCHANGED <<record, listed, attached, childCancelled, childWoken, inbox, crashes, overflowed>>
      /\ UNCHANGED <<pc, receiving, accepted, turning, answered, told>>
  BY DEF StopReceipt, SaveReceipt, NoFault, workerVars
<1>2. Keeps(record')
  BY <1>1, MainTypes
<1>3. ReviewGoesOn'
  BY <1>1 DEF ReviewGoesOn
<1> QED  BY <1>1, <1>2, <1>3, MainTypes, MainMoves

\* review: the record.
LEMMA ReviewStep ==
    ASSUME CollaboratorInv, Review
    PROVE  CollaboratorInv'
<1>1. /\ main' \in {"review", "review again"} /\ Reviewable
      /\ record' = [record EXCEPT !.reviewed = TRUE]
      /\ UNCHANGED <<saved, listed, attached, childCancelled, childWoken, inbox>>
      /\ UNCHANGED <<faults, crashes, overflowed>>
      /\ UNCHANGED <<pc, receiving, accepted, turning, answered, told>>
  BY DEF Review, workerVars
<1>2. Keeps(record') /\ record'.state = record.state
  BY <1>1, MainTypes, ReviewedKeeps DEF Reviewable
<1>3. ReviewGoesOn'
  BY <1>1, <1>2 DEF ReviewGoesOn, Reviewable, Keeps
<1> QED  BY <1>1, <1>2, <1>3, MainTypes, MainMoves

\* review: its receipt, or the record as it was.
LEMMA ReviewReceiptStep ==
    ASSUME CollaboratorInv, ReviewReceipt
    PROVE  CollaboratorInv'
<1>1. /\ main \in {"review", "review again"} /\ main' = "idle"
      /\ \/ saved' = record /\ record' = record /\ faults' = faults
         \/ Fault /\ record' = [record EXCEPT !.reviewed = (main = "review again")] /\ saved' = saved
      /\ UNCHANGED <<listed, attached, childCancelled, childWoken, inbox, crashes, overflowed>>
      /\ UNCHANGED <<pc, receiving, accepted, turning, answered, told>>
  BY DEF ReviewReceipt, NoFault, workerVars
<1>2. PICK f \in BOOLEAN : f = (main = "review again")
  OBVIOUS
<1>3. record.report.version = record.sent
  BY <1>1, MainTypes DEF Quiet
<1>4. Keeps(record')
  <2>1. Keeps([record EXCEPT !.reviewed = f])
    BY <1>3, MainTypes, ReviewedKeeps
  <2> QED  BY <1>1, <1>2, <2>1, MainTypes
<1>5. ReviewGoesOn'
  BY <1>1 DEF ReviewGoesOn
<1> QED  BY <1>1, <1>4, <1>5, MainTypes, MainMoves

\* close: the worker is taken and asked to stop.
LEMMA CloseStep ==
    ASSUME CollaboratorInv, Close
    PROVE  CollaboratorInv'
<1>1. /\ main' \in {"close", "joining"} /\ record' \in {record, Stopping}
      /\ attached' \in {attached, FALSE}
      /\ \/ childCancelled' = childCancelled /\ childWoken' = childWoken
         \/ childCancelled' = (childCancelled \/ attached) /\ childWoken' = (childWoken \/ attached)
      /\ UNCHANGED <<saved, listed, inbox, faults, crashes, overflowed>>
      /\ UNCHANGED <<pc, receiving, accepted, turning, answered, told>>
  BY DEF Close, workerVars
<1>2. Keeps(record')
  BY <1>1, MainTypes, StoppingKeeps
<1>3. ReviewGoesOn'
  BY <1>1 DEF ReviewGoesOn
<1>4. childCancelled' \in BOOLEAN /\ childWoken' \in BOOLEAN
  BY <1>1, MainTypes, Zenon
<1> QED  BY <1>1, <1>2, <1>3, <1>4, MainTypes, MainMoves

\* close: the thread was joined and the files are removed.
LEMMA JoinedStep ==
    ASSUME CollaboratorInv, Joined
    PROVE  CollaboratorInv'
<1>1. /\ main' \in {"close", "idle"} /\ (faults' = faults \/ Fault)
      /\ record' \in {record, [record EXCEPT !.state = "stopped", !.closed = TRUE]}
      /\ UNCHANGED <<saved, listed, attached, childCancelled, childWoken, inbox, crashes, overflowed>>
      /\ UNCHANGED <<pc, receiving, accepted, turning, answered, told>>
  BY DEF Joined, NoFault, workerVars
<1>2. Keeps(record')
  BY <1>1, MainTypes, ClosedKeeps
<1>3. ReviewGoesOn'
  BY <1>1 DEF ReviewGoesOn
<1> QED  BY <1>1, <1>2, <1>3, MainTypes, MainMoves

\* close: the receipt.
LEMMA ClosedReceiptStep ==
    ASSUME CollaboratorInv, ClosedReceipt
    PROVE  CollaboratorInv'
<1>1. /\ main' = "idle" /\ (faults' = faults \/ Fault)
      /\ saved' \in {saved, record} /\ listed' \in {listed, FALSE}
      /\ UNCHANGED <<record, attached, childCancelled, childWoken, inbox, crashes, overflowed>>
      /\ UNCHANGED <<pc, receiving, accepted, turning, answered, told>>
  BY DEF ClosedReceipt, NoFault, workerVars
<1>2. Keeps(record')
  BY <1>1, MainTypes
<1>3. ReviewGoesOn'
  BY <1>1 DEF ReviewGoesOn
<1> QED  BY <1>1, <1>2, <1>3, MainTypes, MainMoves

\* stop_all: ask.
LEMMA LeaveStep ==
    ASSUME CollaboratorInv, Leave
    PROVE  CollaboratorInv'
<1>1. /\ main' = "leaving" /\ record' = Stopping
      /\ attached' = FALSE /\ childCancelled' = TRUE /\ childWoken' = TRUE
      /\ UNCHANGED <<saved, listed, inbox, faults, crashes, overflowed>>
      /\ UNCHANGED <<pc, receiving, accepted, turning, answered, told>>
  BY DEF Leave, workerVars
<1>2. Keeps(record')
  BY <1>1, MainTypes, StoppingKeeps
<1>3. ReviewGoesOn'
  BY <1>1 DEF ReviewGoesOn
<1> QED  BY <1>1, <1>2, <1>3, MainTypes, MainMoves

\* stop_all: join, and note the stop.
LEMMA LeftStep ==
    ASSUME CollaboratorInv, Left
    PROVE  CollaboratorInv'
<1>1. /\ main' = "down" /\ pc = "exited" /\ (faults' = faults \/ Fault)
      /\ record' \in {record, [record EXCEPT !.state = "stopped"]}
      /\ saved' \in {saved, record'}
      /\ UNCHANGED <<listed, attached, childCancelled, childWoken, inbox, crashes, overflowed>>
      /\ UNCHANGED <<pc, receiving, accepted, turning, answered, told>>
  BY DEF Left, NoFault, workerVars
<1>2. Keeps(record')
  BY <1>1, MainTypes, StateKeeps DEF State
<1>3. ReviewGoesOn'
  BY <1>1 DEF ReviewGoesOn
<1> QED  BY <1>1, <1>2, <1>3, MainTypes, MainMoves

\* A receipt of another collaborator saves this record too.
LEMMA OtherReceiptStep ==
    ASSUME CollaboratorInv, OtherReceipt
    PROVE  CollaboratorInv'
<1>1. /\ saved' = record
      /\ UNCHANGED <<record, listed, attached, childCancelled, main, childWoken, inbox>>
      /\ UNCHANGED <<faults, crashes, overflowed>>
      /\ UNCHANGED <<pc, receiving, accepted, turning, answered, told>>
  BY DEF OtherReceipt, workerVars, mainVars
<1>2. Keeps(record')
  BY <1>1, MainTypes
<1>3. ReviewGoesOn'
  BY <1>1, MainTypes DEF ReviewGoesOn, Quiet
<1> QED  BY <1>1, <1>2, <1>3, MainTypes, MainMoves

\* update: a version is sent, pending at once, and in the inbox of a turn.
LEMMA UpdateStep ==
    ASSUME CollaboratorInv, Update
    PROVE  CollaboratorInv'
<1>1. /\ CollaboratorTypeOK /\ Quiet /\ NoneBeforeSent /\ ReportsAreTrue
      /\ ~overflowed => Matches
      /\ record \in Record /\ inbox \in SUBSET Version /\ receiving \in SUBSET Version
      /\ record.pending \in SUBSET Version /\ record.sent \in Version
      /\ overflowed \in BOOLEAN
  BY CollaboratorFacts
<1>2. /\ main = "idle" /\ record.state \notin {"stopping", "stopped", "unknown"}
      /\ record.sent < MaxVersion /\ record' = Updated /\ saved' = record'
      /\ overflowed' = (overflowed \/ (record.state = "running" /\ ~Queues))
      /\ childWoken' = TRUE
      /\ UNCHANGED <<listed, attached, childCancelled, main, crashes, faults>>
      /\ UNCHANGED <<pc, receiving, accepted, turning, answered, told>>
  BY DEF Update, Available, workerVars
<1>3. PICK n : n = record.sent + 1
  OBVIOUS
<1>4. n \in Version /\ n \in Nat /\ record.sent \in Nat
  BY <1>1, <1>2, <1>3, BoundsAssumption DEF Version
<1>5. PICK d \in Record : d = record
  BY <1>1
<1>6. /\ record' \in Record /\ record'.state = "running" /\ record'.sent = n
      /\ record'.received = record.received /\ record'.pending = record.pending \cup {n}
      /\ record'.report = record.report /\ record'.reviewed = FALSE
  <2>1. record' = [d EXCEPT !.state = "running", !.reviewed = FALSE, !.sent = @ + 1,
                            !.pending = @ \cup {d.sent + 1}]
    BY <1>2, <1>5 DEF Updated
  <2>2. Fields(record', "running", d.sent + 1, d.received, d.pending \cup {d.sent + 1},
               d.report, FALSE, d.closed)
    BY <1>2, <1>5, <2>1, UpdatedFields
  <2> QED  BY <1>3, <1>5, <2>2 DEF Fields
<1>7. inbox' = inbox \/ inbox' = inbox \cup {n}
  BY <1>2, <1>3 DEF Update
<1>8. \A v \in record.pending \cup inbox \cup receiving : v \in Nat /\ v < n
  <2>1. \A v \in record.pending \cup inbox \cup receiving : v \in Nat /\ v <= record.sent
    BY <1>1, VersionsAreFinite DEF NoneBeforeSent
  <2> QED  BY <1>3, <1>4, <2>1
<1>9. overflowed' \in BOOLEAN
  BY <1>1, <1>2, Zenon
<1>10. CollaboratorTypeOK'
  <2>1. inbox' \in SUBSET Version
    BY <1>1, <1>4, <1>7
  <2> QED  BY <1>1, <1>2, <1>6, <1>9, <2>1, CollaboratorTypes, NextTypes DEF Types
<1>11. Quiet'
  BY <1>1, <1>2, <1>6 DEF Quiet, Serving
<1>12. NoneBeforeSent'
  BY <1>2, <1>4, <1>6, <1>7, <1>8 DEF NoneBeforeSent
<1>13. ReportsAreTrue'
  <2>1. overflowed' = FALSE => overflowed = FALSE
    BY <1>1, <1>2
  <2> QED  BY <1>1, <1>2, <1>6, <1>9, <2>1 DEF ReportsAreTrue, ReportIsTrue, ReviewIsOfLatest
<1>14. ~overflowed' => Matches'
  <2>1. SUFFICES ASSUME ~overflowed' PROVE Matches'
    OBVIOUS
  <2>2. ~overflowed /\ (record.state = "running" => Queues)
    BY <1>2, <2>1
  <2>3. Matches
    BY <1>1, <2>2
  <2>4. CASE pc \notin Serving
    BY <1>2, <2>4 DEF Serving, Matches
  <2>5. CASE pc \in Serving
    <3>1. record.state = "running"
      BY <1>1, <1>2, <2>5, RecordFields DEF Quiet, State
    <3>2. inbox' = inbox \cup {n}
      BY <1>2, <1>3, <2>2, <3>1 DEF Update
    <3>3. ASSUME NEW s \in SUBSET Version, Below(s, inbox), s \subseteq record.pending \cup receiving
          PROVE  Below(s, inbox')
      BY <1>8, <3>2, <3>3 DEF Below
    <3>4. pc = "accepted" => TurnAccepted'
      <4>1. SUFFICES ASSUME pc = "accepted" PROVE TurnAccepted'
        OBVIOUS
      <4>2. PICK a \in SUBSET Version :
                /\ record.pending = a \cup inbox /\ Below(a, inbox) /\ a # {}
                /\ accepted = Cardinality(a) /\ told = Max(a)
        BY <2>3, <4>1 DEF Matches, TurnAccepted
      <4>3. Below(a, inbox')
        BY <3>3, <4>2
      <4>4. record'.pending = a \cup inbox'
        BY <1>6, <3>2, <4>2
      <4> QED  BY <1>2, <4>2, <4>3, <4>4 DEF TurnAccepted
    <3>5. pc = "receive" => ReceivingSound'
      <4>1. SUFFICES ASSUME pc = "receive" PROVE ReceivingSound'
        OBVIOUS
      <4>2. ReceivingSound
        BY <2>3, <4>1 DEF Matches
      <4>3. Below(receiving, inbox')
        BY <1>1, <3>3, <4>2 DEF ReceivingSound
      <4>4. turning => record'.pending = receiving \cup inbox' /\ told = Max(receiving)
        BY <1>6, <3>2, <4>2 DEF ReceivingSound
      <4>5. ~turning =>
              \E v \in Version : receiving = {v} /\ {w \in record'.pending : w > v} = inbox'
        <5>1. SUFFICES ASSUME ~turning
                       PROVE  \E v \in Version : receiving = {v} /\ {w \in record'.pending : w > v} = inbox'
          OBVIOUS
        <5>2. PICK v \in Version : receiving = {v} /\ {w \in record.pending : w > v} = inbox
          BY <4>2, <5>1 DEF ReceivingSound
        <5>3. v < n /\ v \in Nat
          BY <1>8, <5>2
        <5>4. {w \in record'.pending : w > v} = inbox'
          BY <1>4, <1>6, <3>2, <5>2, <5>3
        <5> QED  BY <5>2, <5>4
      <4>6. Below(receiving', inbox') /\ receiving' # {}
        BY <1>2, <4>2, <4>3 DEF ReceivingSound
      <4> QED  BY <1>2, <4>2, <4>4, <4>5, <4>6 DEF ReceivingSound
    <3>6. pc = "received" => ReceiptSound'
      <4>1. SUFFICES ASSUME pc = "received" PROVE ReceiptSound'
        OBVIOUS
      <4>2. ReceiptSound
        BY <2>3, <4>1 DEF Matches
      <4>3. Below(receiving, inbox')
        BY <1>1, <3>3, <4>2 DEF ReceiptSound
      <4>4. record'.pending = (receiving \ {record'.received}) \cup inbox'
        BY <1>6, <3>2, <4>2 DEF ReceiptSound
      <4>5. Below(receiving', inbox') /\ receiving' # {}
        BY <1>2, <4>2, <4>3 DEF ReceiptSound
      <4> QED  BY <1>2, <1>6, <4>2, <4>4, <4>5 DEF ReceiptSound
    <3>7. pc \in {"prepare", "turn"} => record'.pending = inbox'
      BY <1>6, <2>3, <3>2 DEF Matches
    <3>8. pc = "turn" \/ (pc = "ended" /\ answered) => told = record'.received
      BY <1>6, <2>3 DEF Matches
    <3> QED  BY <1>2, <3>4, <3>5, <3>6, <3>7, <3>8 DEF Matches
  <2> QED  BY <2>4, <2>5
<1> QED  BY <1>10, <1>11, <1>12, <1>13, <1>14 DEF CollaboratorInv

-----------------------------------------------------------------------------
(* The program stops, and a conversation is resumed. *)

\* The program stops.
LEMMA CrashStep ==
    ASSUME CollaboratorInv, Crash
    PROVE  CollaboratorInv'
<1>1. CollaboratorTypeOK /\ Quiet /\ NoneBeforeSent /\ ReportsAreTrue
  BY CollaboratorFacts
<1>2. /\ crashes < MaxCrashes /\ crashes' = crashes + 1 /\ main' = "down" /\ pc' = "exited"
      /\ attached' = FALSE /\ childCancelled' = FALSE /\ childWoken' = FALSE
      /\ inbox' = {} /\ receiving' = {} /\ accepted' = 0
      /\ UNCHANGED <<record, saved, listed, turning, answered, told, faults, overflowed>>
  BY DEF Crash
<1>3. CollaboratorTypeOK'
  <2>1. crashes' \in 0..MaxCrashes
    <3>1. crashes \in 0..MaxCrashes
      BY <1>1, CollaboratorTypes DEF Types
    <3>2. MaxCrashes \in Nat
      BY BoundsAssumption
    <3> QED  BY <1>2, <3>1, <3>2
  <2> QED  BY <1>1, <1>2, <2>1, CollaboratorTypes, NextTypes DEF Types
<1>4. Quiet'
  BY <1>2 DEF Quiet, Serving
<1>5. NoneBeforeSent'
  BY <1>1, <1>2 DEF NoneBeforeSent
<1>6. ReportsAreTrue'
  BY <1>1, <1>2, SameReports
<1>7. Matches'
  BY <1>2, IdleMatches DEF Idling
<1> QED  BY <1>3, <1>4, <1>5, <1>6, <1>7 DEF CollaboratorInv

\* bind: a conversation is resumed from the last receipt.
LEMMA BindStep ==
    ASSUME CollaboratorInv, Bind
    PROVE  CollaboratorInv'
<1>1. /\ CollaboratorTypeOK /\ Quiet /\ NoneBeforeSent /\ ReportsAreTrue
      /\ saved \in Record /\ receiving \in SUBSET Version
  BY CollaboratorFacts
<1>2. /\ main = "down" /\ record' = Restored /\ saved' \in {saved, record'}
      /\ listed' = ~saved.closed /\ childCancelled' = FALSE /\ childWoken' = FALSE
      /\ inbox' = {} /\ main' = "idle"
      /\ UNCHANGED <<attached, crashes, overflowed, faults>>
      /\ UNCHANGED <<pc, receiving, accepted, turning, answered, told>>
  BY DEF Bind, workerVars
<1>3. PICK d \in Record : d = saved
  BY <1>1
<1>4. /\ record' \in Record /\ record'.sent = saved.sent /\ record'.report = saved.report
      /\ record'.reviewed = saved.reviewed /\ record'.pending \subseteq {saved.sent}
  <2>1. record' = [d EXCEPT !.state = IF @ \in {"running", "stopping"} THEN "unknown" ELSE @,
                            !.pending = IF @ = {} THEN {} ELSE {d.sent}]
    BY <1>2, <1>3 DEF Restored
  <2> QED  BY <1>3, <2>1, RestoredFields DEF Fields
<1>5. CollaboratorTypeOK'
  <2>1. listed' \in BOOLEAN
    BY <1>2, Zenon
  <2> QED  BY <1>1, <1>2, <1>4, <2>1, CollaboratorTypes, NextTypes DEF Types
<1>6. pc = "exited" /\ pc' = "exited"
  BY <1>1, <1>2 DEF Quiet
<1>7. Quiet'
  BY <1>2, <1>6 DEF Quiet, Serving
<1>8. NoneBeforeSent'
  <2>1. saved.sent = record.sent /\ saved.sent \in Nat /\ \A v \in receiving : v <= record.sent
    BY <1>1, RecordFields DEF NoneBeforeSent
  <2> QED  BY <1>2, <1>4, <2>1 DEF NoneBeforeSent
<1>9. ReportsAreTrue'
  <2>1. Copied(record', {record, saved}) /\ Copied(saved', {record, saved})
    BY <1>2, <1>4 DEF Copied
  <2> QED  BY <1>1, <1>2, <2>1, CopiedReports
<1>10. Matches'
  BY <1>6, IdleMatches DEF Idling
<1> QED  BY <1>5, <1>7, <1>8, <1>9, <1>10 DEF CollaboratorInv

-----------------------------------------------------------------------------
(* The theorem. *)

\* create: the first version is pending.
LEMMA CollaboratorInitInv ==
    ASSUME CollaboratorInit
    PROVE  CollaboratorInv
<1>1. PICK rep \in Report : rep = [version |-> 0, about |-> 0]
  <2>1. 0 \in 0..MaxVersion
    BY BoundsAssumption
  <2>2. [version |-> 0, about |-> 0] \in Report
    BY ONLY <2>1 DEF Report
  <2> QED  BY <2>2
<1>2. 1 \in Version /\ 0 \in 0..MaxVersion /\ "running" \in State /\ rep.version = 0 /\ rep.about = 0
  BY <1>1, BoundsAssumption DEF Version, State
<1>3. PICK f \in BOOLEAN : f = FALSE
  OBVIOUS
<1>4. PICK p \in SUBSET Version : p = {1}
  BY <1>2
<1>5. record = [state |-> "running", sent |-> 1, received |-> 0, pending |-> p,
                report |-> rep, reviewed |-> f, closed |-> f]
  BY <1>1, <1>3, <1>4, Zenon DEF CollaboratorInit
<1>6. record \in Record
  BY ONLY <1>2, <1>5, rep \in Report, f \in BOOLEAN, p \in SUBSET Version DEF Record
<1>7. /\ record.sent = 1 /\ record.pending = {1} /\ record.report = rep
      /\ record.reviewed = FALSE /\ record.state = "running"
  BY <1>3, <1>4, <1>5
<1>8. /\ saved = record /\ listed = TRUE /\ attached = TRUE /\ childCancelled = FALSE
      /\ childWoken = FALSE /\ inbox = {} /\ pc = "top" /\ receiving = {} /\ accepted = 0
      /\ turning = FALSE /\ answered = FALSE /\ told = 0
      /\ main = "idle" /\ faults = 0 /\ crashes = 0 /\ overflowed = FALSE
  BY DEF CollaboratorInit
<1>9. CollaboratorTypeOK
  <2>1. 0 \in 0..MaxFaults /\ 0 \in 0..MaxCrashes /\ 0 \in Nat
    BY BoundsAssumption
  <2>2. Types
    BY <1>2, <1>6, <1>8, <2>1 DEF Types
  <2> QED  BY <2>2, CollaboratorTypes
<1>10. Quiet
  BY <1>7, <1>8 DEF Quiet, Serving
<1>11. NoneBeforeSent
  BY <1>7, <1>8 DEF NoneBeforeSent
<1>12. ReportsAreTrue
  BY <1>2, <1>7, <1>8 DEF ReportsAreTrue, ReportIsTrue, ReviewIsOfLatest
<1>13. Matches
  BY <1>8 DEF Matches
<1> QED  BY <1>9, <1>10, <1>11, <1>12, <1>13 DEF CollaboratorInv

\* What the worker holds, what waits in its inbox and what the record calls
\* pending agree at every step (run_child, Observer::update in runtime.rs).
THEOREM CollaboratorInvariant == CollaboratorSpec => []CollaboratorInv
<1>1. CollaboratorInit => CollaboratorInv
  BY CollaboratorInitInv
<1>2. CollaboratorInv /\ [CollaboratorNext]_collaboratorVars => CollaboratorInv'
  <2>1. SUFFICES ASSUME CollaboratorInv, [CollaboratorNext]_collaboratorVars
                 PROVE  CollaboratorInv'
    OBVIOUS
  <2>2. CASE CollaboratorNext
    BY <2>1, <2>2, WorkerStep, UpdateStep, StopStep, StopReceiptStep, ReviewStep, ReviewReceiptStep,
       CloseStep, JoinedStep, ClosedReceiptStep, LeaveStep, LeftStep, BindStep, OtherReceiptStep,
       CrashStep DEF CollaboratorNext, Main
  <2>3. CASE UNCHANGED collaboratorVars
    <3>1. CollaboratorTypeOK' /\ Quiet' /\ NoneBeforeSent' /\ ReportsAreTrue'
      BY <2>1, <2>3 DEF collaboratorVars, CollaboratorInv, CollaboratorTypeOK, Quiet, NoneBeforeSent,
             ReportsAreTrue, ReportIsTrue, ReviewIsOfLatest
    <3>2. ~overflowed' => Matches'
      BY <2>1, <2>3, HeldMatches DEF collaboratorVars, CollaboratorInv, Held
    <3> QED  BY <3>1, <3>2 DEF CollaboratorInv
  <2> QED  BY <2>1, <2>2, <2>3
<1> QED  BY <1>1, <1>2, PTL DEF CollaboratorSpec

\* A report names the version it answers, and a review is of the latest
\* assignment's report, in the record and in what was saved of it.
THEOREM ReportsAreOfTheirVersions == CollaboratorSpec => []ReportsAreTrue
<1>1. CollaboratorInv => ReportsAreTrue
  BY DEF CollaboratorInv
<1> QED  BY <1>1, CollaboratorInvariant, PTL
=============================================================================
