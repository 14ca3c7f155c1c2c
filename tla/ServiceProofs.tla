---------------------------- MODULE ServiceProofs ----------------------------
(***************************************************************************)
(* Proofs about HttpPool, LanguageServers and ResponseSocket.  PoolInv     *)
(* describes, for every caller, how much of its answer the adapter has     *)
(* written and how much of that the caller has read; for every adapter,    *)
(* that what its connection still owes is the rest of the answer it is     *)
(* reading; and for the pool, that every process that runs has exactly one *)
(* owner.  ServerInv says who is in an instance's session, that an         *)
(* instance outside a session is seen as it is, and that the server's copy *)
(* of the file is the one the answer is about until it is compared.        *)
(* SocketInv says that what arrives of an answer while a message is waited *)
(* for is of its own answer, and what a sample has shown at each stage.    *)
(***************************************************************************)
EXTENDS HttpPool, LanguageServers, ResponseSocket, NaturalsInduction, WellFoundedInduction,
        SequenceTheorems, FiniteSetTheorems, TLAPS

-----------------------------------------------------------------------------
(* The state of the pool. *)

CallerState == [at : {"new", "acquire", "exchange", "recover", "done"},
                adapter : Adapter \cup {NoAdapter}, tries : 0..2,
                accepted : BOOLEAN, seen : Seq(Part),
                result : {"none", "whole", "failed", "unsent"}]
ProcessState == [at : {"gone", "reading", "accepted", "head", "rest", "stuck"},
                 request : Request \cup {NoRequest}, reused : BOOLEAN,
                 attempt : 0..StaleRetries]
Deliveries == {"none", "writing", "written", "broken"}

LEMMA PoolTypes ==
    PoolTypeOK <=> /\ idle \in Seq(Adapter)
                   /\ caller \in [Request -> CallerState]
                   /\ process \in [Adapter -> ProcessState]
                   /\ delivery \in [Adapter -> Deliveries]
                   /\ frames \in [Adapter -> Seq(Frame)]
                   /\ link \in [Adapter -> Link]
                   /\ served \in [Request -> Nat]
                   /\ broken \in 0..MaxBroken
BY DEF PoolTypeOK, CallerState, ProcessState, Deliveries

-----------------------------------------------------------------------------
(* The invariant. *)

\* How much of an answer to its request a process has written.
Stage == {"nothing", "accepted", "head", "whole", "refused", "cut"}
Written(stage) ==
    CASE stage = "nothing" -> 0
      [] stage = "accepted" -> 1
      [] stage \in {"head", "refused"} -> 2
      [] stage = "cut" -> 3
      [] OTHER -> 4
FrameAt(r, stage, i) ==
    IF i = 1 THEN [tag |-> "accepted", of |-> r, part |-> 0]
    ELSE IF (i = 2 /\ stage = "refused") \/ (i = 3 /\ stage = "cut")
    THEN [tag |-> "failed", of |-> r, part |-> 0]
    ELSE IF i = 4 THEN [tag |-> "end", of |-> r, part |-> 0]
    ELSE [tag |-> "data", of |-> r, part |-> i - 1]

\* How much of it the caller has read; the pipe holds the rest.
Read(c) == IF c.accepted THEN 1 + Len(c.seen) ELSE 0
Piped(r, c, f, stage) ==
    /\ Read(c) + Len(f) = Written(stage)
    /\ \A i \in 1..Len(f) : f[i] = FrameAt(r, stage, i + Read(c))

\* How far the process is with the request.
AtWork == {"accepted", "head", "rest"}
Works(r, p, d, stage) ==
    /\ p.at \in {"gone", "reading"} \cup AtWork
    /\ p.at \in AtWork => p.request = r /\ d = "written"
    /\ p.at \in {"accepted", "head"} => stage = "accepted"
    /\ p.at = "rest" => stage = "head"
    /\ p.at = "reading" => IF d = "writing" THEN stage = "nothing"
                           ELSE d = "written" /\ stage \in {"whole", "refused", "cut"}
    /\ p.at = "gone" => d \in {"written", "broken"}

\* How often the request went out.
Limit(r) == IF r \in Safe THEN 1 + StaleRetries ELSE 1
Sent(r, p, n, stage) ==
    /\ stage = "nothing" => n = 0
    /\ p.at \in {"accepted", "head"} /\ p.attempt > 0 => r \in Safe
    /\ p.at = "accepted" => n <= p.attempt
    /\ p.at = "head" => n <= p.attempt + 1

Exchanging(r, c, p, d, f, n) ==
    \E stage \in Stage : Piped(r, c, f, stage) /\ Works(r, p, d, stage) /\ Sent(r, p, n, stage)
Recovering(p, d, f) ==
    f = <<>> /\ p.at \in {"gone", "reading"} /\ d \in {"written", "broken"}

Own(r, seen) == Len(seen) <= 2 /\ \A i \in 1..Len(seen) : seen[i] = [of |-> r, part |-> i]

CallerSound(r, c, n) ==
    /\ c.at \in {"exchange", "recover"} <=> c.adapter # NoAdapter
    /\ c.at \in {"new", "acquire"} \/ c.result = "unsent" => n = 0
    /\ c.at \in {"new", "acquire", "exchange"} => c.result = "none"
    /\ c.at \in {"new", "acquire"} \/ (c.at = "exchange" /\ ~c.accepted) => c.seen = <<>>
    /\ c.at = "recover" => c.result \in {"whole", "failed"}
    /\ n <= Limit(r)
    /\ Own(r, c.seen)
    /\ c.result = "whole" => Len(c.seen) = 2

\* The connection owes exactly the answer that is still to be read.
LinkSound(p, l) ==
    /\ p.at \in {"gone", "reading", "accepted"} => l.owed = <<>>
    /\ p.at = "head" => l.owed = AnswerTo(p.request)
    /\ p.at = "rest" => l.owed = <<[of |-> p.request, part |-> 2]>>

IdleSound(p, d, f) == p.at \in {"gone", "reading"} /\ d = "none" /\ f = <<>>

Holds(s, a) == \E i \in DOMAIN s : s[i] = a
Once(s) == \A i, j \in DOMAIN s : s[i] = s[j] => i = j

\* Every process that runs is in the pool or serves one caller.
Owned ==
    /\ Len(idle) <= MaxIdle /\ Once(idle)
    /\ \A a \in Adapter : process[a].at # "gone" => Holds(idle, a) \/ \E r \in Request : caller[r].adapter = a
    /\ \A a \in Adapter, r \in Request : Holds(idle, a) => caller[r].adapter # a
    /\ \A r, q \in Request : caller[r].adapter = caller[q].adapter /\ caller[r].adapter # NoAdapter => r = q

CallersSound ==
    \A r \in Request :
       /\ CallerSound(r, caller[r], served[r])
       /\ caller[r].at = "exchange" =>
             Exchanging(r, caller[r], process[caller[r].adapter], delivery[caller[r].adapter],
                        frames[caller[r].adapter], served[r])
       /\ caller[r].at = "recover" =>
             Recovering(process[caller[r].adapter], delivery[caller[r].adapter], frames[caller[r].adapter])

AdaptersSound ==
    \A a \in Adapter :
       /\ LinkSound(process[a], link[a])
       /\ Holds(idle, a) => IdleSound(process[a], delivery[a], frames[a])

PoolInv == PoolTypeOK /\ Owned /\ CallersSound /\ AdaptersSound

-----------------------------------------------------------------------------
(* What the invariant shows. *)

LEMMA OwnIsPrefix ==
    ASSUME NEW r \in Request, NEW seen \in Seq(Part), Own(r, seen)
    PROVE  /\ seen = SubSeq(AnswerTo(r), 1, Len(seen))
           /\ Len(seen) = 2 => seen = AnswerTo(r)
<1>1. PICK n \in Nat : n = Len(seen)
  BY LenProperties
<1>2. n <= 2 /\ \A i \in 1..n : seen[i] = [of |-> r, part |-> i]
  BY <1>1 DEF Own
<1>3. /\ AnswerTo(r) \in Seq(Part) /\ Len(AnswerTo(r)) = 2
      /\ \A i \in 1..2 : AnswerTo(r)[i] = [of |-> r, part |-> i] /\ AnswerTo(r)[i] \in Part
  BY DEF AnswerTo, Part
<1>4. \A i \in 1..n : i \in 1..2
  BY <1>2
<1>5. PICK part : part = SubSeq(AnswerTo(r), 1, n)
  OBVIOUS
<1>6. part \in Seq(Part) /\ Len(part) = n /\ \A i \in 1..n : part[i] = AnswerTo(r)[i]
  <2>1. \A i \in 1..n : AnswerTo(r)[i] \in Part
    BY <1>3, <1>4
  <2>2. /\ SubSeq(AnswerTo(r), 1, n) \in Seq(Part)
        /\ Len(SubSeq(AnswerTo(r), 1, n)) = IF 1 <= n THEN n - 1 + 1 ELSE 0
        /\ \A i \in 1..n - 1 + 1 : SubSeq(AnswerTo(r), 1, n)[i] = AnswerTo(r)[1 + i - 1]
    BY <1>3, <2>1, SubSeqProperties
  <2> QED  BY <1>5, <2>2
<1>7. seen = part
  BY <1>1, <1>2, <1>3, <1>4, <1>6, SeqEqual
<1>8. ASSUME n = 2 PROVE seen = AnswerTo(r)
  <2>1. Len(seen) = Len(AnswerTo(r)) /\ \A i \in 1..Len(seen) : seen[i] = AnswerTo(r)[i]
    BY <1>1, <1>2, <1>3, <1>8
  <2> QED  BY <1>3, <2>1, SeqEqual
<1> QED  BY <1>1, <1>5, <1>7, <1>8

LEMMA PoolInvShows == PoolInv => RepeatedSafely /\ ReusedClean
<1> SUFFICES ASSUME PoolInv PROVE RepeatedSafely /\ ReusedClean
  OBVIOUS
<1>1. RepeatedSafely
  BY PoolTypes, PoolAssumption DEF PoolInv, CallersSound, CallerSound, RepeatedSafely, Limit
<1>2. NoneLeaks
  BY DEF PoolInv, Owned, NoneLeaks, IsIdle, InUse, alive, Holds
<1>3. \A r \in Request :
         /\ caller[r].seen \in Seq(Part) /\ Own(r, caller[r].seen)
         /\ caller[r].result = "whole" => Len(caller[r].seen) = 2
  BY PoolTypes DEF PoolInv, CallersSound, CallerSound, CallerState
<1>4. OwnAnswer
  BY <1>3, OwnIsPrefix DEF OwnAnswer
<1> QED  BY <1>1, <1>2, <1>4 DEF ReusedClean

-----------------------------------------------------------------------------
(* What is written and what is read. *)

LEMMA StageLengths ==
    /\ Written("nothing") = 0 /\ Written("accepted") = 1 /\ Written("head") = 2
    /\ Written("refused") = 2 /\ Written("cut") = 3 /\ Written("whole") = 4
    /\ \A stage \in Stage : Written(stage) \in 0..4
BY DEF Written, Stage

LEMMA FrameTyped ==
    ASSUME NEW r \in Request, NEW stage, NEW i \in 1..4
    PROVE  FrameAt(r, stage, i) \in Frame
BY DEF FrameAt, Frame

\* The process writes on.
LEMMA PipedMore ==
    ASSUME NEW r \in Request, NEW c, NEW f \in Seq(Frame), NEW stage \in Stage, NEW next \in Stage,
           NEW more \in Seq(Frame), Read(c) \in Nat,
           Piped(r, c, f, stage), Written(next) = Written(stage) + Len(more),
           \A i \in 1..Written(stage) : FrameAt(r, next, i) = FrameAt(r, stage, i),
           \A i \in 1..Len(more) : more[i] = FrameAt(r, next, Written(stage) + i)
    PROVE  f \o more \in Seq(Frame) /\ Piped(r, c, f \o more, next)
<1>1. /\ f \o more \in Seq(Frame) /\ Len(f \o more) = Len(f) + Len(more)
      /\ \A i \in 1..Len(f) + Len(more) :
            (f \o more)[i] = IF i <= Len(f) THEN f[i] ELSE more[i - Len(f)]
      /\ Len(f) \in Nat /\ Len(more) \in Nat
  BY ConcatProperties, LenProperties
<1> DEFINE g == f \o more
           k == Read(c)
<1>2. Written(stage) = k + Len(f) /\ k + Len(g) = Written(next) /\ Written(stage) \in Nat
  BY <1>1, StageLengths DEF Piped
<1>3. ASSUME NEW i \in 1..Len(g) PROVE g[i] = FrameAt(r, next, i + k)
  <2>1. CASE i <= Len(f)
    <3>1. i \in 1..Len(f) /\ i + k \in 1..Written(stage)
      BY <1>1, <1>2, <2>1
    <3> QED  BY <1>1, <2>1, <3>1 DEF Piped
  <2>2. CASE ~(i <= Len(f))
    <3>1. i - Len(f) \in 1..Len(more) /\ Written(stage) + (i - Len(f)) = i + k
      BY <1>1, <1>2, <2>2
    <3>2. more[i - Len(f)] = FrameAt(r, next, Written(stage) + (i - Len(f)))
      BY <3>1
    <3> QED  BY <1>1, <2>2, <3>1, <3>2
  <2> QED  BY <2>1, <2>2
<1> QED  BY <1>1, <1>2, <1>3 DEF Piped

\* The caller reads on.
LEMMA PipedLess ==
    ASSUME NEW r, NEW c, NEW d, NEW f \in Seq(Frame), NEW stage \in Stage,
           Read(c) \in Nat, Piped(r, c, f, stage), f # <<>>, Read(d) = Read(c) + 1
    PROVE  /\ Head(f) = FrameAt(r, stage, Read(c) + 1) /\ Read(c) + 1 <= Written(stage)
           /\ Tail(f) \in Seq(Frame) /\ Piped(r, d, Tail(f), stage)
<1> DEFINE k == Read(c)
<1>1. Len(f) \in Nat \ {0} /\ Len(Tail(f)) = Len(f) - 1 /\ Tail(f) \in Seq(Frame)
      /\ \A i \in 1..Len(Tail(f)) : Tail(f)[i] = f[i + 1]
      /\ Head(f) = f[1]
  BY EmptySeq, HeadTailProperties
<1>2. k + Len(f) = Written(stage) /\ \A i \in 1..Len(f) : f[i] = FrameAt(r, stage, i + k)
  BY DEF Piped
<1>3. f[1] = FrameAt(r, stage, k + 1)
  BY <1>1, <1>2
<1>4. ASSUME NEW i \in 1..Len(Tail(f)) PROVE Tail(f)[i] = FrameAt(r, stage, i + Read(d))
  <2>1. i + 1 \in 1..Len(f) /\ (i + 1) + k = i + Read(d)
    BY <1>1
  <2>2. f[i + 1] = FrameAt(r, stage, (i + 1) + k)
    BY <1>2, <2>1
  <2> QED  BY <1>1, <2>1, <2>2
<1> QED  BY <1>1, <1>2, <1>3, <1>4 DEF Piped

LEMMA ReadTyped ==
    ASSUME NEW c \in CallerState
    PROVE  Read(c) \in Nat /\ Len(c.seen) \in Nat
BY LenProperties DEF CallerState, Read

-----------------------------------------------------------------------------
(* The pool's list. *)

LEMMA HoldsAppended ==
    ASSUME NEW s \in Seq(Adapter), NEW a \in Adapter, Once(s), ~Holds(s, a)
    PROVE  /\ Append(s, a) \in Seq(Adapter) /\ Len(Append(s, a)) = Len(s) + 1 /\ Once(Append(s, a))
           /\ \A b : Holds(Append(s, a), b) <=> Holds(s, b) \/ b = a
<1>1. /\ Append(s, a) \in Seq(Adapter) /\ Len(Append(s, a)) = Len(s) + 1 /\ Len(s) \in Nat
      /\ \A i \in 1..Len(s) : Append(s, a)[i] = s[i]
      /\ Append(s, a)[Len(s) + 1] = a
      /\ DOMAIN s = 1..Len(s) /\ DOMAIN Append(s, a) = 1..Len(s) + 1
  BY AppendProperties, LenProperties
<1>2. \A i \in 1..Len(s) + 1 : i \in 1..Len(s) \/ i = Len(s) + 1
  BY <1>1
<1>3. 1..Len(s) \subseteq 1..Len(s) + 1 /\ Len(s) + 1 \in 1..Len(s) + 1
  BY <1>1
<1>4. Once(Append(s, a))
  <2> SUFFICES ASSUME NEW i \in 1..Len(s) + 1, NEW j \in 1..Len(s) + 1,
                      Append(s, a)[i] = Append(s, a)[j]
               PROVE  i = j
    BY <1>1 DEF Once
  <2> QED  BY <1>1, <1>2 DEF Once, Holds
<1>5. \A b : Holds(Append(s, a), b) <=> Holds(s, b) \/ b = a
  BY <1>1, <1>2, <1>3 DEF Holds
<1> QED  BY <1>1, <1>4, <1>5

LEMMA HoldsBefore ==
    ASSUME NEW s \in Seq(Adapter), NEW i \in DOMAIN s, Once(s)
    PROVE  LET t == SubSeq(s, 1, i - 1)
           IN  /\ t \in Seq(Adapter) /\ Len(t) <= Len(s) /\ Once(t) /\ ~Holds(t, s[i])
               /\ \A b : Holds(t, b) => Holds(s, b)
               /\ \A j \in DOMAIN s : j < i => Holds(t, s[j])
<1> DEFINE t == SubSeq(s, 1, i - 1)
<1>1. Len(s) \in Nat /\ DOMAIN s = 1..Len(s) /\ i \in 1..Len(s) /\ \A j \in 1..Len(s) : s[j] \in Adapter
  BY LenProperties, ElementOfSeq
<1>2. \A j \in 1..i - 1 : s[j] \in Adapter /\ j \in DOMAIN s
  BY <1>1
<1>3. /\ t \in Seq(Adapter) /\ Len(t) = i - 1 /\ \A j \in 1..i - 1 : t[j] = s[j]
  <2>1. 1 \in Int /\ i - 1 \in Int
    BY <1>1
  <2>2. /\ t \in Seq(Adapter) /\ Len(t) = (IF 1 <= i - 1 THEN (i - 1) - 1 + 1 ELSE 0)
        /\ \A j \in 1..(i - 1) - 1 + 1 : t[j] = s[1 + j - 1]
    BY <1>2, <2>1, SubSeqProperties
  <2> QED  BY <1>1, <2>2
<1>4. DOMAIN t = 1..i - 1
  BY <1>3, LenProperties
<1> HIDE DEF t
<1>5. Once(t) /\ ~Holds(t, s[i]) /\ \A b : Holds(t, b) => Holds(s, b)
  BY <1>1, <1>2, <1>3, <1>4 DEF Once, Holds
<1>6. \A j \in DOMAIN s : j < i => Holds(t, s[j])
  BY <1>1, <1>3, <1>4 DEF Holds
<1> QED  BY <1>1, <1>3, <1>5, <1>6 DEF t

\* When one of the pool's processes runs, there is a newest such.
LEMMA NewestRuns ==
    ASSUME PoolInv, NEW i \in DOMAIN idle, alive(idle[i])
    PROVE  NewestAlive # {}
<1>1. Len(idle) \in Nat /\ DOMAIN idle = 1..Len(idle)
  BY PoolTypes, LenProperties DEF PoolInv
<1> DEFINE Above == {Len(idle) - j : j \in {k \in DOMAIN idle : alive(idle[k])}}
<1>2. Above \subseteq Nat /\ Above # {}
  BY <1>1
<1>3. PICK m \in Above : \A n \in Above : ~(<<n, m>> \in OpToRel(<, Nat))
  BY <1>2, NatLessThanWellFounded, WFMin
<1>4. PICK k \in DOMAIN idle : alive(idle[k]) /\ m = Len(idle) - k
  BY <1>3
<1>5. ASSUME NEW j \in DOMAIN idle, j > k PROVE ~alive(idle[j])
  <2> SUFFICES ASSUME alive(idle[j]) PROVE FALSE
    OBVIOUS
  <2>1. Len(idle) - j \in Above /\ Len(idle) - j < m /\ Len(idle) - j \in Nat /\ m \in Nat
    BY <1>1, <1>2, <1>4, <1>5
  <2> QED  BY <1>3, <2>1 DEF OpToRel
<1> QED  BY <1>4, <1>5 DEF NewestAlive

-----------------------------------------------------------------------------
(* One caller and one adapter move. *)

LEMMA PoolMoves ==
    ASSUME PoolInv, NEW r \in Request, NEW a \in Adapter, NEW c \in CallerState,
           NEW p \in ProcessState, NEW d \in Deliveries, NEW f \in Seq(Frame), NEW l \in Link, NEW n \in Nat,
           caller' = [caller EXCEPT ![r] = c], process' = [process EXCEPT ![a] = p],
           delivery' = [delivery EXCEPT ![a] = d], frames' = [frames EXCEPT ![a] = f],
           link' = [link EXCEPT ![a] = l], served' = [served EXCEPT ![r] = n], broken' \in 0..MaxBroken,
           caller[r].adapter \in {NoAdapter, a}, c.adapter \in {NoAdapter, a},
           \A q \in Request \ {r} : caller[q].adapter # a,
           CallerSound(r, c, n), c.at = "exchange" => Exchanging(r, c, p, d, f, n),
           c.at = "recover" => Recovering(p, d, f), LinkSound(p, l),
           idle' \in Seq(Adapter), Once(idle'), Len(idle') <= MaxIdle,
           \A b \in Adapter \ {a} : Holds(idle', b) => Holds(idle, b),
           \A b \in Adapter \ {a} : Holds(idle, b) /\ alive(b) => Holds(idle', b),
           Holds(idle', a) => c.adapter = NoAdapter /\ IdleSound(p, d, f),
           p.at # "gone" => c.adapter = a \/ Holds(idle', a)
    PROVE  PoolInv'
<1>1. /\ idle \in Seq(Adapter) /\ caller \in [Request -> CallerState] /\ process \in [Adapter -> ProcessState]
      /\ delivery \in [Adapter -> Deliveries] /\ frames \in [Adapter -> Seq(Frame)]
      /\ link \in [Adapter -> Link] /\ served \in [Request -> Nat]
  BY PoolTypes DEF PoolInv
<1>2. /\ caller'[r] = c /\ served'[r] = n /\ \A q \in Request \ {r} : caller'[q] = caller[q] /\ served'[q] = served[q]
      /\ process'[a] = p /\ delivery'[a] = d /\ frames'[a] = f /\ link'[a] = l
      /\ \A b \in Adapter \ {a} : /\ process'[b] = process[b] /\ delivery'[b] = delivery[b]
                                  /\ frames'[b] = frames[b] /\ link'[b] = link[b]
  BY <1>1
<1>3. PoolTypeOK'
  BY <1>1 DEF PoolTypeOK, CallerState, ProcessState, Deliveries
<1>4. \A q \in Request : caller[q].adapter \in Adapter \cup {NoAdapter}
  BY <1>1 DEF CallerState
<1>5. NoAdapter \notin Adapter
  BY PoolAssumption
<1>6. Owned'
  <2>1. ASSUME NEW b \in Adapter, process'[b].at # "gone"
        PROVE  Holds(idle', b) \/ \E q \in Request : caller'[q].adapter = b
    <3>1. CASE b = a
      BY <1>2, <2>1, <3>1
    <3>2. CASE b # a
      <4>1. Holds(idle, b) \/ \E q \in Request : caller[q].adapter = b
        BY <1>2, <2>1, <3>2 DEF PoolInv, Owned
      <4>2. CASE Holds(idle, b)
        BY <1>2, <2>1, <3>2, <4>2 DEF alive
      <4>3. CASE \E q \in Request : caller[q].adapter = b
        <5>1. PICK q \in Request : caller[q].adapter = b
          BY <4>3
        <5>2. q # r
          BY <1>5, <3>2, <5>1
        <5> QED  BY <1>2, <5>1, <5>2
      <4> QED  BY <4>1, <4>2, <4>3
    <3> QED  BY <3>1, <3>2
  <2>2. ASSUME NEW b \in Adapter, NEW q \in Request, Holds(idle', b) PROVE caller'[q].adapter # b
    BY <1>2, <1>5, <2>2 DEF PoolInv, Owned
  <2>3. ASSUME NEW q \in Request, NEW s \in Request, caller'[q].adapter = caller'[s].adapter,
               caller'[q].adapter # NoAdapter
        PROVE  q = s
    BY <1>2, <2>3 DEF PoolInv, Owned
  <2> QED  BY <2>1, <2>2, <2>3 DEF Owned, Holds, Once
<1>7. ASSUME NEW q \in Request
      PROVE  /\ CallerSound(q, caller'[q], served'[q])
             /\ caller'[q].at = "exchange" =>
                   Exchanging(q, caller'[q], process'[caller'[q].adapter], delivery'[caller'[q].adapter],
                              frames'[caller'[q].adapter], served'[q])
             /\ caller'[q].at = "recover" =>
                   Recovering(process'[caller'[q].adapter], delivery'[caller'[q].adapter],
                              frames'[caller'[q].adapter])
  <2>1. CASE q = r
    <3>1. c.at \in {"exchange", "recover"} => c.adapter = a
      BY DEF CallerSound
    <3> QED  BY <1>2, <2>1, <3>1
  <2>2. CASE q # r
    <3>1. caller'[q] = caller[q] /\ served'[q] = served[q]
      BY <1>2, <2>2
    <3>2. caller[q].at \in {"exchange", "recover"} => caller[q].adapter \in Adapter \ {a}
      BY <1>4, <2>2 DEF PoolInv, CallersSound, CallerSound
    <3> QED  BY <1>2, <3>1, <3>2 DEF PoolInv, CallersSound
  <2> QED  BY <2>1, <2>2
<1>8. CallersSound'
  BY <1>7 DEF CallersSound, CallerSound, Own, Limit, Exchanging, Piped, Read, Works, Sent, Recovering
<1>9. ASSUME NEW b \in Adapter
      PROVE  /\ LinkSound(process'[b], link'[b])
             /\ Holds(idle', b) => IdleSound(process'[b], delivery'[b], frames'[b])
  BY <1>2 DEF PoolInv, AdaptersSound
<1>10. AdaptersSound'
  BY <1>9 DEF AdaptersSound, LinkSound, IdleSound, Holds
<1> QED  BY <1>3, <1>6, <1>8, <1>10 DEF PoolInv

\* One adapter moves, of the caller that has it.
LEMMA ProcessMoves ==
    ASSUME PoolInv, NEW r \in Request, NEW p \in ProcessState, NEW d \in Deliveries,
           NEW f \in Seq(Frame), NEW l \in Link, NEW n \in Nat,
           NEW a \in Adapter, caller[r].adapter = a,
           process' = [process EXCEPT ![a] = p],
           delivery' = [delivery EXCEPT ![a] = d],
           frames' = [frames EXCEPT ![a] = f],
           link' = [link EXCEPT ![a] = l], served' = [served EXCEPT ![r] = n],
           broken' \in 0..MaxBroken, UNCHANGED <<idle, caller>>,
           LinkSound(p, l), n <= Limit(r),
           caller[r].at = "exchange" => Exchanging(r, caller[r], p, d, f, n),
           caller[r].at = "recover" => n = served[r] /\ Recovering(p, d, f)
    PROVE  PoolInv'
<1>1. /\ caller \in [Request -> CallerState] /\ caller[r] \in CallerState /\ idle \in Seq(Adapter)
  BY PoolTypes DEF PoolInv
<1>2. /\ CallerSound(r, caller[r], served[r])
      /\ a # NoAdapter /\ caller[r].at \in {"exchange", "recover"}
  BY <1>1, PoolAssumption DEF PoolInv, CallersSound, CallerSound
<1>4. PICK c \in CallerState : c = caller[r]
  BY <1>1
<1>5. /\ caller' = [caller EXCEPT ![r] = c] /\ idle' = idle
      /\ process' = [process EXCEPT ![a] = p] /\ delivery' = [delivery EXCEPT ![a] = d]
      /\ frames' = [frames EXCEPT ![a] = f] /\ link' = [link EXCEPT ![a] = l]
  BY <1>1, <1>4
<1>6. /\ caller[r].adapter \in {NoAdapter, a} /\ c.adapter = a /\ c.at \in {"exchange", "recover"}
      /\ c.at = "exchange" => Exchanging(r, c, p, d, f, n)
      /\ c.at = "recover" => n = served[r] /\ Recovering(p, d, f)
  BY <1>2, <1>4
<1>7. CallerSound(r, c, n)
  BY <1>2, <1>4, <1>6 DEF CallerSound
<1>8. \A q \in Request \ {r} : caller[q].adapter # a
  BY <1>2 DEF PoolInv, Owned
<1>9. ~Holds(idle, a) /\ Once(idle) /\ Len(idle) <= MaxIdle
  BY <1>2 DEF PoolInv, Owned
<1>10. /\ idle' \in Seq(Adapter) /\ Once(idle') /\ Len(idle') <= MaxIdle /\ ~Holds(idle', a)
       /\ \A b \in Adapter : Holds(idle', b) <=> Holds(idle, b)
  BY <1>1, <1>5, <1>9
<1>11. /\ CallerSound(r, c, n) /\ LinkSound(p, l)
       /\ c.at = "exchange" => Exchanging(r, c, p, d, f, n)
       /\ c.at = "recover" => Recovering(p, d, f)
       /\ Holds(idle', a) => c.adapter = NoAdapter /\ IdleSound(p, d, f)
       /\ p.at # "gone" => c.adapter = a \/ Holds(idle', a)
       /\ c.adapter \in {NoAdapter, a}
  BY <1>6, <1>7, <1>10
<1>12. /\ \A b \in Adapter \ {a} : Holds(idle', b) => Holds(idle, b)
       /\ \A b \in Adapter \ {a} : Holds(idle, b) /\ alive(b) => Holds(idle', b)
       /\ caller[r].adapter \in {NoAdapter, a}
       /\ idle' \in Seq(Adapter) /\ Once(idle') /\ Len(idle') <= MaxIdle
  BY <1>6, <1>10
<1> QED  BY ONLY PoolInv, <1>5, <1>8, <1>11, <1>12, broken' \in 0..MaxBroken,
            served' = [served EXCEPT ![r] = n], PoolMoves

\* A caller without an adapter moves.
LEMMA CallerMoves ==
    ASSUME PoolInv, NEW r \in Request, NEW c \in CallerState,
           caller' = [caller EXCEPT ![r] = c],
           UNCHANGED <<idle, process, delivery, frames, link, served, broken>>,
           caller[r].adapter = NoAdapter, c.adapter = NoAdapter, CallerSound(r, c, served[r])
    PROVE  PoolInv'
<1>1. caller \in [Request -> CallerState]
  BY PoolTypes DEF PoolInv
<1>2. caller'[r] = c /\ \A q \in Request \ {r} : caller'[q] = caller[q]
  BY <1>1
<1>3. PoolTypeOK'
  BY <1>1 DEF PoolInv, PoolTypeOK, CallerState
<1>4. Owned'
  <2>1. \A q \in Request : caller'[q].adapter = caller[q].adapter
    BY <1>2
  <2> QED  BY <2>1 DEF PoolInv, Owned, Holds, Once
<1>5. c.at \notin {"exchange", "recover"}
  BY DEF CallerSound
<1>6. ASSUME NEW q \in Request
      PROVE  /\ CallerSound(q, caller'[q], served'[q])
             /\ caller'[q].at = "exchange" =>
                   Exchanging(q, caller'[q], process'[caller'[q].adapter], delivery'[caller'[q].adapter],
                              frames'[caller'[q].adapter], served'[q])
             /\ caller'[q].at = "recover" =>
                   Recovering(process'[caller'[q].adapter], delivery'[caller'[q].adapter],
                              frames'[caller'[q].adapter])
  BY <1>2, <1>5 DEF PoolInv, CallersSound
<1>7. CallersSound'
  BY <1>6 DEF CallersSound, CallerSound, Own, Limit, Exchanging, Piped, Read, Works, Sent, Recovering
<1>8. AdaptersSound'
  BY DEF PoolInv, AdaptersSound, LinkSound, IdleSound, Holds
<1> QED  BY <1>3, <1>4, <1>7, <1>8 DEF PoolInv

\* An adapter that nobody has moves.
LEMMA IdleMoves ==
    ASSUME PoolInv, NEW a \in Adapter, NEW p \in ProcessState, NEW l \in Link,
           process' = [process EXCEPT ![a] = p], link' = [link EXCEPT ![a] = l], p.at = "gone", l.owed = <<>>,
           UNCHANGED <<idle, caller, delivery, frames, served, broken>>,
           Holds(idle, a)
    PROVE  PoolInv'
<1>1. process \in [Adapter -> ProcessState] /\ link \in [Adapter -> Link] /\ caller \in [Request -> CallerState]
  BY PoolTypes DEF PoolInv
<1>2. /\ process'[a] = p /\ link'[a] = l
      /\ \A b \in Adapter \ {a} : process'[b] = process[b] /\ link'[b] = link[b]
  BY <1>1
<1>3. PoolTypeOK'
  BY <1>1 DEF PoolInv, PoolTypeOK, ProcessState
<1>4. \A r \in Request : caller[r].adapter \in (Adapter \ {a}) \cup {NoAdapter}
  BY <1>1 DEF PoolInv, Owned, CallerState
<1>5. Owned'
  <2>1. \A b \in Adapter : process'[b].at # "gone" => process[b].at # "gone"
    BY <1>2
  <2> QED  BY <2>1 DEF PoolInv, Owned, Holds, Once
<1>6. ASSUME NEW q \in Request
      PROVE  /\ CallerSound(q, caller'[q], served'[q])
             /\ caller'[q].at = "exchange" =>
                   Exchanging(q, caller'[q], process'[caller'[q].adapter], delivery'[caller'[q].adapter],
                              frames'[caller'[q].adapter], served'[q])
             /\ caller'[q].at = "recover" =>
                   Recovering(process'[caller'[q].adapter], delivery'[caller'[q].adapter],
                              frames'[caller'[q].adapter])
  <2>1. caller[q].at \in {"exchange", "recover"} => caller[q].adapter \in Adapter \ {a}
    BY <1>4 DEF PoolInv, CallersSound, CallerSound
  <2> QED  BY <1>2, <2>1 DEF PoolInv, CallersSound
<1>7. CallersSound'
  BY <1>6 DEF CallersSound, CallerSound, Own, Limit, Exchanging, Piped, Read, Works, Sent, Recovering
<1>8. ASSUME NEW b \in Adapter
      PROVE  /\ LinkSound(process'[b], link'[b])
             /\ Holds(idle', b) => IdleSound(process'[b], delivery'[b], frames'[b])
  BY <1>2 DEF PoolInv, AdaptersSound, LinkSound, IdleSound
<1>9. AdaptersSound'
  BY <1>8 DEF AdaptersSound, LinkSound, IdleSound, Holds
<1> QED  BY <1>3, <1>5, <1>7, <1>9 DEF PoolInv

\* A caller that waits for its answer.
LEMMA AtExchange ==
    ASSUME PoolInv, NEW r \in Request, caller[r].at = "exchange"
    PROVE  \E stage \in Stage, a \in Adapter :
              /\ a = caller[r].adapter /\ a # NoAdapter
              /\ Piped(r, caller[r], frames[a], stage)
              /\ Works(r, process[a], delivery[a], stage)
              /\ Sent(r, process[a], served[r], stage)
<1>1. caller[r].adapter \in Adapter
  BY PoolTypes DEF PoolInv, CallersSound, CallerSound, CallerState
<1>2. caller[r].adapter # NoAdapter
  BY <1>1, PoolAssumption
<1> QED  BY <1>1, <1>2 DEF PoolInv, CallersSound, Exchanging

LEMMA Typed ==
    ASSUME PoolInv, NEW r \in Request, NEW a \in Adapter
    PROVE  /\ caller[r] \in CallerState /\ Read(caller[r]) \in Nat /\ served[r] \in Nat
           /\ process[a] \in ProcessState /\ delivery[a] \in Deliveries
           /\ frames[a] \in Seq(Frame) /\ link[a] \in Link /\ broken \in 0..MaxBroken
           /\ CallerSound(r, caller[r], served[r]) /\ LinkSound(process[a], link[a])
           /\ Limit(r) \in Nat
<1>1. /\ caller[r] \in CallerState /\ served[r] \in Nat
      /\ process[a] \in ProcessState /\ delivery[a] \in Deliveries
      /\ frames[a] \in Seq(Frame) /\ link[a] \in Link /\ broken \in 0..MaxBroken
  BY PoolTypes DEF PoolInv
<1>2. Read(caller[r]) \in Nat
  BY <1>1, ReadTyped
<1>3. CallerSound(r, caller[r], served[r]) /\ LinkSound(process[a], link[a])
  BY DEF PoolInv, CallersSound, AdaptersSound
<1>4. Limit(r) \in Nat
  BY PoolAssumption DEF Limit
<1> QED  BY <1>1, <1>2, <1>3, <1>4

\* A process that serves has a caller, whose request it is.
LEMMA ServesOne ==
    ASSUME PoolInv, NEW a \in Adapter, process[a].at \in AtWork
    PROVE  \E r \in Request : caller[r].at = "exchange" /\ caller[r].adapter = a /\ process[a].request = r
<1>1. ~Holds(idle, a)
  BY DEF PoolInv, AdaptersSound, IdleSound, AtWork
<1>2. PICK r \in Request : caller[r].adapter = a
  BY <1>1 DEF PoolInv, Owned, AtWork
<1>3. a # NoAdapter
  BY PoolAssumption
<1>4. caller[r].at \in {"exchange", "recover"}
  BY <1>2, <1>3, Typed DEF CallerSound
<1>5. caller[r].at = "exchange"
  BY <1>2, <1>4 DEF PoolInv, CallersSound, Recovering, AtWork
<1>6. PICK stage \in Stage : Works(r, process[a], delivery[a], stage)
  BY <1>2, <1>5, AtExchange
<1> QED  BY <1>2, <1>5, <1>6 DEF Works

\* A process that reads its pipe for the request that is on its way.
LEMMA AwaitsOne ==
    ASSUME PoolInv, NEW a \in Adapter, NEW r \in Request, caller[r].adapter = a,
           process[a].at = "reading", delivery[a] = "writing"
    PROVE  /\ caller[r].at = "exchange" /\ served[r] = 0
           /\ Piped(r, caller[r], frames[a], "nothing")
<1>1. a # NoAdapter
  BY PoolAssumption
<1>2. caller[r].at \in {"exchange", "recover"}
  BY <1>1, Typed DEF CallerSound
<1>3. caller[r].at = "exchange"
  BY <1>2 DEF PoolInv, CallersSound, Recovering
<1>4. PICK stage \in Stage : /\ Piped(r, caller[r], frames[a], stage)
                             /\ Works(r, process[a], delivery[a], stage)
                             /\ Sent(r, process[a], served[r], stage)
  BY <1>3, AtExchange
<1>5. stage = "nothing"
  BY <1>4 DEF Works
<1> QED  BY <1>3, <1>4, <1>5 DEF Sent

LEMMA ProcessStates ==
    /\ Gone \in ProcessState /\ Gone.at = "gone"
    /\ Reading \in ProcessState /\ Reading.at = "reading"
    /\ \A r \in Request : LET p == [Reading EXCEPT !.at = "accepted", !.request = r]
                           IN  p \in ProcessState /\ p.at = "accepted" /\ p.request = r /\ p.attempt = 0
<1>1. Gone \in ProcessState /\ Gone.at = "gone" /\ Gone.attempt = 0
  BY PoolAssumption DEF ProcessState, Gone
<1>2. Reading \in ProcessState /\ Reading.at = "reading" /\ Reading.attempt = 0
  BY <1>1 DEF ProcessState, Reading
<1>3. ASSUME NEW r \in Request, NEW p, p = [Reading EXCEPT !.at = "accepted", !.request = r]
      PROVE  p \in ProcessState /\ p.at = "accepted" /\ p.request = r /\ p.attempt = 0
  <2>1. PICK q \in ProcessState : q = [Reading EXCEPT !.at = "accepted"]
    BY <1>2 DEF ProcessState
  <2>2. q.at = "accepted" /\ q.attempt = 0
    BY <1>2, <2>1 DEF ProcessState
  <2>3. p = [q EXCEPT !.request = r]
    BY <1>3, <2>1
  <2> QED  BY <2>1, <2>2, <2>3 DEF ProcessState
<1> QED  BY <1>1, <1>2, <1>3

-----------------------------------------------------------------------------
(* What a process writes. *)

LEMMA Single ==
    ASSUME NEW S, NEW e \in S
    PROVE  /\ <<e>> \in Seq(S) /\ Len(<<e>>) = 1 /\ <<e>>[1] = e
           /\ \A f \in Seq(S) : Append(f, e) = f \o <<e>>
<1>1. <<e>> \in Seq(S) /\ Len(<<e>>) = 1 /\ <<e>>[1] = e
  OBVIOUS
<1>2. \A f \in Seq(S) : Append(f, e) = f \o <<e>>
  BY AppendIsConcat
<1> QED  BY <1>1, <1>2

LEMMA WritesOne ==
    ASSUME NEW r \in Request, NEW c, NEW f \in Seq(Frame), NEW stage \in Stage, NEW next \in Stage,
           NEW e \in Frame, Read(c) \in Nat, Piped(r, c, f, stage), Written(next) = Written(stage) + 1,
           \A i \in 1..Written(stage) : FrameAt(r, next, i) = FrameAt(r, stage, i),
           e = FrameAt(r, next, Written(stage) + 1)
    PROVE  /\ Append(f, e) \in Seq(Frame) /\ Piped(r, c, Append(f, e), next)
           /\ Append(f, e) = f \o <<e>>
<1>1. PICK more \in Seq(Frame) : more = <<e>> /\ Len(more) = 1 /\ more[1] = e
  BY Single
<1>2. Written(next) = Written(stage) + Len(more)
  BY <1>1
<1>3. \A i \in 1..Len(more) : more[i] = FrameAt(r, next, Written(stage) + i)
  BY <1>1
<1>4. f \o more \in Seq(Frame) /\ Piped(r, c, f \o more, next)
  BY <1>2, <1>3, PipedMore
<1>5. Append(f, e) = f \o <<e>>
  BY AppendIsConcat
<1> QED  BY <1>1, <1>4, <1>5

LEMMA WritesTwo ==
    ASSUME NEW r \in Request, NEW c, NEW f \in Seq(Frame), NEW stage \in Stage, NEW next \in Stage,
           NEW d \in Frame, NEW e \in Frame, Read(c) \in Nat, Piped(r, c, f, stage),
           Written(next) = Written(stage) + 2,
           \A i \in 1..Written(stage) : FrameAt(r, next, i) = FrameAt(r, stage, i),
           d = FrameAt(r, next, Written(stage) + 1), e = FrameAt(r, next, Written(stage) + 2)
    PROVE  /\ f \o <<d, e>> \in Seq(Frame) /\ Piped(r, c, f \o <<d, e>>, next)
<1>1. PICK more \in Seq(Frame) : more = <<d, e>> /\ Len(more) = 2 /\ more[1] = d /\ more[2] = e
  <2>1. <<d, e>> \in Seq(Frame) /\ Len(<<d, e>>) = 2 /\ <<d, e>>[1] = d /\ <<d, e>>[2] = e
    OBVIOUS
  <2> QED  BY <2>1
<1>2. Written(next) = Written(stage) + Len(more)
  BY <1>1
<1>3. \A i \in 1..Len(more) : more[i] = FrameAt(r, next, Written(stage) + i)
  BY <1>1
<1>4. f \o more \in Seq(Frame) /\ Piped(r, c, f \o more, next)
  BY <1>2, <1>3, PipedMore
<1> QED  BY <1>1, <1>4

LEMMA Pairs ==
    ASSUME NEW f \in Seq(Frame), NEW d \in Frame, NEW e \in Frame
    PROVE  f \o <<d>> \o <<e>> = f \o <<d, e>>
<1>1. PICK more \in Seq(Frame) : more = <<d, e>> /\ Len(more) = 2 /\ more[1] = d /\ more[2] = e
  <2>1. <<d, e>> \in Seq(Frame) /\ Len(<<d, e>>) = 2 /\ <<d, e>>[1] = d /\ <<d, e>>[2] = e
    OBVIOUS
  <2> QED  BY <2>1
<1>5. <<d>> \o <<e>> = <<d, e>>
  <2>1. PICK x \in Seq(Frame) : x = <<d>> /\ Len(x) = 1 /\ x[1] = d
    BY Single
  <2>2. PICK y \in Seq(Frame) : y = <<e>> /\ Len(y) = 1 /\ y[1] = e
    BY Single
  <2>3. x \o y \in Seq(Frame) /\ Len(x \o y) = 2 /\ (x \o y)[1] = d /\ (x \o y)[2] = e
    BY <2>1, <2>2, ConcatProperties
  <2>4. PICK z \in Seq(Frame) : z = x \o y
    BY <2>3
  <2>5. z = more
    <3>1. Len(z) = 2 /\ \A i \in 1..2 : z[i] = more[i]
      BY <1>1, <2>3, <2>4
    <3> QED  BY <1>1, <3>1, SeqEqual
  <2> QED  BY <1>1, <2>1, <2>2, <2>4, <2>5
<1>6. <<d>> \in Seq(Frame) /\ <<e>> \in Seq(Frame)
  OBVIOUS
<1>7. (f \o <<d>>) \o <<e>> = f \o (<<d>> \o <<e>>)
  BY <1>6, ConcatAssociative
<1> QED  BY <1>5, <1>7

Tagged(r, tag, part) == [tag |-> tag, of |-> r, part |-> part]

LEMMA WritesOn ==
    ASSUME NEW r \in Request, NEW c, NEW f \in Seq(Frame), Read(c) \in Nat
    PROVE  /\ Piped(r, c, f, "nothing") =>
                LET g == Append(f, Tagged(r, "accepted", 0))
                IN  g \in Seq(Frame) /\ Piped(r, c, g, "accepted")
           /\ Piped(r, c, f, "nothing") =>
                LET g == f \o <<Tagged(r, "accepted", 0), Tagged(r, "failed", 0)>>
                IN  g \in Seq(Frame) /\ Piped(r, c, g, "refused")
           /\ Piped(r, c, f, "accepted") =>
                LET g == f \o <<Tagged(r, "data", 1)>>
                IN  g \in Seq(Frame) /\ Piped(r, c, g, "head")
           /\ Piped(r, c, f, "accepted") =>
                LET g == Append(f, Tagged(r, "failed", 0))
                IN  g \in Seq(Frame) /\ Piped(r, c, g, "refused")
           /\ Piped(r, c, f, "head") =>
                LET g == Append(f, Tagged(r, "failed", 0))
                IN  g \in Seq(Frame) /\ Piped(r, c, g, "cut")
           /\ Piped(r, c, f, "head") =>
                LET g == f \o <<Tagged(r, "data", 2)>> \o <<Tagged(r, "end", 0)>>
                IN  g \in Seq(Frame) /\ Piped(r, c, g, "whole")
<1>1. /\ Tagged(r, "accepted", 0) \in Frame /\ Tagged(r, "failed", 0) \in Frame /\ Tagged(r, "end", 0) \in Frame
      /\ Tagged(r, "data", 1) \in Frame /\ Tagged(r, "data", 2) \in Frame
  BY DEF Tagged, Frame
<1>2. /\ FrameAt(r, "accepted", 1) = Tagged(r, "accepted", 0) /\ FrameAt(r, "refused", 1) = Tagged(r, "accepted", 0)
      /\ FrameAt(r, "refused", 2) = Tagged(r, "failed", 0) /\ FrameAt(r, "head", 1) = Tagged(r, "accepted", 0)
      /\ FrameAt(r, "head", 2) = Tagged(r, "data", 1) /\ FrameAt(r, "cut", 1) = Tagged(r, "accepted", 0)
      /\ FrameAt(r, "cut", 2) = Tagged(r, "data", 1) /\ FrameAt(r, "cut", 3) = Tagged(r, "failed", 0)
      /\ FrameAt(r, "whole", 1) = Tagged(r, "accepted", 0) /\ FrameAt(r, "whole", 2) = Tagged(r, "data", 1)
      /\ FrameAt(r, "whole", 3) = Tagged(r, "data", 2) /\ FrameAt(r, "whole", 4) = Tagged(r, "end", 0)
  BY DEF FrameAt, Tagged
<1>4. ASSUME Piped(r, c, f, "nothing")
      PROVE  /\ Append(f, Tagged(r, "accepted", 0)) \in Seq(Frame)
             /\ Piped(r, c, Append(f, Tagged(r, "accepted", 0)), "accepted")
  <2>1. /\ Written("accepted") = Written("nothing") + 1
        /\ Tagged(r, "accepted", 0) = FrameAt(r, "accepted", Written("nothing") + 1)
    BY <1>2, StageLengths
  <2>2. \A i \in 1..Written("nothing") : FrameAt(r, "accepted", i) = FrameAt(r, "nothing", i)
    BY <1>2, StageLengths DEF FrameAt
  <2>3. "nothing" \in Stage /\ "accepted" \in Stage
    BY DEF Stage
  <2> QED  BY <1>1, <1>4, <2>1, <2>2, <2>3, WritesOne
<1>5. ASSUME Piped(r, c, f, "nothing")
      PROVE  /\ f \o <<Tagged(r, "accepted", 0), Tagged(r, "failed", 0)>> \in Seq(Frame)
             /\ Piped(r, c, f \o <<Tagged(r, "accepted", 0), Tagged(r, "failed", 0)>>, "refused")
  <2>1. /\ Written("refused") = Written("nothing") + 2
        /\ Tagged(r, "accepted", 0) = FrameAt(r, "refused", Written("nothing") + 1)
        /\ Tagged(r, "failed", 0) = FrameAt(r, "refused", Written("nothing") + 2)
    BY <1>2, StageLengths
  <2>2. \A i \in 1..Written("nothing") : FrameAt(r, "refused", i) = FrameAt(r, "nothing", i)
    BY <1>2, StageLengths DEF FrameAt
  <2>3. "nothing" \in Stage /\ "refused" \in Stage
    BY DEF Stage
  <2> QED  BY <1>1, <1>5, <2>1, <2>2, <2>3, WritesTwo
<1>6. ASSUME Piped(r, c, f, "accepted")
      PROVE  /\ f \o <<Tagged(r, "data", 1)>> \in Seq(Frame)
             /\ Piped(r, c, f \o <<Tagged(r, "data", 1)>>, "head")
  <2>1. /\ Written("head") = Written("accepted") + 1
        /\ Tagged(r, "data", 1) = FrameAt(r, "head", Written("accepted") + 1)
    BY <1>2, StageLengths
  <2>2. \A i \in 1..Written("accepted") : FrameAt(r, "head", i) = FrameAt(r, "accepted", i)
    BY <1>2, StageLengths DEF FrameAt
  <2>3. "accepted" \in Stage /\ "head" \in Stage
    BY DEF Stage
  <2>4. /\ Append(f, Tagged(r, "data", 1)) \in Seq(Frame) /\ Piped(r, c, Append(f, Tagged(r, "data", 1)), "head")
        /\ Append(f, Tagged(r, "data", 1)) = f \o <<Tagged(r, "data", 1)>>
    BY <1>1, <1>6, <2>1, <2>2, <2>3, WritesOne
  <2> QED  BY <2>4
<1>7. ASSUME Piped(r, c, f, "accepted")
      PROVE  /\ Append(f, Tagged(r, "failed", 0)) \in Seq(Frame)
             /\ Piped(r, c, Append(f, Tagged(r, "failed", 0)), "refused")
  <2>1. /\ Written("refused") = Written("accepted") + 1
        /\ Tagged(r, "failed", 0) = FrameAt(r, "refused", Written("accepted") + 1)
    BY <1>2, StageLengths
  <2>2. \A i \in 1..Written("accepted") : FrameAt(r, "refused", i) = FrameAt(r, "accepted", i)
    BY <1>2, StageLengths DEF FrameAt
  <2>3. "accepted" \in Stage /\ "refused" \in Stage
    BY DEF Stage
  <2> QED  BY <1>1, <1>7, <2>1, <2>2, <2>3, WritesOne
<1>8. ASSUME Piped(r, c, f, "head")
      PROVE  /\ Append(f, Tagged(r, "failed", 0)) \in Seq(Frame)
             /\ Piped(r, c, Append(f, Tagged(r, "failed", 0)), "cut")
  <2>1. /\ Written("cut") = Written("head") + 1
        /\ Tagged(r, "failed", 0) = FrameAt(r, "cut", Written("head") + 1)
    BY <1>2, StageLengths
  <2>2. \A i \in 1..Written("head") : FrameAt(r, "cut", i) = FrameAt(r, "head", i)
    BY <1>2, StageLengths DEF FrameAt
  <2>3. "head" \in Stage /\ "cut" \in Stage
    BY DEF Stage
  <2> QED  BY <1>1, <1>8, <2>1, <2>2, <2>3, WritesOne
<1>9. ASSUME Piped(r, c, f, "head")
      PROVE  /\ f \o <<Tagged(r, "data", 2)>> \o <<Tagged(r, "end", 0)>> \in Seq(Frame)
             /\ Piped(r, c, f \o <<Tagged(r, "data", 2)>> \o <<Tagged(r, "end", 0)>>, "whole")
  <2>1. /\ Written("whole") = Written("head") + 2
        /\ Tagged(r, "data", 2) = FrameAt(r, "whole", Written("head") + 1)
        /\ Tagged(r, "end", 0) = FrameAt(r, "whole", Written("head") + 2)
    BY <1>2, StageLengths
  <2>2. \A i \in 1..Written("head") : FrameAt(r, "whole", i) = FrameAt(r, "head", i)
    BY <1>2, StageLengths DEF FrameAt
  <2>3. "head" \in Stage /\ "whole" \in Stage
    BY DEF Stage
  <2>4. /\ f \o <<Tagged(r, "data", 2), Tagged(r, "end", 0)>> \in Seq(Frame) /\ Piped(r, c, f \o <<Tagged(r, "data", 2), Tagged(r, "end", 0)>>, "whole")
        /\ f \o <<Tagged(r, "data", 2)>> \o <<Tagged(r, "end", 0)>> = f \o <<Tagged(r, "data", 2), Tagged(r, "end", 0)>>
    <3>1. PICK d \in Frame, e \in Frame : d = Tagged(r, "data", 2) /\ e = Tagged(r, "end", 0)
      BY <1>1
    <3>2. d = FrameAt(r, "whole", Written("head") + 1) /\ e = FrameAt(r, "whole", Written("head") + 2)
      BY <2>1, <3>1
    <3>3. Written("whole") = Written("head") + 2
      BY <2>1
    <3>4. PICK next \in Stage, stage \in Stage : next = "whole" /\ stage = "head"
      BY <2>3
    <3>5. /\ f \o <<d, e>> \in Seq(Frame) /\ Piped(r, c, f \o <<d, e>>, next)
          /\ f \o <<d>> \o <<e>> = f \o <<d, e>>
      <4>1. /\ Piped(r, c, f, stage) /\ Written(next) = Written(stage) + 2
            /\ \A i \in 1..Written(stage) : FrameAt(r, next, i) = FrameAt(r, stage, i)
            /\ d = FrameAt(r, next, Written(stage) + 1) /\ e = FrameAt(r, next, Written(stage) + 2)
        BY <1>9, <2>2, <3>2, <3>3, <3>4
      <4> QED  BY <4>1, WritesTwo, Pairs
    <3> QED  BY <3>1, <3>4, <3>5
  <2> QED  BY <2>4
<1> QED  BY <1>4, <1>5, <1>6, <1>7, <1>8, <1>9

-----------------------------------------------------------------------------
(* The steps of a process. *)

LEMMA ServingMoves ==
    ASSUME PoolInv, NEW r \in Request, NEW a \in Adapter, caller[r].adapter = a, caller[r].at = "exchange",
           NEW p \in ProcessState, NEW d \in Deliveries, NEW f \in Seq(Frame), NEW l \in Link, NEW n \in Nat,
           NEW stage \in Stage, Piped(r, caller[r], f, stage), Works(r, p, d, stage), Sent(r, p, n, stage),
           n <= Limit(r), LinkSound(p, l), UNCHANGED <<idle, caller>>, broken' \in 0..MaxBroken,
           process' = [process EXCEPT ![a] = p], delivery' = [delivery EXCEPT ![a] = d],
           frames' = [frames EXCEPT ![a] = f], link' = [link EXCEPT ![a] = l],
           served' = [served EXCEPT ![r] = n]
    PROVE  PoolInv'
<1>1. Exchanging(r, caller[r], p, d, f, n)
  BY DEF Exchanging
<1>2. /\ caller[r].at = "exchange" => Exchanging(r, caller[r], p, d, f, n)
      /\ caller[r].at = "recover" => n = served[r] /\ Recovering(p, d, f)
  BY <1>1
<1> QED  BY <1>2, ProcessMoves

\* What it leaves alone, in the form of a step that writes it.
LEMMA Same ==
    ASSUME PoolInv, NEW r \in Request, NEW a \in Adapter
    PROVE  /\ UNCHANGED process => process' = [process EXCEPT ![a] = process[a]]
           /\ UNCHANGED delivery => delivery' = [delivery EXCEPT ![a] = delivery[a]]
           /\ UNCHANGED frames => frames' = [frames EXCEPT ![a] = frames[a]]
           /\ UNCHANGED link => link' = [link EXCEPT ![a] = link[a]]
           /\ UNCHANGED served => served' = [served EXCEPT ![r] = served[r]]
           /\ UNCHANGED broken => broken' \in 0..MaxBroken
           /\ served[r] <= Limit(r)
BY PoolTypes DEF PoolInv, CallersSound, CallerSound

LEMMA AtServing ==
    ASSUME PoolInv, NEW a \in Adapter, process[a].at \in AtWork
    PROVE  \E r \in Request :
              /\ caller[r].at = "exchange" /\ caller[r].adapter = a /\ process[a].request = r
              /\ delivery[a] = "written"
              /\ process[a].at \in {"accepted", "head"} =>
                    /\ Piped(r, caller[r], frames[a], "accepted")
                    /\ process[a].attempt > 0 => r \in Safe
              /\ process[a].at = "accepted" => served[r] <= process[a].attempt
              /\ process[a].at = "head" => served[r] <= process[a].attempt + 1
              /\ process[a].at = "rest" => Piped(r, caller[r], frames[a], "head")
<1>1. PICK r \in Request : caller[r].at = "exchange" /\ caller[r].adapter = a /\ process[a].request = r
  BY ServesOne
<1>2. PICK stage \in Stage : /\ Piped(r, caller[r], frames[a], stage)
                             /\ Works(r, process[a], delivery[a], stage)
                             /\ Sent(r, process[a], served[r], stage)
  BY <1>1, AtExchange
<1> QED  BY <1>1, <1>2 DEF Works, Sent, AtWork

LEMMA AcceptSteps ==
    ASSUME PoolInv, NEW a \in Adapter, Accept(a)
    PROVE  PoolInv'
<1>1. PICK r \in Request :
         /\ process[a].at = "reading" /\ caller[r].adapter = a /\ delivery[a] = "writing"
         /\ process' = [process EXCEPT ![a] = [Reading EXCEPT !.at = "accepted", !.request = r]]
         /\ delivery' = [delivery EXCEPT ![a] = "written"]
         /\ frames' = [frames EXCEPT ![a] = Append(@, [tag |-> "accepted", of |-> r, part |-> 0])]
         /\ UNCHANGED <<idle, caller, link, served, broken>>
  BY DEF Accept
<1>2. /\ caller[r].at = "exchange" /\ served[r] = 0 /\ a # NoAdapter
      /\ Piped(r, caller[r], frames[a], "nothing")
  BY <1>1, AwaitsOne, PoolAssumption
<1>3. PICK p : p = [Reading EXCEPT !.at = "accepted", !.request = r]
  OBVIOUS
<1>4. p \in ProcessState /\ p.at = "accepted" /\ p.request = r /\ p.attempt = 0
  BY <1>3, ProcessStates
<1>5. PICK f \in Seq(Frame) : f = Append(frames[a], Tagged(r, "accepted", 0)) /\ Piped(r, caller[r], f, "accepted")
  BY <1>2, Typed, WritesOn
<1>6. Works(r, p, "written", "accepted") /\ Sent(r, p, served[r], "accepted")
  BY <1>2, <1>4 DEF Works, Sent, AtWork
<1>7. LinkSound(p, link[a])
  BY <1>1, <1>4, Typed DEF LinkSound
<1>8. frames' = [frames EXCEPT ![a] = f] /\ process' = [process EXCEPT ![a] = p]
  BY <1>1, <1>3, <1>5 DEF Tagged
<1>9. "written" \in Deliveries /\ "accepted" \in Stage
  BY DEF Deliveries, Stage
<1>10. UNCHANGED <<idle, caller>>
  BY <1>1
<1>11. /\ link' = [link EXCEPT ![a] = link[a]] /\ served' = [served EXCEPT ![r] = served[r]]
       /\ broken' \in 0..MaxBroken /\ served[r] <= Limit(r) /\ link[a] \in Link /\ served[r] \in Nat
       /\ delivery' = [delivery EXCEPT ![a] = "written"]
  BY <1>1, Same, Typed
<1>12. PICK l \in Link : l = link[a]
  BY <1>11
<1>13. LinkSound(p, l) /\ link' = [link EXCEPT ![a] = l]
  BY <1>7, <1>11, <1>12
<1>14. caller[r].adapter = a
  BY <1>1
<1> QED  BY ONLY PoolInv, <1>2, <1>4, <1>5, <1>6, <1>8, <1>9, <1>10, <1>11, <1>13, <1>14, ServingMoves

\* The process ends by itself.
LEMMA EndsTo ==
    ASSUME NEW a \in Adapter, Ends(a)
    PROVE  \E d : /\ (delivery[a] # "writing" /\ d = delivery[a]) \/ (delivery[a] = "writing" /\ d \in {"written", "broken"})
                  /\ delivery' = [delivery EXCEPT ![a] = d]
                  /\ process' = [process EXCEPT ![a] = Gone]
                  /\ link' = [link EXCEPT ![a] = NoLink]
<1>1. PICK d \in (IF delivery[a] = "writing" THEN {"written", "broken"} ELSE {delivery[a]}) :
         delivery' = [delivery EXCEPT ![a] = d]
  BY DEF Ends
<1>2. (delivery[a] # "writing" /\ d = delivery[a]) \/ (delivery[a] = "writing" /\ d \in {"written", "broken"})
  OBVIOUS
<1>3. process' = [process EXCEPT ![a] = Gone] /\ link' = [link EXCEPT ![a] = NoLink]
  BY DEF Ends
<1> QED  BY <1>1, <1>2, <1>3

LEMMA GoneSound == LinkSound(Gone, NoLink) /\ NoLink \in Link /\ Gone \in ProcessState /\ Gone.at = "gone"
<1>1. <<>> \in Seq(Part)
  OBVIOUS
<1> QED  BY <1>1, ProcessStates DEF LinkSound, NoLink, Link, Gone

LEMMA RefuseSteps ==
    ASSUME PoolInv, NEW a \in Adapter, Refuse(a)
    PROVE  PoolInv'
<1>1. PICK r \in Request :
         /\ process[a].at = "reading" /\ caller[r].adapter = a /\ delivery[a] = "writing"
         /\ Refusal(a, r) /\ Ends(a)
         /\ UNCHANGED <<idle, caller, served, broken>>
  BY DEF Refuse
<1>2. /\ caller[r].at = "exchange" /\ served[r] = 0
      /\ Piped(r, caller[r], frames[a], "nothing")
  BY <1>1, AwaitsOne
<1>3. PICK d \in {"written", "broken"} : /\ delivery' = [delivery EXCEPT ![a] = d]
                                         /\ process' = [process EXCEPT ![a] = Gone]
                                         /\ link' = [link EXCEPT ![a] = NoLink]
  BY <1>1 DEF Ends
<1>4. PICK f \in Seq(Frame) : /\ f = frames[a] \o <<Tagged(r, "accepted", 0), Tagged(r, "failed", 0)>>
                              /\ Piped(r, caller[r], f, "refused")
  BY <1>2, Typed, WritesOn
<1>5. frames' = [frames EXCEPT ![a] = f]
  BY <1>1, <1>4 DEF Refusal, Tagged
<1>6. Works(r, Gone, d, "refused") /\ Sent(r, Gone, served[r], "refused")
  BY GoneSound DEF Works, Sent, AtWork
<1>7. d \in Deliveries /\ "refused" \in Stage
  BY DEF Deliveries, Stage
<1>8. UNCHANGED <<idle, caller>>
  BY <1>1
<1> QED  BY <1>1, <1>2, <1>3, <1>4, <1>5, <1>6, <1>7, <1>8, GoneSound, Same, Typed, ServingMoves

LEMMA IdleExitSteps ==
    ASSUME PoolInv, NEW a \in Adapter, IdleExit(a)
    PROVE  PoolInv'
<1>1. process[a].at = "reading" /\ Ends(a) /\ UNCHANGED <<idle, caller, frames, served, broken>>
  BY DEF IdleExit
<1>2. PICK d : /\ (delivery[a] # "writing" /\ d = delivery[a]) \/ (delivery[a] = "writing" /\ d \in {"written", "broken"})
               /\ delivery' = [delivery EXCEPT ![a] = d]
               /\ process' = [process EXCEPT ![a] = Gone]
               /\ link' = [link EXCEPT ![a] = NoLink]
  BY <1>1, EndsTo
<1>3. CASE Holds(idle, a)
  <2>1. delivery[a] = "none" /\ delivery \in [Adapter -> Deliveries]
    BY <1>3, PoolTypes DEF PoolInv, AdaptersSound, IdleSound
  <2>2. UNCHANGED <<idle, caller, delivery, frames, served, broken>>
    BY <1>1, <1>2, <2>1
  <2>3. NoLink.owed = <<>>
    BY DEF NoLink
  <2> QED  BY <1>2, <1>3, <2>2, <2>3, GoneSound, IdleMoves
<1>4. CASE ~Holds(idle, a)
  <2>1. PICK r \in Request : caller[r].adapter = a
    BY <1>1, <1>4 DEF PoolInv, Owned
  <2>2. /\ frames' = [frames EXCEPT ![a] = frames[a]] /\ served' = [served EXCEPT ![r] = served[r]]
        /\ broken' \in 0..MaxBroken /\ served[r] <= Limit(r) /\ served[r] \in Nat
        /\ frames[a] \in Seq(Frame)
    BY <1>1, Same, Typed
  <2>3. d \in Deliveries
    BY <1>2, Typed, <2>1 DEF Deliveries
  <2>4. caller[r].at = "exchange" => Exchanging(r, caller[r], Gone, d, frames[a], served[r])
    <3> SUFFICES ASSUME caller[r].at = "exchange"
                 PROVE  Exchanging(r, caller[r], Gone, d, frames[a], served[r])
      OBVIOUS
    <3>1. PICK stage \in Stage : /\ Piped(r, caller[r], frames[a], stage)
                                 /\ Works(r, process[a], delivery[a], stage)
                                 /\ Sent(r, process[a], served[r], stage)
      BY <2>1, AtExchange
    <3>2. d \in {"written", "broken"}
      <4>1. delivery[a] \in {"writing", "written"}
        BY <1>1, <3>1 DEF Works
      <4> QED  BY <1>2, <4>1
    <3>3. Works(r, Gone, d, stage) /\ Sent(r, Gone, served[r], stage)
      BY <3>1, <3>2, GoneSound DEF Works, Sent, AtWork
    <3> QED  BY <3>1, <3>3 DEF Exchanging
  <2>5. caller[r].at = "recover" => served[r] = served[r] /\ Recovering(Gone, d, frames[a])
    BY <1>1, <1>2, <2>1, GoneSound DEF PoolInv, CallersSound, Recovering
  <2>6. PICK f \in Seq(Frame), n \in Nat : f = frames[a] /\ n = served[r]
    BY <2>2
  <2>7. /\ caller[r].at = "exchange" => Exchanging(r, caller[r], Gone, d, f, n)
        /\ caller[r].at = "recover" => n = served[r] /\ Recovering(Gone, d, f)
        /\ frames' = [frames EXCEPT ![a] = f] /\ served' = [served EXCEPT ![r] = n]
        /\ n <= Limit(r)
    BY <2>2, <2>4, <2>5, <2>6
  <2>8. UNCHANGED <<idle, caller>>
    BY <1>1
  <2> QED  BY <1>2, <2>1, <2>2, <2>3, <2>7, <2>8, GoneSound, ProcessMoves
<1> QED  BY <1>3, <1>4

LEMMA BreaksSteps ==
    ASSUME PoolInv, NEW a \in Adapter, Breaks(a)
    PROVE  PoolInv'
<1>1. /\ process[a].at \in AtWork /\ broken < MaxBroken /\ broken' = broken + 1 /\ Ends(a)
      /\ UNCHANGED <<idle, caller, frames, served>>
  BY DEF Breaks, AtWork
<1>2. PICK r \in Request : caller[r].at = "exchange" /\ caller[r].adapter = a /\ delivery[a] = "written"
  BY <1>1, AtServing
<1>3. PICK stage \in Stage : /\ Piped(r, caller[r], frames[a], stage)
                             /\ Sent(r, process[a], served[r], stage)
  BY <1>2, AtExchange
<1>4. /\ delivery' = [delivery EXCEPT ![a] = "written"] /\ process' = [process EXCEPT ![a] = Gone]
      /\ link' = [link EXCEPT ![a] = NoLink]
  BY <1>1, <1>2, EndsTo
<1>5. Works(r, Gone, "written", stage) /\ Sent(r, Gone, served[r], stage)
  BY <1>3, GoneSound DEF Works, Sent, AtWork
<1>6. /\ frames' = [frames EXCEPT ![a] = frames[a]] /\ served' = [served EXCEPT ![r] = served[r]]
      /\ served[r] <= Limit(r) /\ served[r] \in Nat /\ frames[a] \in Seq(Frame) /\ broken' \in 0..MaxBroken
      /\ "written" \in Deliveries
  BY <1>1, Same, Typed, PoolAssumption DEF Deliveries
<1>7. PICK f \in Seq(Frame), n \in Nat : f = frames[a] /\ n = served[r]
  BY <1>6
<1>8. /\ Piped(r, caller[r], f, stage) /\ Works(r, Gone, "written", stage) /\ Sent(r, Gone, n, stage)
      /\ frames' = [frames EXCEPT ![a] = f] /\ served' = [served EXCEPT ![r] = n] /\ n <= Limit(r)
  BY <1>3, <1>5, <1>6, <1>7
<1>9. UNCHANGED <<idle, caller>>
  BY <1>1
<1> QED  BY <1>2, <1>4, <1>6, <1>8, <1>9, GoneSound, ServingMoves

\* The process reports a failure and reads again.
LEMMA FailsSteps ==
    ASSUME PoolInv, NEW a \in Adapter, process[a].at \in AtWork, Fails(a),
           link' = [link EXCEPT ![a] = NoLink], UNCHANGED <<idle, caller, delivery, served>>,
           broken' \in 0..MaxBroken
    PROVE  PoolInv'
<1>1. PICK r \in Request :
         /\ caller[r].at = "exchange" /\ caller[r].adapter = a /\ process[a].request = r
         /\ delivery[a] = "written"
         /\ process[a].at \in {"accepted", "head"} => Piped(r, caller[r], frames[a], "accepted")
         /\ process[a].at = "rest" => Piped(r, caller[r], frames[a], "head")
  BY AtServing
<1>2. PICK f \in Seq(Frame), stage \in {"refused", "cut"} :
         f = Append(frames[a], Tagged(r, "failed", 0)) /\ Piped(r, caller[r], f, stage)
  BY <1>1, Typed, WritesOn DEF AtWork
<1>3. frames' = [frames EXCEPT ![a] = f] /\ process' = [process EXCEPT ![a] = Reading]
  BY <1>1, <1>2 DEF Fails, WriteFrame, Tagged
<1>4. Works(r, Reading, "written", stage) /\ Sent(r, Reading, served[r], stage) /\ stage \in Stage
  BY ProcessStates DEF Works, Sent, AtWork, Stage
<1>5. /\ served' = [served EXCEPT ![r] = served[r]] /\ delivery' = [delivery EXCEPT ![a] = "written"]
      /\ served[r] <= Limit(r) /\ served[r] \in Nat /\ "written" \in Deliveries
  BY <1>1, Same, Typed DEF Deliveries
<1>6. LinkSound(Reading, NoLink)
  BY ProcessStates DEF LinkSound, NoLink
<1>7. PICK n \in Nat : n = served[r]
  BY <1>5
<1>8. /\ Works(r, Reading, "written", stage) /\ Sent(r, Reading, n, stage)
      /\ served' = [served EXCEPT ![r] = n] /\ n <= Limit(r)
  BY <1>4, <1>5, <1>7
<1> QED  BY <1>1, <1>2, <1>3, <1>4, <1>5, <1>6, <1>8, GoneSound, ProcessStates, ServingMoves

LEMMA ConnectFailsSteps ==
    ASSUME PoolInv, NEW a \in Adapter, ConnectFails(a)
    PROVE  PoolInv'
<1>1. /\ process[a].at \in AtWork /\ Fails(a) /\ link' = [link EXCEPT ![a] = NoLink]
      /\ UNCHANGED <<idle, caller, delivery, served>> /\ broken < MaxBroken /\ broken' = broken + 1
  BY DEF ConnectFails, AtWork
<1>2. broken' \in 0..MaxBroken
  BY <1>1, PoolTypes, PoolAssumption DEF PoolInv
<1> QED  BY <1>1, <1>2, FailsSteps

LEMMA NoRestSteps ==
    ASSUME PoolInv, NEW a \in Adapter, NoRest(a)
    PROVE  PoolInv'
BY FailsSteps, PoolTypes DEF NoRest, AtWork, PoolInv

LEMMA ConnectSteps ==
    ASSUME PoolInv, NEW a \in Adapter, Connect(a)
    PROVE  PoolInv'
<1>1. PICK r \in Request :
         /\ caller[r].at = "exchange" /\ caller[r].adapter = a /\ process[a].request = r
         /\ delivery[a] = "written" /\ Piped(r, caller[r], frames[a], "accepted")
         /\ process[a].attempt > 0 => r \in Safe
         /\ served[r] <= process[a].attempt
  BY AtServing DEF Connect, AtWork
<1>2. process[a].at = "accepted" /\ process[a] \in ProcessState /\ link[a] \in Link /\ link[a].owed = <<>>
  BY <1>1, Typed DEF Connect, LinkSound
<1>3a. PICK reused \in BOOLEAN :
         /\ process' = [process EXCEPT ![a] = [@ EXCEPT !.at = "head", !.reused = reused]]
         /\ link' = [link EXCEPT ![a].owed = @ \o AnswerTo(r)] \/ link' = [link EXCEPT ![a] = [open |-> TRUE, owed |-> AnswerTo(r)]]
         /\ served' = [served EXCEPT ![r] = @ + 1]
         /\ UNCHANGED <<idle, caller, delivery, frames, broken>>
  BY <1>1 DEF Connect
<1>3b. PICK p : p = [process[a] EXCEPT !.at = "head", !.reused = reused]
  OBVIOUS
<1>3c. PICK l : /\ l = [link[a] EXCEPT !.owed = @ \o AnswerTo(r)] \/ l = [open |-> TRUE, owed |-> AnswerTo(r)]
                /\ link' = [link EXCEPT ![a] = l]
  BY <1>3a
<1>3. /\ l = [link[a] EXCEPT !.owed = @ \o AnswerTo(r)] \/ l = [open |-> TRUE, owed |-> AnswerTo(r)]
      /\ p = [process[a] EXCEPT !.at = "head", !.reused = reused]
      /\ process' = [process EXCEPT ![a] = p] /\ link' = [link EXCEPT ![a] = l]
      /\ served' = [served EXCEPT ![r] = @ + 1]
      /\ UNCHANGED <<idle, caller, delivery, frames, broken>>
  BY <1>3a, <1>3b, <1>3c
<1>4. PICK q \in ProcessState : q = process[a]
  BY <1>2
<1>5. p = [q EXCEPT !.at = "head", !.reused = reused]
  BY <1>3, <1>4
<1>6. p \in ProcessState /\ p.at = "head" /\ p.request = r /\ p.attempt = q.attempt
  BY <1>1, <1>4, <1>5 DEF ProcessState
<1>7. AnswerTo(r) \in Seq(Part)
  BY DEF AnswerTo, Part
<1>8. l \in Link /\ l.owed = AnswerTo(r)
  <2>1. <<>> \o AnswerTo(r) = AnswerTo(r)
    BY <1>7, ConcatEmptySeq
  <2>2. PICK k \in Link : k = link[a] /\ k.owed = <<>>
    BY <1>2
  <2>3. l = [k EXCEPT !.owed = AnswerTo(r)] \/ l = [open |-> TRUE, owed |-> AnswerTo(r)]
    BY <1>3, <2>1, <2>2
  <2>4. CASE l = [k EXCEPT !.owed = AnswerTo(r)]
    BY <1>7, <2>2, <2>4 DEF Link
  <2>5. CASE l = [open |-> TRUE, owed |-> AnswerTo(r)]
    BY <1>7, <2>5 DEF Link
  <2> QED  BY <2>3, <2>4, <2>5
<1>9. LinkSound(p, l)
  BY <1>6, <1>8 DEF LinkSound
<1>10. PICK n \in Nat : n = served[r] + 1
  BY Typed
<1>11. n <= Limit(r) /\ n <= p.attempt + 1
  <2>1. q.attempt \in 0..StaleRetries /\ served[r] <= q.attempt /\ (q.attempt > 0 => r \in Safe) /\ served[r] \in Nat
    BY <1>1, <1>4, Typed DEF ProcessState
  <2> QED  BY <1>6, <1>10, <2>1, PoolAssumption DEF Limit
<1>12. Works(r, p, "written", "accepted") /\ Sent(r, p, n, "accepted")
  BY <1>1, <1>4, <1>6, <1>11 DEF Works, Sent, AtWork
<1>13. /\ frames' = [frames EXCEPT ![a] = frames[a]] /\ served' = [served EXCEPT ![r] = n]
       /\ delivery' = [delivery EXCEPT ![a] = "written"] /\ broken' \in 0..MaxBroken
       /\ frames[a] \in Seq(Frame) /\ "written" \in Deliveries /\ "accepted" \in Stage
  BY <1>1, <1>3, <1>10, Same, Typed DEF Deliveries, Stage
<1>14. PICK f \in Seq(Frame) : f = frames[a]
  BY <1>13
<1>15. frames' = [frames EXCEPT ![a] = f] /\ Piped(r, caller[r], f, "accepted") /\ UNCHANGED <<idle, caller>>
  BY <1>1, <1>3, <1>13, <1>14
<1> QED  BY <1>1, <1>3, <1>6, <1>8, <1>9, <1>11, <1>12, <1>13, <1>15, ServingMoves

LEMMA AnswerParts ==
    ASSUME NEW r \in Request
    PROVE  /\ AnswerTo(r) # <<>> /\ Head(AnswerTo(r)) = [of |-> r, part |-> 1]
           /\ Tail(AnswerTo(r)) = <<[of |-> r, part |-> 2]>>
           /\ Head(<<[of |-> r, part |-> 2]>>) = [of |-> r, part |-> 2]
           /\ Tail(<<[of |-> r, part |-> 2]>>) = <<>>
           /\ <<[of |-> r, part |-> 2]>> \in Seq(Part)
<1> DEFINE one == [of |-> r, part |-> 1]
           two == [of |-> r, part |-> 2]
<1>1. one \in Part /\ two \in Part
  BY DEF Part
<1>2. AnswerTo(r) = <<one, two>>
  BY DEF AnswerTo
<1> HIDE DEF one, two
<1>3. <<one, two>> # <<>> /\ Head(<<one, two>>) = one /\ Tail(<<one, two>>) = <<two>>
      /\ Head(<<two>>) = two /\ Tail(<<two>>) = <<>> /\ <<two>> \in Seq(Part)
  BY <1>1
<1> QED  BY <1>2, <1>3 DEF one, two

LEMMA ReadHeadSteps ==
    ASSUME PoolInv, NEW a \in Adapter, ReadHead(a)
    PROVE  PoolInv'
<1>1. PICK r \in Request :
         /\ caller[r].at = "exchange" /\ caller[r].adapter = a /\ process[a].request = r
         /\ delivery[a] = "written" /\ Piped(r, caller[r], frames[a], "accepted")
  BY AtServing DEF ReadHead, AtWork
<1>2. /\ process[a].at = "head" /\ process[a] \in ProcessState /\ link[a] \in Link
      /\ link[a].owed = AnswerTo(r)
  BY <1>1, Typed DEF ReadHead, LinkSound
<1>3a. PICK q \in ProcessState : q = process[a]
  BY <1>2
<1>3. PICK p : q = process[a] /\ p = [q EXCEPT !.at = "rest", !.reused = FALSE, !.attempt = 0]
  BY <1>3a
<1>4. p \in ProcessState /\ p.at = "rest" /\ p.request = r
  <2>1. PICK q1 : q1 = [q EXCEPT !.at = "rest"]
    OBVIOUS
  <2>11. q1 \in ProcessState /\ q1.at = "rest" /\ q1.request = q.request
    BY <2>1 DEF ProcessState
  <2>2. PICK q2 : q2 = [q1 EXCEPT !.reused = FALSE]
    OBVIOUS
  <2>21. q2 \in ProcessState /\ q2.at = "rest" /\ q2.request = q.request
    BY <2>11, <2>2 DEF ProcessState
  <2>3. p = [q2 EXCEPT !.attempt = 0]
    BY <1>3, <2>1, <2>2
  <2>4. 0 \in 0..StaleRetries
    BY PoolAssumption
  <2>5. p \in ProcessState /\ p.at = "rest" /\ p.request = q.request
    BY <2>21, <2>3, <2>4 DEF ProcessState
  <2> QED  BY <1>1, <1>3, <2>5
<1>5a. PICK k \in Link : k = link[a]
  BY <1>2
<1>5. PICK l : k = link[a] /\ l = [k EXCEPT !.owed = Tail(AnswerTo(r))]
  BY <1>5a
<1>6. l \in Link /\ l.owed = <<[of |-> r, part |-> 2]>>
  BY <1>5, AnswerParts DEF Link
<1>7. LinkSound(p, l)
  BY <1>4, <1>6 DEF LinkSound
<1>8. PICK f \in Seq(Frame) : f = frames[a] \o <<Tagged(r, "data", 1)>> /\ Piped(r, caller[r], f, "head")
  BY <1>1, Typed, WritesOn
<1>9. frames' = [frames EXCEPT ![a] = f]
  <2>1. Head(link[a].owed) = [of |-> r, part |-> 1]
    BY <1>2, AnswerParts
  <2>2. frames' = [frames EXCEPT ![a] = frames[a] \o <<Tagged(r, "data", 1)>> \o <<>>]
    <3>1. [tag |-> "data", of |-> Head(link[a].owed).of, part |-> Head(link[a].owed).part] = Tagged(r, "data", 1)
      BY <2>1 DEF Tagged
    <3> QED  BY <3>1 DEF ReadHead, WriteData
  <2>3. f \o <<>> = f
    BY ConcatEmptySeq
  <2> QED  BY <1>8, <2>2, <2>3
<1>10. /\ process' = [process EXCEPT ![a] = p] /\ link' = [link EXCEPT ![a] = l]
       /\ UNCHANGED <<idle, caller, delivery, served, broken>>
  BY <1>2, <1>3, <1>5 DEF ReadHead
<1>11. PICK n \in Nat : n = served[r] /\ n <= Limit(r)
  BY Same, Typed
<1>12. /\ served' = [served EXCEPT ![r] = n] /\ delivery' = [delivery EXCEPT ![a] = "written"]
       /\ broken' \in 0..MaxBroken /\ "written" \in Deliveries /\ "head" \in Stage
  BY <1>1, <1>10, <1>11, Same DEF Deliveries, Stage
<1>13. Works(r, p, "written", "head") /\ Sent(r, p, n, "head")
  BY <1>4 DEF Works, Sent, AtWork
<1>14. UNCHANGED <<idle, caller>>
  BY <1>10
<1> QED  BY <1>1, <1>4, <1>6, <1>7, <1>8, <1>9, <1>10, <1>11, <1>12, <1>13, <1>14, ServingMoves

LEMMA NoHeadSteps ==
    ASSUME PoolInv, NEW a \in Adapter, NoHead(a)
    PROVE  PoolInv'
<1>1. /\ process[a].at = "head" /\ process[a].at \in AtWork /\ link' = [link EXCEPT ![a] = NoLink]
      /\ UNCHANGED <<idle, caller, delivery, served, broken>>
  BY DEF NoHead, AfterNoHead, AtWork
<1>2. broken' \in 0..MaxBroken
  BY <1>1, PoolTypes DEF PoolInv
<1>3. CASE ~Repeats(a)
  BY <1>1, <1>2, <1>3, FailsSteps DEF NoHead
<1>4. CASE Repeats(a)
  <2>1. PICK r \in Request :
           /\ caller[r].at = "exchange" /\ caller[r].adapter = a /\ process[a].request = r
           /\ delivery[a] = "written" /\ Piped(r, caller[r], frames[a], "accepted")
           /\ served[r] <= process[a].attempt + 1
    BY <1>1, AtServing
  <2>2a. PICK p : /\ p = [process[a] EXCEPT !.at = "accepted", !.attempt = @ + 1]
                  /\ process' = [process EXCEPT ![a] = p] /\ UNCHANGED frames
    BY <1>4 DEF NoHead
  <2>2b. PICK q \in ProcessState : q = process[a]
    BY <2>1, Typed
  <2>2. q = process[a] /\ p = [q EXCEPT !.at = "accepted", !.attempt = q.attempt + 1]
    BY <2>2a, <2>2b
  <2>3. r \in Safe /\ q.attempt \in 0..StaleRetries /\ q.attempt + 1 \in 0..StaleRetries
    BY <1>4, <2>1, <2>2, PoolAssumption DEF Repeats, ProcessState
  <2>4. p \in ProcessState /\ p.at = "accepted" /\ p.request = r /\ p.attempt = q.attempt + 1
    BY <2>1, <2>2, <2>3 DEF ProcessState
  <2>5. PICK f \in Seq(Frame), n \in Nat : f = frames[a] /\ n = served[r] /\ n <= Limit(r)
    BY Same, Typed
  <2>6. process' = [process EXCEPT ![a] = p] /\ UNCHANGED frames
    BY <2>2a
  <2>7. /\ frames' = [frames EXCEPT ![a] = f] /\ served' = [served EXCEPT ![r] = n]
        /\ delivery' = [delivery EXCEPT ![a] = "written"] /\ Piped(r, caller[r], f, "accepted")
        /\ UNCHANGED <<idle, caller>>
    BY <1>1, <2>1, <2>5, <2>6, Same
  <2>8. Works(r, p, "written", "accepted") /\ Sent(r, p, n, "accepted")
    BY <2>1, <2>2, <2>3, <2>4, <2>5 DEF Works, Sent, AtWork
  <2>9. LinkSound(p, NoLink) /\ "written" \in Deliveries /\ "accepted" \in Stage
    BY <2>4 DEF LinkSound, NoLink, Deliveries, Stage
  <2> QED  BY <1>1, <1>2, <2>1, <2>4, <2>5, <2>6, <2>7, <2>8, <2>9, GoneSound, ServingMoves
<1> QED  BY <1>3, <1>4

LEMMA ReadRestSteps ==
    ASSUME PoolInv, NEW a \in Adapter, ReadRest(a)
    PROVE  PoolInv'
<1>1. PICK r \in Request :
         /\ caller[r].at = "exchange" /\ caller[r].adapter = a /\ process[a].request = r
         /\ delivery[a] = "written" /\ Piped(r, caller[r], frames[a], "head")
  BY AtServing DEF ReadRest, AtWork
<1>2. /\ process[a].at = "rest" /\ link[a] \in Link
      /\ link[a].owed = <<[of |-> r, part |-> 2]>>
  BY <1>1, Typed DEF ReadRest, LinkSound
<1>3. PICK k \in Link : k = link[a]
  BY <1>2
<1>4. PICK l \in Link : l.owed = <<>> /\ link' = [link EXCEPT ![a] = l]
  <2>1. CASE link' = [link EXCEPT ![a].owed = Tail(@)]
    <3>1. PICK l : l = [k EXCEPT !.owed = <<>>]
      OBVIOUS
    <3>2. l \in Link /\ l.owed = <<>>
      <4>1. <<>> \in Seq(Part)
        OBVIOUS
      <4> QED  BY <3>1, <4>1 DEF Link
    <3>3. link' = [link EXCEPT ![a] = l]
      BY <1>2, <1>3, <2>1, <3>1, AnswerParts
    <3> QED  BY <3>2, <3>3
  <2>2. CASE link' = [link EXCEPT ![a] = NoLink]
    BY <2>2, GoneSound DEF NoLink
  <2> QED  BY <2>1, <2>2 DEF ReadRest
<1>5. PICK f \in Seq(Frame) : /\ f = frames[a] \o <<Tagged(r, "data", 2)>> \o <<Tagged(r, "end", 0)>>
                              /\ Piped(r, caller[r], f, "whole")
  BY <1>1, Typed, WritesOn
<1>6. frames' = [frames EXCEPT ![a] = f]
  <2>1. Head(link[a].owed) = [of |-> r, part |-> 2]
    BY <1>2, AnswerParts
  <2>2. /\ [tag |-> "data", of |-> Head(link[a].owed).of, part |-> Head(link[a].owed).part] = Tagged(r, "data", 2)
        /\ [tag |-> "end", of |-> process[a].request, part |-> 0] = Tagged(r, "end", 0)
    BY <1>1, <2>1 DEF Tagged
  <2>3. frames' = [frames EXCEPT ![a] = frames[a] \o <<Tagged(r, "data", 2)>> \o <<Tagged(r, "end", 0)>>]
    BY <2>2 DEF ReadRest, WriteData
  <2> QED  BY <1>5, <2>3
<1>7. /\ process' = [process EXCEPT ![a] = Reading]
      /\ UNCHANGED <<idle, caller, delivery, served, broken>>
  BY DEF ReadRest
<1>8. PICK n \in Nat : n = served[r] /\ n <= Limit(r)
  BY Same, Typed
<1>9. /\ served' = [served EXCEPT ![r] = n] /\ delivery' = [delivery EXCEPT ![a] = "written"]
      /\ broken' \in 0..MaxBroken /\ "written" \in Deliveries /\ "whole" \in Stage
  BY <1>1, <1>7, <1>8, Same DEF Deliveries, Stage
<1>10. Works(r, Reading, "written", "whole") /\ Sent(r, Reading, n, "whole") /\ LinkSound(Reading, l)
  BY <1>4, ProcessStates DEF Works, Sent, AtWork, LinkSound
<1>11. UNCHANGED <<idle, caller>>
  BY <1>7
<1> QED  BY <1>1, <1>4, <1>5, <1>6, <1>7, <1>8, <1>9, <1>10, <1>11, ProcessStates, ServingMoves

-----------------------------------------------------------------------------
(* The steps of a caller. *)

LEMMA Returned ==
    ASSUME PoolInv, NEW r \in Request, NEW result \in {"whole", "failed", "unsent"}, Returns(r, result),
           result = "unsent" => served[r] = 0,
           result = "whole" => Len(caller[r].seen) = 2
    PROVE  \E c \in CallerState : /\ caller' = [caller EXCEPT ![r] = c] /\ c.adapter = NoAdapter
                                  /\ c.at = "done" /\ CallerSound(r, c, served[r])
<1>1. PICK seen : seen = IF result = "whole" THEN caller[r].seen ELSE <<>>
  OBVIOUS
<1>2. seen \in Seq(Part) /\ Own(r, seen) /\ (result = "whole" => Len(seen) = 2)
  <2>1. caller[r].seen \in Seq(Part) /\ Own(r, caller[r].seen)
    BY PoolTypes DEF PoolInv, CallersSound, CallerSound, CallerState
  <2>2. <<>> \in Seq(Part) /\ Own(r, <<>>)
    BY DEF Own
  <2> QED  BY <1>1, <2>1, <2>2
<1>3. PICK c : c = [New EXCEPT !.at = "done", !.result = result, !.seen = seen]
  OBVIOUS
<1>4. caller' = [caller EXCEPT ![r] = c]
  BY <1>1, <1>3 DEF Returns
<1>5. New \in CallerState /\ New.adapter = NoAdapter
  <2>1. <<>> \in Seq(Part)
    OBVIOUS
  <2> QED  BY <2>1 DEF New, CallerState
<1>6. c \in CallerState /\ c.adapter = NoAdapter /\ c.at = "done" /\ c.result = result /\ c.seen = seen
  <2>1. PICK c1 : c1 = [New EXCEPT !.at = "done"]
    OBVIOUS
  <2>2. c1 \in CallerState /\ c1.adapter = NoAdapter /\ c1.at = "done"
    BY <1>5, <2>1 DEF CallerState
  <2>3. PICK c2 : c2 = [c1 EXCEPT !.result = result]
    OBVIOUS
  <2>4. c2 \in CallerState /\ c2.adapter = NoAdapter /\ c2.at = "done" /\ c2.result = result
    BY <2>2, <2>3 DEF CallerState
  <2>5. c = [c2 EXCEPT !.seen = seen]
    BY <1>3, <2>1, <2>3
  <2> QED  BY <1>2, <2>4, <2>5 DEF CallerState
<1>7. CallerSound(r, c, served[r])
  BY <1>2, <1>6, Same, PoolTypes DEF CallerSound, PoolInv, CallersSound
<1> QED  BY <1>4, <1>6, <1>7

\* The state of one field of a caller.
LEMMA CallerFields ==
    ASSUME NEW c \in CallerState
    PROVE  /\ \A d : d = [c EXCEPT !.at = "acquire"] =>
                 /\ d \in CallerState /\ d.at = "acquire" /\ d.adapter = c.adapter /\ d.seen = c.seen
                 /\ d.result = c.result
           /\ \A d : d = [c EXCEPT !.accepted = TRUE] =>
                 /\ d \in CallerState /\ d.at = c.at /\ d.adapter = c.adapter /\ d.seen = c.seen
                 /\ d.result = c.result /\ d.accepted
           /\ \A seen \in Seq(Part) : \A d : d = [c EXCEPT !.seen = seen] =>
                 /\ d \in CallerState /\ d.at = c.at /\ d.adapter = c.adapter /\ d.seen = seen
                 /\ d.result = c.result /\ d.accepted = c.accepted
BY DEF CallerState

LEMMA RunPoolSteps ==
    ASSUME PoolInv, NEW r \in Request, RunPool(r)
    PROVE  PoolInv'
<1>1. /\ caller[r].at = "new" /\ UNCHANGED <<idle, process, delivery, frames, link, served, broken>>
      /\ Returns(r, "unsent") \/ caller' = [caller EXCEPT ![r].at = "acquire"]
  BY DEF RunPool
<1>2. /\ caller[r] \in CallerState /\ caller[r].adapter = NoAdapter /\ served[r] = 0
      /\ CallerSound(r, caller[r], served[r])
  BY <1>1, PoolTypes DEF PoolInv, CallersSound, CallerSound, CallerState
<1>3. CASE Returns(r, "unsent")
  BY <1>1, <1>2, <1>3, Returned, CallerMoves
<1>4. CASE caller' = [caller EXCEPT ![r].at = "acquire"]
  <2>1. PICK c \in CallerState : c = caller[r]
    BY <1>2
  <2>2. PICK d : d = [c EXCEPT !.at = "acquire"]
    OBVIOUS
  <2>3. /\ d \in CallerState /\ d.at = "acquire" /\ d.adapter = NoAdapter /\ d.seen = c.seen
        /\ d.result = c.result
    BY <1>2, <2>1, <2>2, CallerFields
  <2>4. caller' = [caller EXCEPT ![r] = d]
    BY <1>4, <2>1, <2>2
  <2>5. CallerSound(r, d, served[r])
    BY <1>1, <1>2, <2>1, <2>3 DEF CallerSound
  <2> QED  BY <1>1, <1>2, <2>3, <2>4, <2>5, CallerMoves
<1> QED  BY <1>1, <1>3, <1>4

LEMMA ExhaustedSteps ==
    ASSUME PoolInv, NEW r \in Request, Exhausted(r)
    PROVE  PoolInv'
<1>1. /\ caller[r].at = "acquire" /\ Returns(r, "unsent")
      /\ UNCHANGED <<idle, process, delivery, frames, link, served, broken>>
  BY DEF Exhausted
<1>2. caller[r].adapter = NoAdapter /\ served[r] = 0
  BY <1>1, PoolTypes DEF PoolInv, CallersSound, CallerSound, CallerState
<1> QED  BY <1>1, <1>2, Returned, CallerMoves

\* The caller leaves its process, which is stopped.
LEMMA KilledMoves ==
    ASSUME PoolInv, NEW r \in Request, NEW a \in Adapter, caller[r].adapter = a, Killed(a),
           NEW c \in CallerState, caller' = [caller EXCEPT ![r] = c], c.adapter = NoAdapter,
           CallerSound(r, c, served[r]), UNCHANGED <<idle, served>>, broken' \in 0..MaxBroken
    PROVE  PoolInv'
<1>1. /\ process' = [process EXCEPT ![a] = Gone] /\ frames' = [frames EXCEPT ![a] = <<>>]
      /\ link' = [link EXCEPT ![a] = NoLink] /\ delivery' = [delivery EXCEPT ![a] = "none"]
  BY DEF Killed
<1>2. c.at \notin {"exchange", "recover"}
  BY DEF CallerSound
<1>3. PICK n \in Nat : n = served[r] /\ served' = [served EXCEPT ![r] = n]
  BY Same, Typed
<1>4. /\ CallerSound(r, c, n) /\ LinkSound(Gone, NoLink) /\ Gone \in ProcessState /\ NoLink \in Link
      /\ Gone.at = "gone" /\ "none" \in Deliveries
  BY <1>3, GoneSound DEF Deliveries
<1>5. PICK f \in Seq(Frame) : f = <<>>
  <2>1. <<>> \in Seq(Frame)
    OBVIOUS
  <2> QED  BY <2>1
<1>6. a # NoAdapter
  BY PoolAssumption
<1>7. \A q \in Request \ {r} : caller[q].adapter # a
  BY <1>6 DEF PoolInv, Owned
<1>8. ~Holds(idle, a) /\ Once(idle) /\ Len(idle) <= MaxIdle /\ idle \in Seq(Adapter)
  BY PoolTypes DEF PoolInv, Owned
<1>9. /\ ~Holds(idle', a) /\ Once(idle') /\ Len(idle') <= MaxIdle /\ idle' \in Seq(Adapter)
      /\ \A b \in Adapter : Holds(idle', b) <=> Holds(idle, b)
  BY <1>8
<1>10. /\ c.at = "exchange" => Exchanging(r, c, Gone, "none", f, n)
       /\ c.at = "recover" => Recovering(Gone, "none", f)
       /\ Holds(idle', a) => c.adapter = NoAdapter /\ IdleSound(Gone, "none", f)
       /\ Gone.at # "gone" => c.adapter = a \/ Holds(idle', a)
       /\ c.adapter \in {NoAdapter, a} /\ caller[r].adapter \in {NoAdapter, a}
       /\ frames' = [frames EXCEPT ![a] = f]
  BY <1>1, <1>2, <1>4, <1>5, <1>9
<1>11. /\ \A b \in Adapter \ {a} : Holds(idle', b) => Holds(idle, b)
       /\ \A b \in Adapter \ {a} : Holds(idle, b) /\ alive(b) => Holds(idle', b)
  BY <1>9
<1>12. PICK p \in ProcessState, l \in Link, d \in Deliveries : p = Gone /\ l = NoLink /\ d = "none"
  BY <1>4
<1>13. /\ process' = [process EXCEPT ![a] = p] /\ link' = [link EXCEPT ![a] = l]
       /\ delivery' = [delivery EXCEPT ![a] = d] /\ LinkSound(p, l)
       /\ c.at = "exchange" => Exchanging(r, c, p, d, f, n)
       /\ c.at = "recover" => Recovering(p, d, f)
       /\ Holds(idle', a) => c.adapter = NoAdapter /\ IdleSound(p, d, f)
       /\ p.at # "gone" => c.adapter = a \/ Holds(idle', a)
  BY <1>1, <1>4, <1>10, <1>12
<1> QED  BY <1>3, <1>4, <1>7, <1>9, <1>10, <1>11, <1>13, PoolMoves

LEMMA DiscardSteps ==
    ASSUME PoolInv, NEW r \in Request, caller[r].at = "exchange", Discard(r, "failed"),
           UNCHANGED <<idle, served>>, broken' \in 0..MaxBroken
    PROVE  PoolInv'
<1>1. PICK a \in Adapter : a = caller[r].adapter
  BY AtExchange
<1>2. Killed(a) /\ Returns(r, "failed")
  BY <1>1 DEF Discard
<1>3. PICK c \in CallerState : /\ caller' = [caller EXCEPT ![r] = c] /\ c.adapter = NoAdapter
                               /\ c.at = "done" /\ CallerSound(r, c, served[r])
  BY <1>2, Returned
<1> QED  BY <1>1, <1>2, <1>3, KilledMoves

LEMMA GiveUpSteps ==
    ASSUME PoolInv, NEW r \in Request, GiveUp(r)
    PROVE  PoolInv'
BY DiscardSteps, PoolTypes DEF GiveUp, PoolInv

LEMMA ObserverFailsSteps ==
    ASSUME PoolInv, NEW r \in Request, ObserverFails(r)
    PROVE  PoolInv'
<1>1. /\ caller[r].at = "exchange" /\ broken < MaxBroken /\ broken' = broken + 1
      /\ Discard(r, "failed") /\ UNCHANGED <<idle, served>>
  BY DEF ObserverFails
<1>2. broken' \in 0..MaxBroken
  BY <1>1, PoolTypes, PoolAssumption DEF PoolInv
<1> QED  BY <1>1, <1>2, DiscardSteps

LEMMA DisconnectSteps ==
    ASSUME PoolInv, NEW r \in Request, Disconnect(r)
    PROVE  PoolInv'
<1>1. /\ caller[r].at = "exchange" /\ frames[caller[r].adapter] = <<>>
      /\ UNCHANGED <<idle, served, broken>> /\ AfterDisconnect(r)
  BY DEF Disconnect, Disconnected
<1>2. broken' \in 0..MaxBroken
  BY <1>1, PoolTypes DEF PoolInv
<1>3. CASE caller[r].accepted
  BY <1>1, <1>2, <1>3, DiscardSteps DEF AfterDisconnect
<1>4. CASE ~caller[r].accepted
  <2>1. PICK stage \in Stage, a \in Adapter :
           /\ a = caller[r].adapter
           /\ Piped(r, caller[r], frames[a], stage) /\ Sent(r, process[a], served[r], stage)
    BY <1>1, AtExchange
  <2>2. Read(caller[r]) = 0 /\ Len(frames[a]) = 0
    BY <1>1, <1>4, <2>1 DEF Read
  <2>3. stage = "nothing"
    BY <2>1, <2>2, StageLengths DEF Piped, Stage
  <2>4. served[r] = 0 /\ caller[r].seen = <<>> /\ caller[r].result = "none" /\ Own(r, caller[r].seen)
    BY <1>1, <1>4, <2>1, <2>3, Typed DEF Sent, CallerSound
  <2>5. PICK k \in CallerState : k = caller[r]
    BY <2>1, Typed
  <2>6. PICK c : c = [k EXCEPT !.at = "acquire", !.adapter = NoAdapter]
    OBVIOUS
  <2>7. c \in CallerState /\ c.at = "acquire" /\ c.adapter = NoAdapter /\ c.seen = k.seen /\ c.result = k.result
    <3>1. PICK d : d = [k EXCEPT !.at = "acquire"]
      OBVIOUS
    <3>2. d \in CallerState /\ d.at = "acquire" /\ d.seen = k.seen /\ d.result = k.result
      BY <3>1, CallerFields
    <3>3. c = [d EXCEPT !.adapter = NoAdapter]
      BY <2>6, <3>1
    <3> QED  BY <3>2, <3>3 DEF CallerState
  <2>8. caller' = [caller EXCEPT ![r] = c] /\ Killed(a)
    BY <1>1, <1>4, <2>1, <2>5, <2>6 DEF AfterDisconnect
  <2>9. CallerSound(r, c, served[r])
    BY <2>4, <2>5, <2>7, Same DEF CallerSound
  <2> QED  BY <1>1, <1>2, <2>1, <2>7, <2>8, <2>9, KilledMoves
<1> QED  BY <1>3, <1>4

-----------------------------------------------------------------------------
(* The caller reads. *)

LEMMA ReadingMoves ==
    ASSUME PoolInv, NEW r \in Request, NEW a \in Adapter, caller[r].adapter = a,
           NEW c \in CallerState, caller' = [caller EXCEPT ![r] = c], c.adapter = a,
           NEW f \in Seq(Frame), frames' = [frames EXCEPT ![a] = f],
           UNCHANGED <<idle, process, delivery, link, served, broken>>,
           CallerSound(r, c, served[r]),
           c.at = "exchange" => Exchanging(r, c, process[a], delivery[a], f, served[r]),
           c.at = "recover" => Recovering(process[a], delivery[a], f)
    PROVE  PoolInv'
<1>1. PICK p \in ProcessState, d \in Deliveries, l \in Link, n \in Nat :
         p = process[a] /\ d = delivery[a] /\ l = link[a] /\ n = served[r]
  BY Typed
<1>2. /\ process' = [process EXCEPT ![a] = p] /\ delivery' = [delivery EXCEPT ![a] = d]
      /\ link' = [link EXCEPT ![a] = l] /\ served' = [served EXCEPT ![r] = n] /\ broken' \in 0..MaxBroken
  BY <1>1, Same
<1>3. a # NoAdapter
  BY PoolAssumption
<1>4. \A q \in Request \ {r} : caller[q].adapter # a
  BY <1>3 DEF PoolInv, Owned
<1>5. ~Holds(idle, a) /\ Once(idle) /\ Len(idle) <= MaxIdle /\ idle \in Seq(Adapter)
  BY PoolTypes DEF PoolInv, Owned
<1>6. /\ ~Holds(idle', a) /\ Once(idle') /\ Len(idle') <= MaxIdle /\ idle' \in Seq(Adapter)
      /\ \A b \in Adapter : Holds(idle', b) <=> Holds(idle, b)
  BY <1>5
<1>7. /\ CallerSound(r, c, n) /\ LinkSound(p, l)
      /\ c.at = "exchange" => Exchanging(r, c, p, d, f, n)
      /\ c.at = "recover" => Recovering(p, d, f)
      /\ Holds(idle', a) => c.adapter = NoAdapter /\ IdleSound(p, d, f)
      /\ p.at # "gone" => c.adapter = a \/ Holds(idle', a)
      /\ c.adapter \in {NoAdapter, a} /\ caller[r].adapter \in {NoAdapter, a}
  BY <1>1, <1>6, Typed
<1> QED  BY <1>2, <1>4, <1>6, <1>7, PoolMoves

\* The next frame, and what is left.
LEMMA NextFrame ==
    ASSUME PoolInv, NEW r \in Request, NEW a \in Adapter, a = caller[r].adapter,
           caller[r].at = "exchange", frames[a] # <<>>
    PROVE  \E stage \in Stage, k \in 1..4 :
              /\ k = Read(caller[r]) + 1 /\ k <= Written(stage)
              /\ Head(frames[a]) = FrameAt(r, stage, k)
              /\ Tail(frames[a]) \in Seq(Frame) /\ Len(Tail(frames[a])) = Written(stage) - k
              /\ Works(r, process[a], delivery[a], stage) /\ Sent(r, process[a], served[r], stage)
              /\ \A d \in CallerState : Read(d) = k => Piped(r, d, Tail(frames[a]), stage)
<1>1. PICK stage \in Stage : /\ Piped(r, caller[r], frames[a], stage)
                             /\ Works(r, process[a], delivery[a], stage)
                             /\ Sent(r, process[a], served[r], stage)
  BY AtExchange
<1>2. PICK f \in Seq(Frame), c \in CallerState : f = frames[a] /\ f # <<>> /\ c = caller[r]
  BY Typed
<1>3. Read(c) \in Nat /\ Piped(r, c, f, stage) /\ Written(stage) \in 0..4
  BY <1>1, <1>2, ReadTyped, StageLengths
<1>4. \A d \in CallerState : Read(d) = Read(c) + 1 => Piped(r, d, Tail(f), stage)
  BY <1>2, <1>3, PipedLess
<1>5. Len(f) \in Nat \ {0} /\ Len(Tail(f)) = Len(f) - 1 /\ Tail(f) \in Seq(Frame) /\ Head(f) = f[1]
  BY <1>2, EmptySeq, HeadTailProperties
<1>6. Read(c) + Len(f) = Written(stage) /\ f[1] = FrameAt(r, stage, 1 + Read(c))
  BY <1>3, <1>5 DEF Piped
<1>7. PICK k \in 1..4 : k = Read(c) + 1
  BY <1>3, <1>5, <1>6
<1>8. 1 + Read(c) = k /\ k <= Written(stage) /\ Len(Tail(f)) = Written(stage) - k
  BY <1>3, <1>5, <1>6, <1>7
<1> QED  BY <1>1, <1>2, <1>4, <1>5, <1>6, <1>7, <1>8

LEMMA FrameTags ==
    ASSUME NEW r \in Request, NEW stage \in Stage, NEW k \in 1..4, k <= Written(stage)
    PROVE  LET e == FrameAt(r, stage, k)
           IN  /\ e.tag = "accepted" <=> k = 1
               /\ e.tag = "data" => k \in {2, 3} /\ e.of = r /\ e.part = k - 1
               /\ e.tag = "end" => k = 4 /\ stage = "whole"
               /\ e.tag = "failed" => k = Written(stage) /\ stage \in {"refused", "cut"}
<1>1. CASE k = 1
  BY <1>1 DEF FrameAt
<1>2. CASE k = 2
  BY <1>2, StageLengths DEF FrameAt, Stage
<1>3. CASE k = 3
  BY <1>3, StageLengths DEF FrameAt, Stage
<1>4. CASE k = 4
  BY <1>4, StageLengths DEF FrameAt, Stage
<1> QED  BY <1>1, <1>2, <1>3, <1>4

LEMMA ReceiveAcceptedSteps ==
    ASSUME PoolInv, NEW r \in Request, ReceiveAccepted(r)
    PROVE  PoolInv'
<1>1. PICK a \in Adapter : a = caller[r].adapter /\ a # NoAdapter /\ caller[r].at = "exchange"
  BY AtExchange DEF ReceiveAccepted
<1>2. /\ frames[a] # <<>> /\ Head(frames[a]).tag = "accepted"
      /\ caller' = [caller EXCEPT ![r].accepted = TRUE]
      /\ frames' = [frames EXCEPT ![a] = Tail(@)]
      /\ UNCHANGED <<idle, process, delivery, link, served, broken>>
  BY <1>1 DEF ReceiveAccepted, FirstFrame, TakeFrame
<1>3. PICK stage \in Stage, k \in 1..4 :
         /\ k = Read(caller[r]) + 1 /\ k <= Written(stage) /\ Head(frames[a]) = FrameAt(r, stage, k)
         /\ Tail(frames[a]) \in Seq(Frame)
         /\ Works(r, process[a], delivery[a], stage) /\ Sent(r, process[a], served[r], stage)
         /\ \A d \in CallerState : Read(d) = k => Piped(r, d, Tail(frames[a]), stage)
  BY <1>1, <1>2, NextFrame
<1>4. k = 1
  BY <1>2, <1>3, FrameTags
<1>5. PICK c \in CallerState : c = caller[r]
  BY Typed
<1>6. ~c.accepted /\ c.seen = <<>> /\ CallerSound(r, c, served[r])
  <2>1. Read(c) = 0 /\ Len(c.seen) \in Nat /\ c.accepted \in BOOLEAN
    BY <1>3, <1>4, <1>5, ReadTyped, Typed DEF CallerState
  <2>2. ~c.accepted
    BY <2>1 DEF Read
  <2> QED  BY <1>1, <1>5, <2>2, Typed DEF CallerSound
<1>7. PICK d : d = [c EXCEPT !.accepted = TRUE]
  OBVIOUS
<1>8. /\ d \in CallerState /\ d.at = "exchange" /\ d.adapter = a /\ d.seen = <<>> /\ d.accepted
      /\ d.result = c.result
  BY <1>1, <1>5, <1>6, <1>7, CallerFields
<1>9. Read(d) = k
  BY <1>4, <1>8 DEF Read
<1>10. PICK f \in Seq(Frame) : f = Tail(frames[a]) /\ Piped(r, d, f, stage)
  BY <1>3, <1>8, <1>9
<1>11. caller' = [caller EXCEPT ![r] = d] /\ frames' = [frames EXCEPT ![a] = f]
  BY <1>2, <1>5, <1>7, <1>10
<1>12. Exchanging(r, d, process[a], delivery[a], f, served[r])
  BY <1>3, <1>10 DEF Exchanging
<1>13. CallerSound(r, d, served[r])
  BY <1>1, <1>5, <1>6, <1>8 DEF CallerSound
<1> QED  BY <1>1, <1>2, <1>8, <1>11, <1>12, <1>13, ReadingMoves

LEMMA ReceiveDataSteps ==
    ASSUME PoolInv, NEW r \in Request, ReceiveData(r)
    PROVE  PoolInv'
<1>1. PICK a \in Adapter : a = caller[r].adapter /\ a # NoAdapter /\ caller[r].at = "exchange"
  BY AtExchange DEF ReceiveData
<1>2. /\ frames[a] # <<>> /\ Head(frames[a]).tag = "data"
      /\ caller' = [caller EXCEPT ![r].seen =
                       Append(@, [of |-> Head(frames[a]).of, part |-> Head(frames[a]).part])]
      /\ frames' = [frames EXCEPT ![a] = Tail(@)]
      /\ UNCHANGED <<idle, process, delivery, link, served, broken>>
  BY <1>1 DEF ReceiveData, FirstFrame, TakeFrame
<1>3. PICK stage \in Stage, k \in 1..4 :
         /\ k = Read(caller[r]) + 1 /\ k <= Written(stage) /\ Head(frames[a]) = FrameAt(r, stage, k)
         /\ Tail(frames[a]) \in Seq(Frame)
         /\ Works(r, process[a], delivery[a], stage) /\ Sent(r, process[a], served[r], stage)
         /\ \A d \in CallerState : Read(d) = k => Piped(r, d, Tail(frames[a]), stage)
  BY <1>1, <1>2, NextFrame
<1>4. k \in {2, 3} /\ Head(frames[a]).of = r /\ Head(frames[a]).part = k - 1
  BY <1>2, <1>3, FrameTags
<1>5. PICK c \in CallerState : c = caller[r]
  BY Typed
<1>6. c.accepted /\ Len(c.seen) = k - 2 /\ CallerSound(r, c, served[r]) /\ c.seen \in Seq(Part)
  <2>1. Read(c) = k - 1 /\ Len(c.seen) \in Nat /\ c.accepted \in BOOLEAN /\ c.seen \in Seq(Part)
    BY <1>3, <1>4, <1>5, ReadTyped DEF CallerState
  <2>2. c.accepted
    BY <1>4, <2>1 DEF Read
  <2>3. Len(c.seen) = k - 2
    BY <1>4, <2>1, <2>2 DEF Read
  <2> QED  BY <1>5, <2>1, <2>2, <2>3, Typed
<1>7. PICK e \in Part : e = [of |-> r, part |-> k - 1]
  <2>1. k - 1 \in 1..2
    BY <1>4
  <2>2. [of |-> r, part |-> k - 1] \in Part
    BY <2>1 DEF Part
  <2> QED  BY <2>2
<1>8. PICK seen \in Seq(Part) : seen = Append(c.seen, e)
  BY <1>6, AppendProperties
<1>9. Len(seen) = k - 1 /\ Own(r, seen)
  <2>1. /\ Len(seen) = k - 1 /\ \A i \in 1..Len(c.seen) : seen[i] = c.seen[i]
        /\ seen[Len(c.seen) + 1] = e
    BY <1>4, <1>6, <1>8, AppendProperties
  <2>2. \A i \in 1..k - 2 : c.seen[i] = [of |-> r, part |-> i]
    BY <1>6 DEF CallerSound, Own
  <2>3. ASSUME NEW i \in 1..k - 1 PROVE seen[i] = [of |-> r, part |-> i]
    <3>1. CASE i = k - 1
      BY <1>4, <1>6, <1>7, <2>1, <3>1
    <3>2. CASE i # k - 1
      BY <1>4, <1>6, <2>1, <2>2, <3>2
    <3> QED  BY <3>1, <3>2
  <2> QED  BY <1>4, <2>1, <2>3 DEF Own
<1>10. PICK d : d = [c EXCEPT !.seen = seen]
  OBVIOUS
<1>11. /\ d \in CallerState /\ d.at = "exchange" /\ d.adapter = a /\ d.seen = seen /\ d.accepted
       /\ d.result = c.result
  <2>1. /\ d \in CallerState /\ d.at = c.at /\ d.adapter = c.adapter /\ d.seen = seen
        /\ d.result = c.result /\ d.accepted = c.accepted
    BY <1>10, CallerFields
  <2> QED  BY <1>1, <1>5, <1>6, <2>1
<1>12. Read(d) = k
  BY <1>4, <1>9, <1>11 DEF Read
<1>13. PICK f \in Seq(Frame) : f = Tail(frames[a]) /\ Piped(r, d, f, stage)
  BY <1>3, <1>11, <1>12
<1>14. frames' = [frames EXCEPT ![a] = f]
  BY <1>2, <1>13
<1>15. caller' = [caller EXCEPT ![r] = d]
  <2>1. [of |-> Head(frames[a]).of, part |-> Head(frames[a]).part] = e
    BY <1>4, <1>7
  <2> QED  BY <1>2, <1>5, <1>8, <1>10, <2>1
<1>16. Exchanging(r, d, process[a], delivery[a], f, served[r])
  BY <1>3, <1>13 DEF Exchanging
<1>17. CallerSound(r, d, served[r])
  BY <1>1, <1>5, <1>6, <1>9, <1>11 DEF CallerSound
<1> QED  BY <1>1, <1>2, <1>11, <1>14, <1>15, <1>16, <1>17, ReadingMoves

LEMMA ReceiveEndSteps ==
    ASSUME PoolInv, NEW r \in Request, ReceiveEnd(r)
    PROVE  PoolInv'
<1>1. PICK a \in Adapter : a = caller[r].adapter /\ a # NoAdapter /\ caller[r].at = "exchange"
  BY AtExchange DEF ReceiveEnd
<1>2. PICK result :
         /\ frames[a] # <<>> /\ Head(frames[a]).tag \in {"end", "failed"}
         /\ result = IF Head(frames[a]).tag = "end" THEN "whole" ELSE "failed"
         /\ caller' = [caller EXCEPT ![r] = [@ EXCEPT !.at = "recover", !.result = result]]
         /\ frames' = [frames EXCEPT ![a] = Tail(@)]
         /\ UNCHANGED <<idle, process, delivery, link, served, broken>>
  BY <1>1 DEF ReceiveEnd, FirstFrame, TakeFrame
<1>3. PICK stage \in Stage, k \in 1..4 :
         /\ k = Read(caller[r]) + 1 /\ k <= Written(stage) /\ Head(frames[a]) = FrameAt(r, stage, k)
         /\ Tail(frames[a]) \in Seq(Frame) /\ Len(Tail(frames[a])) = Written(stage) - k
         /\ Works(r, process[a], delivery[a], stage) /\ Sent(r, process[a], served[r], stage)
  BY <1>1, <1>2, NextFrame
<1>4. /\ k = Written(stage) /\ stage \in {"whole", "refused", "cut"} /\ result \in {"whole", "failed"}
      /\ result = "whole" => k = 4
  BY <1>2, <1>3, FrameTags, StageLengths
<1>5. Tail(frames[a]) = <<>>
  BY <1>3, <1>4, StageLengths, EmptySeq
<1>6. Recovering(process[a], delivery[a], <<>>)
  BY <1>3, <1>4 DEF Works, Recovering, AtWork
<1>7. PICK c \in CallerState : c = caller[r]
  BY Typed
<1>8. CallerSound(r, c, served[r]) /\ (result = "whole" => Len(c.seen) = 2)
  <2>1. Read(c) + 1 = k /\ Len(c.seen) \in Nat /\ Read(c) \in Nat /\ c.accepted \in BOOLEAN
    BY <1>3, <1>7, ReadTyped DEF CallerState
  <2>2. ASSUME result = "whole" PROVE Len(c.seen) = 2
    <3>1. Read(c) = 3
      BY <1>4, <2>1, <2>2
    <3>2. CASE c.accepted
      <4>1. PICK m \in Nat : m = Len(c.seen)
        BY <2>1
      <4>2. Read(c) = 1 + m
        BY <3>2, <4>1 DEF Read
      <4>3. m = 2
        BY <3>1, <4>2
      <4> QED  BY <4>1, <4>3
    <3>3. CASE ~c.accepted
      <4>1. Read(c) = 0
        BY <3>3 DEF Read
      <4> QED  BY <3>1, <4>1
    <3> QED  BY <3>2, <3>3
  <2> QED  BY <1>7, <2>2, Typed
<1>9. PICK d : d = [c EXCEPT !.at = "recover", !.result = result]
  OBVIOUS
<1>10. /\ d \in CallerState /\ d.at = "recover" /\ d.adapter = a /\ d.seen = c.seen
       /\ d.result = result
  <2>1. PICK d1 : d1 = [c EXCEPT !.at = "recover"]
    OBVIOUS
  <2>2. d1 \in CallerState /\ d1.at = "recover" /\ d1.adapter = a /\ d1.seen = c.seen
    BY <1>1, <1>7, <2>1 DEF CallerState
  <2>3. d = [d1 EXCEPT !.result = result]
    BY <1>9, <2>1
  <2> QED  BY <1>4, <2>2, <2>3 DEF CallerState
<1>11. PICK f \in Seq(Frame) : f = <<>> /\ frames' = [frames EXCEPT ![a] = f]
  BY <1>2, <1>3, <1>5
<1>12. caller' = [caller EXCEPT ![r] = d]
  BY <1>2, <1>7, <1>9
<1>13. CallerSound(r, d, served[r])
  BY <1>1, <1>4, <1>7, <1>8, <1>10 DEF CallerSound
<1>14. Recovering(process[a], delivery[a], f)
  BY <1>6, <1>11
<1> QED  BY <1>1, <1>2, <1>10, <1>11, <1>12, <1>13, <1>14, ReadingMoves

LEMMA RecoverSteps ==
    ASSUME PoolInv, NEW r \in Request, Recover(r)
    PROVE  PoolInv'
<1>1. PICK a \in Adapter : a = caller[r].adapter /\ a # NoAdapter
  <2>1. caller[r].adapter \in Adapter
    BY PoolTypes DEF Recover, PoolInv, CallersSound, CallerSound, CallerState
  <2> QED  BY <2>1, PoolAssumption
<1>2. /\ caller[r].at = "recover" /\ Returns(r, caller[r].result) /\ UNCHANGED <<served, broken>>
      /\ \/ /\ idle' = Append(idle, a) /\ delivery' = [delivery EXCEPT ![a] = "none"]
            /\ UNCHANGED <<process, frames, link>> /\ Len(idle) < MaxIdle
         \/ Killed(a) /\ idle' = idle
  BY <1>1 DEF Recover, release
<1>3. /\ Recovering(process[a], delivery[a], frames[a]) /\ CallerSound(r, caller[r], served[r])
  BY <1>1, <1>2 DEF PoolInv, CallersSound
<1>4. caller[r].result \in {"whole", "failed"} /\ (caller[r].result = "whole" => Len(caller[r].seen) = 2)
  BY <1>2, <1>3 DEF CallerSound
<1>5. PICK c \in CallerState : /\ caller' = [caller EXCEPT ![r] = c] /\ c.adapter = NoAdapter
                               /\ c.at = "done" /\ CallerSound(r, c, served[r])
  BY <1>2, <1>4, Returned
<1>6. broken' \in 0..MaxBroken
  BY <1>2, Typed
<1>7. CASE Killed(a) /\ idle' = idle
  BY <1>1, <1>2, <1>5, <1>6, <1>7, KilledMoves
<1>8. CASE /\ idle' = Append(idle, a) /\ delivery' = [delivery EXCEPT ![a] = "none"]
           /\ UNCHANGED <<process, frames, link>> /\ Len(idle) < MaxIdle
  <2>1. PICK p \in ProcessState, f \in Seq(Frame), l \in Link, n \in Nat :
           p = process[a] /\ f = frames[a] /\ l = link[a] /\ n = served[r]
    BY Typed
  <2>2. /\ process' = [process EXCEPT ![a] = p] /\ frames' = [frames EXCEPT ![a] = f]
        /\ link' = [link EXCEPT ![a] = l] /\ served' = [served EXCEPT ![r] = n]
    BY <1>2, <1>8, <2>1, Same
  <2>3. \A q \in Request \ {r} : caller[q].adapter # a
    BY <1>1 DEF PoolInv, Owned
  <2>4. ~Holds(idle, a) /\ Once(idle) /\ Len(idle) <= MaxIdle /\ idle \in Seq(Adapter)
    BY <1>1, PoolTypes DEF PoolInv, Owned
  <2>5. /\ idle' \in Seq(Adapter) /\ Len(idle') = Len(idle) + 1 /\ Once(idle')
        /\ \A b : Holds(idle', b) <=> Holds(idle, b) \/ b = a
    BY <1>8, <2>4, HoldsAppended
  <2>6. Len(idle') <= MaxIdle
    BY <1>8, <2>4, <2>5, PoolAssumption, LenProperties
  <2>7. /\ \A b \in Adapter \ {a} : Holds(idle', b) => Holds(idle, b)
        /\ \A b \in Adapter \ {a} : Holds(idle, b) /\ alive(b) => Holds(idle', b)
    BY <2>5
  <2>8. "none" \in Deliveries /\ IdleSound(p, "none", f) /\ LinkSound(p, l)
    BY <1>3, <2>1, Typed DEF Deliveries, IdleSound, Recovering
  <2>9. /\ c.at = "exchange" => Exchanging(r, c, p, "none", f, n)
        /\ c.at = "recover" => Recovering(p, "none", f)
        /\ Holds(idle', a) => c.adapter = NoAdapter /\ IdleSound(p, "none", f)
        /\ p.at # "gone" => c.adapter = a \/ Holds(idle', a)
        /\ c.adapter \in {NoAdapter, a} /\ caller[r].adapter \in {NoAdapter, a}
        /\ CallerSound(r, c, n)
    BY <1>1, <1>5, <2>1, <2>5, <2>8
  <2>10. caller' = [caller EXCEPT ![r] = c] /\ delivery' = [delivery EXCEPT ![a] = "none"]
    BY <1>5, <1>8
  <2> QED  BY <1>6, <2>2, <2>3, <2>5, <2>6, <2>7, <2>8, <2>9, <2>10, PoolMoves
<1> QED  BY <1>2, <1>7, <1>8

\* The caller has its adapter, and the request is on its way to it.
LEMMA AcquiredMoves ==
    ASSUME PoolInv, NEW r \in Request, NEW a \in Adapter, caller[r].at = "acquire", caller[r].tries < 2,
           caller' = [caller EXCEPT ![r] = [@ EXCEPT !.at = "exchange", !.adapter = a,
                                                     !.tries = caller[r].tries + 1, !.accepted = FALSE]],
           NEW p \in ProcessState, p.at = "reading", process' = [process EXCEPT ![a] = p],
           delivery' = [delivery EXCEPT ![a] = "writing"], frames' = [frames EXCEPT ![a] = <<>>],
           link[a].owed = <<>>, UNCHANGED <<link, served, broken>>,
           \A q \in Request : caller[q].adapter # a,
           idle' \in Seq(Adapter), Once(idle'), Len(idle') <= MaxIdle, ~Holds(idle', a),
           \A b \in Adapter \ {a} : Holds(idle', b) => Holds(idle, b),
           \A b \in Adapter \ {a} : Holds(idle, b) /\ alive(b) => Holds(idle', b)
    PROVE  PoolInv'
<1>1. PICK k \in CallerState : k = caller[r]
  BY Typed
<1>2. PICK c : c = [k EXCEPT !.at = "exchange", !.adapter = a, !.tries = k.tries + 1, !.accepted = FALSE]
  OBVIOUS
<1>3. /\ c \in CallerState /\ c.at = "exchange" /\ c.adapter = a /\ c.seen = k.seen /\ c.result = k.result
      /\ ~c.accepted
  <2>1. PICK c1 : c1 = [k EXCEPT !.at = "exchange"]
    OBVIOUS
  <2>2. c1 \in CallerState /\ c1.at = "exchange" /\ c1.seen = k.seen /\ c1.result = k.result /\ c1.tries = k.tries
    BY <2>1 DEF CallerState
  <2>3. PICK c2 : c2 = [c1 EXCEPT !.adapter = a]
    OBVIOUS
  <2>4. /\ c2 \in CallerState /\ c2.at = "exchange" /\ c2.seen = k.seen /\ c2.result = k.result
        /\ c2.adapter = a /\ c2.tries = k.tries
    BY <2>2, <2>3 DEF CallerState
  <2>5. PICK c3 : c3 = [c2 EXCEPT !.tries = k.tries + 1]
    OBVIOUS
  <2>6. k.tries + 1 \in 0..2
    BY <1>1 DEF CallerState
  <2>7. /\ c3 \in CallerState /\ c3.at = "exchange" /\ c3.seen = k.seen /\ c3.result = k.result
        /\ c3.adapter = a
    BY <2>4, <2>5, <2>6 DEF CallerState
  <2>8. c = [c3 EXCEPT !.accepted = FALSE]
    BY <1>2, <2>1, <2>3, <2>5
  <2> QED  BY <2>7, <2>8 DEF CallerState
<1>4. caller' = [caller EXCEPT ![r] = c]
  BY <1>1, <1>2
<1>5. PICK n \in Nat : n = served[r]
  BY Typed
<1>6. CallerSound(r, k, n) /\ k.adapter = NoAdapter /\ n = 0 /\ k.seen = <<>>
  <2>1. CallerSound(r, k, n) /\ k.adapter \in Adapter \cup {NoAdapter}
    BY <1>1, <1>5, Typed DEF CallerState
  <2> QED  BY <1>1, <2>1 DEF CallerSound
<1>7. CallerSound(r, c, n)
  BY <1>1, <1>3, <1>6, PoolAssumption DEF CallerSound
<1>8. PICK f \in Seq(Frame) : f = <<>> /\ Len(f) = 0
  <2>1. <<>> \in Seq(Frame) /\ Len(<<>>) = 0
    OBVIOUS
  <2> QED  BY <2>1
<1>9. Exchanging(r, c, p, "writing", f, n)
  <2>1. Piped(r, c, f, "nothing")
    BY <1>3, <1>8, StageLengths DEF Piped, Read
  <2>2. Works(r, p, "writing", "nothing") /\ Sent(r, p, n, "nothing") /\ "nothing" \in Stage
    BY <1>6 DEF Works, Sent, Stage, AtWork
  <2> QED  BY <2>1, <2>2 DEF Exchanging
<1>10. PICK l \in Link : l = link[a]
  BY Typed
<1>11. LinkSound(p, l) /\ "writing" \in Deliveries
  BY <1>10 DEF LinkSound, Deliveries
<1>12. /\ link' = [link EXCEPT ![a] = l] /\ served' = [served EXCEPT ![r] = n] /\ broken' \in 0..MaxBroken
       /\ frames' = [frames EXCEPT ![a] = f]
  BY <1>5, <1>8, <1>10, Same
<1>12a. PICK d \in Deliveries : d = "writing"
  BY <1>11
<1>13. /\ c.at = "exchange" => Exchanging(r, c, p, d, f, n)
       /\ c.at = "recover" => Recovering(p, d, f)
       /\ Holds(idle', a) => c.adapter = NoAdapter /\ IdleSound(p, d, f)
       /\ p.at # "gone" => c.adapter = a \/ Holds(idle', a)
       /\ c.adapter \in {NoAdapter, a} /\ caller[r].adapter \in {NoAdapter, a}
  BY <1>1, <1>3, <1>6, <1>9, <1>12a
<1>14. \A q \in Request \ {r} : caller[q].adapter # a
  OBVIOUS
<1>15. delivery' = [delivery EXCEPT ![a] = d] /\ process' = [process EXCEPT ![a] = p]
  BY <1>12a
<1>16. /\ idle' \in Seq(Adapter) /\ Once(idle') /\ Len(idle') <= MaxIdle
       /\ \A b \in Adapter \ {a} : Holds(idle', b) => Holds(idle, b)
       /\ \A b \in Adapter \ {a} : Holds(idle, b) /\ alive(b) => Holds(idle', b)
  OBVIOUS
<1> QED  BY ONLY PoolInv, <1>3, <1>4, <1>7, <1>11, <1>12, <1>13, <1>14, <1>15, <1>16, PoolMoves

LEMMA AcquireSteps ==
    ASSUME PoolInv, NEW r \in Request, AcquireAdapter(r)
    PROVE  PoolInv'
<1>1. PICK a \in Adapter : /\ acquire(r, a) /\ delivery' = [delivery EXCEPT ![a] = "writing"]
                           /\ frames' = IF alive(a) THEN frames ELSE [frames EXCEPT ![a] = <<>>]
  BY DEF AcquireAdapter
<1>2. /\ caller[r].at = "acquire" /\ caller[r].tries < 2 /\ UNCHANGED <<link, served, broken>>
  BY DEF AcquireAdapter
<1>3. caller' = [caller EXCEPT ![r] = [@ EXCEPT !.at = "exchange", !.adapter = a,
                                                !.tries = caller[r].tries + 1, !.accepted = FALSE]]
  BY <1>1 DEF acquire
<1>4. idle \in Seq(Adapter) /\ Once(idle) /\ Len(idle) <= MaxIdle /\ Len(idle) \in Nat
  BY PoolTypes, LenProperties DEF PoolInv, Owned
<1>5. CASE NewestAlive # {}
  <2>1. PICK i \in NewestAlive : a = idle[i] /\ idle' = SubSeq(idle, 1, i - 1) /\ process' = process
    BY <1>1, <1>5 DEF acquire
  <2>2. i \in DOMAIN idle /\ alive(a) /\ \A j \in DOMAIN idle : j > i => ~alive(idle[j])
    BY <2>1 DEF NewestAlive
  <2>3. Holds(idle, a)
    BY <2>1, <2>2 DEF Holds
  <2>4. IdleSound(process[a], delivery[a], frames[a]) /\ \A q \in Request : caller[q].adapter # a
    BY <2>3 DEF PoolInv, AdaptersSound, Owned
  <2>5. PICK p \in ProcessState : p = process[a] /\ p.at = "reading"
    BY <1>2, <2>2, <2>4, Typed DEF IdleSound, alive
  <2>6. link[a].owed = <<>>
    BY <2>5, Typed DEF LinkSound
  <2>7. process' = [process EXCEPT ![a] = p] /\ frames' = [frames EXCEPT ![a] = <<>>]
    BY <1>1, <2>1, <2>2, <2>4, <2>5, PoolTypes DEF PoolInv, IdleSound
  <2>8. /\ idle' \in Seq(Adapter) /\ Len(idle') <= Len(idle) /\ Once(idle') /\ ~Holds(idle', a)
        /\ \A b : Holds(idle', b) => Holds(idle, b)
        /\ \A j \in DOMAIN idle : j < i => Holds(idle', idle[j])
    BY <1>4, <2>1, <2>2, HoldsBefore
  <2>9. Len(idle') <= MaxIdle
    BY <1>4, <2>8, LenProperties, PoolAssumption
  <2>10. \A b \in Adapter \ {a} : Holds(idle', b) => Holds(idle, b)
    BY <2>8
  <2>11. ASSUME NEW b \in Adapter \ {a}, Holds(idle, b), alive(b) PROVE Holds(idle', b)
    <3>1. PICK j \in DOMAIN idle : idle[j] = b
      BY <2>11 DEF Holds
    <3>2. i \in Nat /\ j \in Nat
      BY <1>4, <2>2, LenProperties
    <3>3. ~(j > i) /\ j # i
      BY <2>1, <2>2, <2>11, <3>1
    <3> QED  BY <2>8, <3>1, <3>2, <3>3
  <2> QED  BY <1>1, <1>2, <1>3, <2>4, <2>5, <2>6, <2>7, <2>8, <2>9, <2>10, <2>11, AcquiredMoves
<1>6. CASE NewestAlive = {}
  <2>1. a \in Startable /\ idle' = <<>> /\ process' = [process EXCEPT ![a] = Reading]
    BY <1>1, <1>6 DEF acquire
  <2>2. ~alive(a) /\ \A q \in Request : caller[q].adapter # a
    BY <2>1 DEF Startable, InUse
  <2>3. link[a].owed = <<>>
    BY <2>2, Typed DEF LinkSound, alive
  <2>4. frames' = [frames EXCEPT ![a] = <<>>]
    BY <1>1, <2>2
  <2>5. /\ idle' \in Seq(Adapter) /\ Len(idle') = 0 /\ Once(idle') /\ \A b : ~Holds(idle', b)
    BY <2>1 DEF Once, Holds
  <2>6. Len(idle') <= MaxIdle
    BY <2>5, PoolAssumption
  <2>7. \A b \in Adapter \ {a} : Holds(idle', b) => Holds(idle, b)
    BY <2>5
  <2>8. ASSUME NEW b \in Adapter \ {a}, Holds(idle, b), alive(b) PROVE Holds(idle', b)
    <3>1. PICK j \in DOMAIN idle : idle[j] = b
      BY <2>8 DEF Holds
    <3> QED  BY <1>6, <2>8, <3>1, NewestRuns
  <2> QED
    BY <1>1, <1>2, <1>3, <2>1, <2>2, <2>3, <2>4, <2>5, <2>6, <2>7, <2>8, ProcessStates, AcquiredMoves
<1> QED  BY <1>5, <1>6

-----------------------------------------------------------------------------
(* The invariant holds. *)

LEMMA PoolStart == PoolInit => PoolInv
<1> SUFFICES ASSUME PoolInit PROVE PoolInv
  OBVIOUS
<1>1. New \in CallerState /\ New.adapter = NoAdapter /\ New.at = "new" /\ New.seen = <<>> /\ New.result = "none"
  <2>1. <<>> \in Seq(Part)
    OBVIOUS
  <2> QED  BY <2>1 DEF New, CallerState
<1>2. \A r \in Request : caller[r] = New /\ served[r] = 0
  BY DEF PoolInit
<1>3. \A a \in Adapter : process[a] = Gone /\ link[a] = NoLink
  BY DEF PoolInit
<1>4. PoolTypeOK
  <2>1. <<>> \in Seq(Adapter) /\ <<>> \in Seq(Frame) /\ 0 \in 0..MaxBroken
    BY PoolAssumption
  <2> QED  BY <1>1, <2>1, GoneSound, PoolTypes DEF PoolInit, Deliveries
<1>5. ~\E a \in Adapter : Holds(idle, a)
  BY DEF PoolInit, Holds
<1>6. Owned
  <2>1. Len(idle) <= MaxIdle /\ Once(idle)
    BY PoolAssumption DEF PoolInit, Once
  <2> QED  BY <1>1, <1>2, <1>3, <1>5, <2>1, GoneSound DEF Owned
<1>7. ASSUME NEW r \in Request PROVE CallerSound(r, New, 0)
  <2>1. Limit(r) \in Nat /\ Own(r, <<>>)
    BY PoolAssumption DEF Limit, Own
  <2> QED  BY <1>1, <2>1 DEF CallerSound
<1>8. CallersSound
  BY <1>1, <1>2, <1>7 DEF CallersSound
<1>9. AdaptersSound
  BY <1>3, <1>5, GoneSound DEF AdaptersSound
<1> QED  BY <1>4, <1>6, <1>8, <1>9 DEF PoolInv

LEMMA PoolStep == PoolInv /\ [PoolNext]_poolVars => PoolInv'
<1> SUFFICES ASSUME PoolInv, [PoolNext]_poolVars PROVE PoolInv'
  OBVIOUS
<1>1. CASE UNCHANGED poolVars
  <2>1. PoolTypeOK' /\ Owned'
    BY <1>1 DEF poolVars, PoolInv, PoolTypeOK, Owned, Once, Holds
  <2>2. AdaptersSound'
    BY <1>1 DEF poolVars, PoolInv, AdaptersSound, LinkSound, IdleSound, Holds
  <2>3. CallersSound'
    <3>1. ASSUME NEW r \in Request
          PROVE  /\ CallerSound(r, caller'[r], served'[r])
                 /\ caller'[r].at = "exchange" =>
                       Exchanging(r, caller'[r], process'[caller'[r].adapter], delivery'[caller'[r].adapter],
                                  frames'[caller'[r].adapter], served'[r])
                 /\ caller'[r].at = "recover" =>
                       Recovering(process'[caller'[r].adapter], delivery'[caller'[r].adapter],
                                  frames'[caller'[r].adapter])
      BY <1>1 DEF poolVars, PoolInv, CallersSound
    <3> QED  BY <3>1 DEF CallersSound, CallerSound, Own, Limit, Exchanging, Piped, Read, Works, Sent, Recovering
  <2> QED  BY <2>1, <2>2, <2>3 DEF PoolInv
<1>2. CASE \E r \in Request : CallerStep(r)
  BY <1>2, RunPoolSteps, AcquireSteps, ExhaustedSteps, ReceiveAcceptedSteps, ReceiveDataSteps,
     ReceiveEndSteps, RecoverSteps, DisconnectSteps DEF CallerStep
<1>3. CASE \E r \in Request : GiveUp(r) \/ ObserverFails(r)
  BY <1>3, GiveUpSteps, ObserverFailsSteps
<1>4. CASE \E a \in Adapter : ProcessStep(a)
  BY <1>4, AcceptSteps, RefuseSteps, ConnectSteps, ReadHeadSteps, NoHeadSteps, ReadRestSteps,
     NoRestSteps DEF ProcessStep
<1>5. CASE \E a \in Adapter : IdleExit(a) \/ Breaks(a) \/ ConnectFails(a)
  BY <1>5, IdleExitSteps, BreaksSteps, ConnectFailsSteps
<1> QED  BY <1>1, <1>2, <1>3, <1>4, <1>5 DEF PoolNext

LEMMA PoolInvariant == PoolSpec => []PoolInv
BY PoolStart, PoolStep, PTL DEF PoolSpec

\* A request that must not be repeated goes out at most once, and one reported as
\* unsent never did: an adapter that has not accepted has sent nothing, and a
\* second process is only tried after such a one (exchange, safe_to_repeat).
THEOREM PoolRepeatsSafely == PoolSpec => []RepeatedSafely
BY PoolInvariant, PoolInvShows, PTL

\* What an observer sees is the beginning of its own request's answer, and no
\* adapter is lost, shared or kept beyond the pool's limit: a process only goes
\* back to the pool when its answer was read to the end (release, read_frame).
THEOREM PoolReusesClean == PoolSpec => []ReusedClean
BY PoolInvariant, PoolInvShows, PTL

-----------------------------------------------------------------------------
(* The state of the language servers. *)

EntryState == [life : {"free", "registered", "removed", "stopping", "stopped"},
               fingerprint : Fingerprint \cup {Off},
               client : {"none", "up", "down"},
               failures : 0..MaxFailures, crashes : 0..MaxFailures + 1,
               session : Query \cup {NoQuery}, observed : Condition]
QueryState == [at : {"idle", "loaded", "queued", "session", "asked", "poll", "check", "enabled",
                     "release", "returning"},
               fingerprint : Fingerprint \cup {Off}, on : Entry \cup {NoEntry},
               dirty : BOOLEAN, document : Text \cup {NoText}, answer : Text \cup {NoText},
               freshness : {"unavailable", "synchronized", "stale", "sync_gap"}]


LEMMA ServerTypes ==
    ServerTypeOK <=> /\ settings \in Fingerprint \cup {Off} /\ text \in Text
                     /\ reset \in BOOLEAN /\ user \in 0..MaxUser
                     /\ entry \in [Entry -> EntryState]
                     /\ query \in [Query -> QueryState]
BY DEF ServerTypeOK, EntryState, QueryState

\* What happens to an instance outside a session is published at once, and
\* every crash but the last leaves room for another.
EntrySound(i) ==
    /\ i.session = NoQuery => i.observed = ConditionOf(i)
    /\ i.failures = i.crashes
    /\ i.client # "none" => i.failures < MaxFailures

Holding == {"session", "asked", "poll", "check", "enabled", "release"}

\* Until its last check an answer that counts as synchronized is about the
\* document the server has.
QuerySound(q) ==
    /\ q.at \in {"idle", "loaded"} <=> q.on = NoEntry
    /\ q.at \in {"asked", "poll"} => q.answer = q.document
    /\ q.at = "check" /\ q.freshness = "synchronized" => q.answer = q.document

\* Who is in an instance's session, and who is not.
Sessions ==
    \A q \in Query, e \in Entry :
       entry[e].session = q <=> query[q].on = e /\ query[q].at \in Holding

ServerInv ==
    /\ ServerTypeOK /\ Sessions
    /\ \A e \in Entry : EntrySound(entry[e])
    /\ \A q \in Query : QuerySound(query[q])

LEMMA ServerShows == ServerInv => InstancesAreTrue
<1> SUFFICES ASSUME ServerInv PROVE InstancesAreTrue
  OBVIOUS
<1>1. IdleIsPublished
  <2> SUFFICES ASSUME NEW e \in Entry, \A q \in Query : query[q].on # e
               PROVE  entry[e].observed = ConditionOf(entry[e])
    BY DEF IdleIsPublished
  <2>1. entry[e].session \in Query \cup {NoQuery}
    BY ServerTypes DEF ServerInv, EntryState
  <2>2. entry[e].session = NoQuery
    BY <2>1 DEF ServerInv, Sessions
  <2> QED  BY <2>2 DEF ServerInv, EntrySound
<1>2. CrashLoopEnds
  <2> SUFFICES ASSUME NEW e \in Entry PROVE entry[e].crashes <= MaxFailures
    BY DEF CrashLoopEnds
  <2>1. entry[e].failures \in 0..MaxFailures /\ entry[e].failures = entry[e].crashes
    BY ServerTypes DEF ServerInv, EntryState, EntrySound
  <2> QED  BY <2>1, ServersAssumption
<1> QED  BY <1>1, <1>2 DEF InstancesAreTrue

-----------------------------------------------------------------------------
(* How queries and instances move. *)

LEMMA ServerMoves ==
    ASSUME settings' \in Fingerprint \cup {Off}, text' \in Text, reset' \in BOOLEAN, user' \in 0..MaxUser,
           entry' \in [Entry -> EntryState], query' \in [Query -> QueryState],
           \A e \in Entry : EntrySound(entry'[e]), \A q \in Query : QuerySound(query'[q]),
           \A q \in Query, e \in Entry :
              entry'[e].session = q <=> query'[q].on = e /\ query'[q].at \in Holding
    PROVE  ServerInv'
<1>1. ServerTypeOK'
  BY DEF ServerTypeOK, EntryState, QueryState
<1>2. Sessions'
  BY DEF Sessions, Holding
<1>3. (\A e \in Entry : EntrySound(entry[e]))'
  BY DEF EntrySound, ConditionOf
<1>4. (\A q \in Query : QuerySound(query[q]))'
  BY DEF QuerySound
<1> QED  BY <1>1, <1>2, <1>3, <1>4 DEF ServerInv

\* A query that has no session goes on, whatever happens to instances.
LEMMA OutsideMoves ==
    ASSUME ServerInv, NEW q \in Query, NEW d \in QueryState, QuerySound(d), d.at \notin Holding,
           query[q].at \notin Holding, query' = [query EXCEPT ![q] = d],
           entry' \in [Entry -> EntryState],
           \A e \in Entry : EntrySound(entry'[e]) /\ entry'[e].session = entry[e].session,
           UNCHANGED <<settings, text, reset, user>>
    PROVE  ServerInv'
<1>1. query' \in [Query -> QueryState] /\ query'[q] = d /\ \A p \in Query \ {q} : query'[p] = query[p]
  BY ServerTypes DEF ServerInv
<1>2. \A p \in Query : QuerySound(query'[p])
  BY <1>1 DEF ServerInv
<1>3. \A p \in Query, e \in Entry : entry'[e].session = p <=> query'[p].on = e /\ query'[p].at \in Holding
  BY <1>1 DEF ServerInv, Sessions
<1>4. /\ settings' \in Fingerprint \cup {Off} /\ text' \in Text /\ reset' \in BOOLEAN /\ user' \in 0..MaxUser
  BY ServerTypes DEF ServerInv
<1> QED  BY <1>1, <1>2, <1>3, <1>4, ServerMoves

\* A query and the instance it counts on.
LEMMA OneMoves ==
    ASSUME ServerInv, NEW q \in Query, NEW e \in Entry, query[q].on = e,
           NEW d \in QueryState, NEW j \in EntryState, QuerySound(d), EntrySound(j), d.on = e,
           query' = [query EXCEPT ![q] = d], entry' = [entry EXCEPT ![e] = j],
           UNCHANGED <<settings, text, reset, user>>,
           j.session = q <=> d.at \in Holding,
           {j.session, entry[e].session} \subseteq {q, NoQuery}
    PROVE  ServerInv'
<1>1. query' \in [Query -> QueryState] /\ query'[q] = d /\ \A p \in Query \ {q} : query'[p] = query[p]
  BY ServerTypes DEF ServerInv
<1>2. entry' \in [Entry -> EntryState] /\ entry'[e] = j /\ \A f \in Entry \ {e} : entry'[f] = entry[f]
  BY ServerTypes DEF ServerInv
<1>3. \A p \in Query : QuerySound(query'[p])
  BY <1>1 DEF ServerInv
<1>4. \A f \in Entry : EntrySound(entry'[f])
  BY <1>2 DEF ServerInv
<1>5. ASSUME NEW p \in Query, NEW f \in Entry
      PROVE  entry'[f].session = p <=> query'[p].on = f /\ query'[p].at \in Holding
  <2>1. entry[f].session = p <=> query[p].on = f /\ query[p].at \in Holding
    BY DEF ServerInv, Sessions
  <2>2. CASE f = e /\ p = q
    BY <1>1, <1>2, <2>2
  <2>3. CASE f = e /\ p # q
    <3>1. p # NoQuery
      BY ServersAssumption
    <3> QED  BY <1>1, <1>2, <2>1, <2>3, <3>1
  <2>4. CASE f # e /\ p = q
    BY <1>1, <1>2, <2>1, <2>4
  <2>5. CASE f # e /\ p # q
    BY <1>1, <1>2, <2>1, <2>5
  <2> QED  BY <2>2, <2>3, <2>4, <2>5
<1>6. /\ settings' \in Fingerprint \cup {Off} /\ text' \in Text /\ reset' \in BOOLEAN /\ user' \in 0..MaxUser
  BY ServerTypes DEF ServerInv
<1> QED  BY <1>1, <1>2, <1>3, <1>4, <1>5, <1>6, ServerMoves

\* Instances move by themselves.
LEMMA EntriesMove ==
    ASSUME ServerInv, UNCHANGED query, entry' \in [Entry -> EntryState],
           \A e \in Entry : EntrySound(entry'[e]) /\ entry'[e].session = entry[e].session,
           settings' \in Fingerprint \cup {Off}, text' \in Text, reset' \in BOOLEAN, user' \in 0..MaxUser
    PROVE  ServerInv'
<1>1. query' \in [Query -> QueryState] /\ \A p \in Query : QuerySound(query'[p])
  BY ServerTypes DEF ServerInv
<1>2. \A p \in Query, e \in Entry : entry'[e].session = p <=> query'[p].on = e /\ query'[p].at \in Holding
  BY DEF ServerInv, Sessions
<1> QED  BY <1>1, <1>2, ServerMoves

LEMMA EntryMoves ==
    ASSUME ServerInv, NEW e \in Entry, NEW j \in EntryState, EntrySound(j), j.session = entry[e].session,
           entry' = [entry EXCEPT ![e] = j], UNCHANGED <<settings, text, query, reset, user>>
    PROVE  ServerInv'
<1>1. entry' \in [Entry -> EntryState] /\ entry'[e] = j /\ \A f \in Entry \ {e} : entry'[f] = entry[f]
  BY ServerTypes DEF ServerInv
<1>2. \A f \in Entry : EntrySound(entry'[f]) /\ entry'[f].session = entry[f].session
  BY <1>1 DEF ServerInv
<1>3. /\ settings' \in Fingerprint \cup {Off} /\ text' \in Text /\ reset' \in BOOLEAN /\ user' \in 0..MaxUser
  BY ServerTypes DEF ServerInv
<1> QED  BY <1>1, <1>2, <1>3, EntriesMove

-----------------------------------------------------------------------------
(* What operators do to an instance or a query. *)

LEMMA ServerTyped ==
    ASSUME ServerInv
    PROVE  /\ \A e \in Entry : entry[e] \in EntryState /\ EntrySound(entry[e])
           /\ \A q \in Query : query[q] \in QueryState /\ QuerySound(query[q])
           /\ settings \in Fingerprint \cup {Off} /\ text \in Text /\ reset \in BOOLEAN /\ user \in 0..MaxUser
           /\ entry \in [Entry -> EntryState] /\ query \in [Query -> QueryState]
BY ServerTypes DEF ServerInv

LEMMA IdleTyped ==
    /\ Idle \in QueryState /\ QuerySound(Idle) /\ Idle.at = "idle" /\ Idle.on = NoEntry
    /\ Idle.freshness = "unavailable"
BY ServersAssumption DEF Idle, QueryState, QuerySound

LEMMA LeavingTyped ==
    ASSUME ServerInv, NEW q \in Query, NEW at \in {"queued", "enabled", "release", "returning"},
           query[q].on # NoEntry, NEW d, d = Leaving(q, at)
    PROVE  d \in QueryState /\ QuerySound(d) /\ d.at = at /\ d.on = query[q].on /\ d.freshness = "unavailable"
<1>1. PICK e \in Entry : e = query[q].on
  BY ServerTyped DEF QueryState
<1>2. d = [Idle EXCEPT !.at = at, !.on = e]
  BY <1>1 DEF Leaving
<1>3. d \in QueryState /\ d.at = at /\ d.on = e /\ d.freshness = "unavailable"
  BY <1>2, IdleTyped DEF QueryState
<1>4. QuerySound(d)
  BY <1>1, <1>3 DEF QuerySound
<1> QED  BY <1>1, <1>3, <1>4

LEMMA ConditionTyped ==
    ASSUME NEW i \in EntryState
    PROVE  ConditionOf(i) \in Condition
BY DEF ConditionOf, Condition, EntryState

LEMMA PublishedSound ==
    ASSUME NEW i \in EntryState, i.failures = i.crashes, i.client # "none" => i.failures < MaxFailures,
           NEW j, j = Published(i)
    PROVE  /\ j \in EntryState /\ EntrySound(j) /\ j.session = NoQuery
<1>1. j = [i EXCEPT !.session = NoQuery, !.observed = ConditionOf(i)]
  BY DEF Published
<1>2. /\ j \in EntryState /\ j.session = NoQuery /\ j.observed = ConditionOf(i)
      /\ j.client = i.client /\ j.failures = i.failures /\ j.crashes = i.crashes
  BY <1>1, ConditionTyped DEF EntryState
<1>3. ConditionOf(j) = ConditionOf(i)
  BY <1>2 DEF ConditionOf
<1> QED  BY <1>2, <1>3 DEF EntrySound

LEMMA CrashedSound ==
    ASSUME NEW i \in EntryState, i.failures = i.crashes, i.failures < MaxFailures,
           NEW j, j = Crashed(i)
    PROVE  /\ j \in EntryState /\ j.failures = j.crashes /\ j.client = "none" /\ j.session = i.session
<1>1. i.failures \in 0..MaxFailures /\ i.crashes \in 0..MaxFailures + 1 /\ MaxFailures \in Nat
  BY ServersAssumption DEF EntryState
<1>2. PICK m, n : m = i.failures + 1 /\ n = i.crashes + 1
  OBVIOUS
<1>3. m \in 0..MaxFailures /\ n \in 0..MaxFailures + 1 /\ m = n
  BY <1>1, <1>2
<1>4. /\ (IF i.failures < MaxFailures THEN i.failures + 1 ELSE i.failures) = m
      /\ (IF i.crashes <= MaxFailures THEN i.crashes + 1 ELSE i.crashes) = n
  BY <1>1, <1>2
<1>5. PICK k : k = [i EXCEPT !.client = "none"]
  OBVIOUS
<1>6. /\ k \in EntryState /\ k.client = "none" /\ k.session = i.session
  BY <1>5 DEF EntryState
<1>7. j = [i EXCEPT !.client = "none", !.failures = m, !.crashes = n]
  BY <1>4 DEF Crashed
<1>8. j = [k EXCEPT !.failures = m, !.crashes = n]
  BY <1>5, <1>7
<1>9. /\ j \in EntryState /\ j.client = "none" /\ j.session = i.session
      /\ j.failures = m /\ j.crashes = n
  BY <1>3, <1>6, <1>8 DEF EntryState
<1> QED  BY <1>3, <1>9

-----------------------------------------------------------------------------
(* What queries do. *)

LEMMA InHand ==
    ASSUME ServerInv, NEW q \in Query, query[q].at \notin {"idle", "loaded"}
    PROVE  query[q].on \in Entry
<1>1. query[q] \in QueryState /\ QuerySound(query[q])
  BY ServerTyped
<1> QED  BY <1>1 DEF QueryState, QuerySound

\* A query alone: it keeps its instance, and the session if it has it.
LEMMA QueryMoves ==
    ASSUME ServerInv, NEW q \in Query, NEW d \in QueryState, QuerySound(d),
           d.on = query[q].on, d.at \in Holding <=> query[q].at \in Holding,
           query' = [query EXCEPT ![q] = d], UNCHANGED <<settings, text, entry, reset, user>>
    PROVE  ServerInv'
<1>1. query' \in [Query -> QueryState] /\ query'[q] = d /\ \A p \in Query \ {q} : query'[p] = query[p]
  BY ServerTyped
<1>2. \A p \in Query : QuerySound(query'[p])
  BY <1>1, ServerTyped
<1>3. \A p \in Query, e \in Entry : entry[e].session = p <=> query[p].on = e /\ query[p].at \in Holding
  BY DEF ServerInv, Sessions
<1>4. \A p \in Query, e \in Entry : entry'[e].session = p <=> query'[p].on = e /\ query'[p].at \in Holding
  <2> SUFFICES ASSUME NEW p \in Query, NEW e \in Entry
               PROVE  entry'[e].session = p <=> query'[p].on = e /\ query'[p].at \in Holding
    OBVIOUS
  <2>1. CASE p = q
    BY <1>1, <1>3, <2>1
  <2>2. CASE p # q
    BY <1>1, <1>3, <2>2
  <2> QED  BY <2>1, <2>2
<1>5. /\ settings' \in Fingerprint \cup {Off} /\ text' \in Text /\ reset' \in BOOLEAN /\ user' \in 0..MaxUser
      /\ entry' \in [Entry -> EntryState] /\ \A e \in Entry : EntrySound(entry'[e])
  BY ServerTyped
<1> QED  BY <1>1, <1>2, <1>4, <1>5, ServerMoves

LEMMA HolderLeaves ==
    ASSUME ServerInv, NEW q \in Query, query[q].at \in Holding, NEW at \in {"enabled", "release"},
           query' = [query EXCEPT ![q] = Leaving(q, at)], UNCHANGED <<settings, text, entry, reset, user>>
    PROVE  ServerInv'
<1>1. PICK d : d = Leaving(q, at)
  OBVIOUS
<1>2. query[q].on \in Entry
  BY InHand DEF Holding
<1>3. query[q].on # NoEntry /\ at \in {"queued", "enabled", "release", "returning"}
  BY <1>2, ServersAssumption
<1>4. d \in QueryState /\ QuerySound(d) /\ d.at = at /\ d.on = query[q].on
  BY <1>1, <1>3, LeavingTyped
<1>5. d.at \in Holding <=> query[q].at \in Holding
  BY <1>4 DEF Holding
<1>6. query' = [query EXCEPT ![q] = d]
  BY <1>1
<1> QED  BY <1>4, <1>5, <1>6, QueryMoves

\* A query with its instance, whose session it keeps.
LEMMA HolderMoves ==
    ASSUME ServerInv, NEW q \in Query, query[q].at \in Holding,
           NEW e \in Entry, e = query[q].on, NEW j \in EntryState, EntrySound(j), j.session = entry[e].session,
           NEW d \in QueryState, QuerySound(d), d.on = e, d.at \in Holding,
           query' = [query EXCEPT ![q] = d], entry' = [entry EXCEPT ![e] = j],
           UNCHANGED <<settings, text, reset, user>>
    PROVE  ServerInv'
<1>1. entry[e].session = q
  BY DEF ServerInv, Sessions
<1> QED  BY <1>1, OneMoves

LEMMA RefuseStartKeeps == ASSUME ServerInv, NEW q \in Query, RefuseStart(q) PROVE ServerInv'
<1>1. query[q].at \in Holding
  BY DEF RefuseStart, InSession, Holding
<1>2. query' = [query EXCEPT ![q] = Leaving(q, "release")] /\ UNCHANGED <<settings, text, entry, reset, user>>
  BY DEF RefuseStart
<1>3. PICK at \in {"enabled", "release"} : at = "release"
  OBVIOUS
<1>4. query' = [query EXCEPT ![q] = Leaving(q, at)]
  BY <1>2, <1>3
<1> QED  BY <1>1, <1>2, <1>4, HolderLeaves

LEMMA ConfirmKeeps == ASSUME ServerInv, NEW q \in Query, Confirm(q) PROVE ServerInv'
<1>1. query[q].at \in Holding
  BY DEF Confirm, InSession, Holding
<1>2. query' = [query EXCEPT ![q] = Leaving(q, "release")] /\ UNCHANGED <<settings, text, entry, reset, user>>
  BY DEF Confirm
<1>3. PICK at \in {"enabled", "release"} : at = "release"
  OBVIOUS
<1>4. query' = [query EXCEPT ![q] = Leaving(q, at)]
  BY <1>2, <1>3
<1> QED  BY <1>1, <1>2, <1>4, HolderLeaves

LEMMA AskFailsKeeps == ASSUME ServerInv, NEW q \in Query, AskFails(q) PROVE ServerInv'
<1>1. query[q].at \in Holding
  BY DEF AskFails, InSession, Holding
<1>2. query' = [query EXCEPT ![q] = Leaving(q, "enabled")] /\ UNCHANGED <<settings, text, entry, reset, user>>
  BY DEF AskFails
<1>3. PICK at \in {"enabled", "release"} : at = "enabled"
  OBVIOUS
<1>4. query' = [query EXCEPT ![q] = Leaving(q, at)]
  BY <1>2, <1>3
<1> QED  BY <1>1, <1>2, <1>4, HolderLeaves

LEMMA AskKeeps == ASSUME ServerInv, NEW q \in Query, Ask(q) PROVE ServerInv'
<1>1. /\ query[q].at = "session" /\ UNCHANGED <<settings, text, entry, reset, user>>
      /\ query' = [query EXCEPT ![q] = [@ EXCEPT !.at = "asked", !.document = text, !.answer = text]]
  BY DEF Ask, InSession
<1>2. PICK c \in QueryState : c = query[q] /\ QuerySound(c)
  BY ServerTyped
<1>3. PICK b : b = [c EXCEPT !.at = "asked"]
  OBVIOUS
<1>4. b \in QueryState /\ b.at = "asked" /\ b.on = c.on
  BY <1>2, <1>3 DEF QueryState
<1>5. PICK d : d = [b EXCEPT !.document = text, !.answer = text]
  OBVIOUS
<1>6. d \in QueryState /\ d.at = "asked" /\ d.on = c.on /\ d.answer = d.document
  BY <1>4, <1>5, ServerTyped DEF QueryState
<1>7. d = [c EXCEPT !.at = "asked", !.document = text, !.answer = text]
  BY <1>3, <1>5
<1>8. query' = [query EXCEPT ![q] = d]
  BY <1>1, <1>2, <1>7
<1>9. QuerySound(d)
  BY <1>1, <1>2, <1>6 DEF QuerySound
<1>10. d.on = query[q].on /\ (d.at \in Holding <=> query[q].at \in Holding)
  BY <1>1, <1>2, <1>6 DEF Holding
<1> QED  BY <1>1, <1>6, <1>8, <1>9, <1>10, QueryMoves

LEMMA FinalPollKeeps == ASSUME ServerInv, NEW q \in Query, FinalPoll(q) PROVE ServerInv'
<1>1. /\ query[q].at = "poll" /\ UNCHANGED <<settings, text, entry, reset, user>>
  BY DEF FinalPoll, InSession
<1>2. PICK f \in Polled(q) : 
          query' = [query EXCEPT ![q] = [@ EXCEPT !.at = "check", !.freshness = f,
                      !.document = IF Client(q) = "up" THEN text ELSE query[q].document]]
  BY DEF FinalPoll
<1>3. PICK c \in QueryState : c = query[q] /\ QuerySound(c)
  BY ServerTyped
<1>4. c.at = "poll" /\ c.answer = c.document
  BY <1>1, <1>3 DEF QuerySound
<1>5. PICK t : t = IF Client(q) = "up" THEN text ELSE query[q].document
  OBVIOUS
<1>6. t \in Text \cup {NoText}
  BY <1>3, <1>5, ServerTyped DEF QueryState
<1>7. f \in {"unavailable", "synchronized", "stale", "sync_gap"} /\ (f = "synchronized" => t = c.document)
  <2>1. CASE Client(q) = "down"
    BY <1>2, <2>1 DEF Polled
  <2>2. CASE Client(q) # "down" /\ query[q].document # text
    BY <1>2, <2>2 DEF Polled
  <2>3. CASE Client(q) # "down" /\ query[q].document = text
    <3>1. f \in {query[q].freshness, "sync_gap", "stale"}
      BY <1>2, <2>3 DEF Polled
    <3>2. t = c.document
      BY <1>3, <1>5, <2>3
    <3> QED  BY <1>3, <3>1, <3>2 DEF QueryState
  <2> QED  BY <2>1, <2>2, <2>3
<1>8. PICK b : b = [c EXCEPT !.at = "check"]
  OBVIOUS
<1>9. b \in QueryState /\ b.at = "check" /\ b.on = c.on /\ b.answer = c.answer
  BY <1>3, <1>8 DEF QueryState
<1>10. PICK d : d = [b EXCEPT !.freshness = f, !.document = t]
  OBVIOUS
<1>11. /\ d \in QueryState /\ d.at = "check" /\ d.on = c.on /\ d.answer = c.answer /\ d.document = t
       /\ d.freshness = f
  BY <1>6, <1>7, <1>9, <1>10 DEF QueryState
<1>12. d = [c EXCEPT !.at = "check", !.freshness = f, !.document = t]
  BY <1>8, <1>10
<1>13. query' = [query EXCEPT ![q] = d]
  BY <1>2, <1>3, <1>5, <1>12
<1>14. QuerySound(d)
  BY <1>3, <1>4, <1>7, <1>11 DEF QuerySound
<1>15. d.on = query[q].on /\ (d.at \in Holding <=> query[q].at \in Holding)
  BY <1>1, <1>3, <1>11 DEF Holding
<1> QED  BY <1>1, <1>11, <1>13, <1>14, <1>15, QueryMoves

LEMMA CheckKeeps == ASSUME ServerInv, NEW q \in Query, Check(q) PROVE ServerInv'
<1>1. /\ query[q].at = "check" /\ UNCHANGED <<settings, text, entry, reset, user>>
      /\ query' = [query EXCEPT ![q] = [Leaving(q, "enabled") EXCEPT !.freshness = Verdict(q)]]
  BY DEF Check, InSession
<1>2. PICK at \in {"queued", "enabled", "release", "returning"} : at = "enabled"
  OBVIOUS
<1>3. PICK b : b = Leaving(q, at)
  OBVIOUS
<1>4. query[q].on # NoEntry
  BY <1>1, InHand, ServersAssumption
<1>5. b \in QueryState /\ QuerySound(b) /\ b.at = at /\ b.on = query[q].on
  BY <1>3, <1>4, LeavingTyped
<1>6. PICK v : v = Verdict(q)
  OBVIOUS
<1>7. v \in {"unavailable", "synchronized", "stale", "sync_gap"}
  BY <1>6, ServerTyped DEF Verdict, QueryState
<1>8. PICK d : d = [b EXCEPT !.freshness = v]
  OBVIOUS
<1>9. d \in QueryState /\ d.at = "enabled" /\ d.on = b.on
  BY <1>2, <1>5, <1>7, <1>8 DEF QueryState
<1>10. QuerySound(d)
  BY <1>2, <1>5, <1>9 DEF QuerySound
<1>11. query' = [query EXCEPT ![q] = d]
  BY <1>1, <1>2, <1>3, <1>6, <1>8
<1>12. d.on = query[q].on /\ (d.at \in Holding <=> query[q].at \in Holding)
  BY <1>1, <1>5, <1>9 DEF Holding
<1> QED  BY <1>1, <1>9, <1>10, <1>11, <1>12, QueryMoves

LEMMA LeaveQueueKeeps == ASSUME ServerInv, NEW q \in Query, LeaveQueue(q) PROVE ServerInv'
<1>1. /\ query[q].at = "queued" /\ query' = [query EXCEPT ![q] = Leaving(q, "returning")]
      /\ UNCHANGED <<settings, text, entry, reset, user>>
  BY DEF LeaveQueue
<1>2. PICK at \in {"queued", "enabled", "release", "returning"} : at = "returning"
  OBVIOUS
<1>3. PICK d : d = Leaving(q, at)
  OBVIOUS
<1>4. query[q].on # NoEntry
  BY <1>1, InHand, ServersAssumption
<1>5. d \in QueryState /\ QuerySound(d) /\ d.at = at /\ d.on = query[q].on
  BY <1>3, <1>4, LeavingTyped
<1>6. d.at \in Holding <=> query[q].at \in Holding
  BY <1>1, <1>2, <1>5 DEF Holding
<1>7. query' = [query EXCEPT ![q] = d]
  BY <1>1, <1>2, <1>3
<1> QED  BY <1>1, <1>5, <1>6, <1>7, QueryMoves

LEMMA ReturnKeeps == ASSUME ServerInv, NEW q \in Query, Return(q) PROVE ServerInv'
<1>1. /\ query[q].at = "returning" /\ query' = [query EXCEPT ![q] = Idle]
      /\ UNCHANGED <<settings, text, entry, reset, user>>
  BY DEF Return
<1>2. PICK d : d = Idle
  OBVIOUS
<1>3. d \in QueryState /\ QuerySound(d) /\ d.at \notin Holding /\ query[q].at \notin Holding
  BY <1>1, <1>2, IdleTyped DEF Holding
<1>4. query' = [query EXCEPT ![q] = d]
  BY <1>1, <1>2
<1>5. /\ entry' \in [Entry -> EntryState]
      /\ \A e \in Entry : EntrySound(entry'[e]) /\ entry'[e].session = entry[e].session
  BY <1>1, ServerTyped
<1>6. UNCHANGED <<settings, text, reset, user>>
  BY <1>1
<1> QED  BY <1>3, <1>4, <1>5, <1>6, OutsideMoves

LEMMA LoadKeeps == ASSUME ServerInv, NEW q \in Query, Load(q) PROVE ServerInv'
<1>1. /\ query[q].at = "idle" /\ UNCHANGED <<settings, text, reset, user>>
      /\ query' = [query EXCEPT ![q] = [@ EXCEPT !.at = "loaded", !.fingerprint = settings]]
      /\ entry' = [e \in Entry |-> IF e \in Registered /\ entry[e].fingerprint # settings
                                   THEN [entry[e] EXCEPT !.life = "removed"] ELSE entry[e]]
  BY DEF Load
<1>2. PICK c \in QueryState : c = query[q] /\ QuerySound(c)
  BY ServerTyped
<1>3. PICK d : d = [c EXCEPT !.at = "loaded", !.fingerprint = settings]
  OBVIOUS
<1>4. d \in QueryState /\ d.at = "loaded" /\ d.on = c.on
  BY <1>2, <1>3, ServerTyped DEF QueryState
<1>5. QuerySound(d)
  BY <1>1, <1>2, <1>4 DEF QuerySound
<1>6. query' = [query EXCEPT ![q] = d]
  BY <1>1, <1>2, <1>3
<1>7. \A e \in Entry : entry'[e] \in EntryState /\ EntrySound(entry'[e]) /\ entry'[e].session = entry[e].session
  <2> SUFFICES ASSUME NEW e \in Entry
               PROVE entry'[e] \in EntryState /\ EntrySound(entry'[e]) /\ entry'[e].session = entry[e].session
    OBVIOUS
  <2>1. PICK i \in EntryState : i = entry[e] /\ EntrySound(i)
    BY ServerTyped
  <2>2. PICK j : j = [i EXCEPT !.life = "removed"]
    OBVIOUS
  <2>3. j \in EntryState /\ EntrySound(j) /\ j.session = i.session
    BY <2>1, <2>2 DEF EntryState, EntrySound, ConditionOf
  <2>4. entry'[e] = j \/ entry'[e] = i
    BY <1>1, <2>1, <2>2
  <2> QED  BY <2>1, <2>3, <2>4
<1>8. entry' \in [Entry -> EntryState]
  BY <1>1, <1>7
<1>9. d.at \notin Holding /\ query[q].at \notin Holding
  BY <1>1, <1>4 DEF Holding
<1> QED  BY <1>1, <1>4, <1>5, <1>6, <1>7, <1>8, <1>9, OutsideMoves

LEMMA EnterKeeps == ASSUME ServerInv, NEW q \in Query, Enter(q) PROVE ServerInv'
<1>1. PICK f : f = query[q].fingerprint
  OBVIOUS
<1>2. PICK on \in Entry :
        /\ query' = [query EXCEPT ![q] = [Idle EXCEPT !.at = "queued", !.on = on]]
        /\ entry' = [e \in Entry |->
                       IF e = on THEN [entry[e] EXCEPT !.life = "registered", !.fingerprint = f]
                       ELSE IF e \in Registered THEN [entry[e] EXCEPT !.life = "removed"]
                       ELSE entry[e]]
  <2> DEFINE same == {e \in Registered : entry[e].fingerprint = query[q].fingerprint}
             unused == {e \in Entry : entry[e].life = "free"}
             on == IF same # {} THEN CHOOSE e \in same : TRUE ELSE CHOOSE e \in unused : TRUE
  <2>1. same # {} \/ unused # {}
    BY DEF Enter
  <2>2. on \in Entry
    BY <2>1 DEF Registered
  <2>3. /\ query' = [query EXCEPT ![q] = [Idle EXCEPT !.at = "queued", !.on = on]]
        /\ entry' = [e \in Entry |->
                       IF e = on THEN [entry[e] EXCEPT !.life = "registered",
                                                       !.fingerprint = query[q].fingerprint]
                       ELSE IF e \in Registered THEN [entry[e] EXCEPT !.life = "removed"]
                       ELSE entry[e]]
    BY Zenon DEF Enter
  <2> HIDE DEF on
  <2> QED  BY <1>1, <2>2, <2>3
<1>3. query[q].at = "loaded" /\ UNCHANGED <<settings, text, reset, user>>
  BY DEF Enter
<1>4. f \in Fingerprint \cup {Off}
  BY <1>1, ServerTyped DEF QueryState
<1>5. PICK d : d = [Idle EXCEPT !.at = "queued", !.on = on]
  OBVIOUS
<1>6. d \in QueryState /\ d.at = "queued" /\ d.on = on
  BY <1>5, IdleTyped DEF QueryState
<1>7. QuerySound(d)
  BY <1>6, ServersAssumption DEF QuerySound
<1>8. query' = [query EXCEPT ![q] = d]
  BY <1>2, <1>5
<1>9. \A e \in Entry : entry'[e] \in EntryState /\ EntrySound(entry'[e]) /\ entry'[e].session = entry[e].session
  <2> SUFFICES ASSUME NEW e \in Entry
               PROVE entry'[e] \in EntryState /\ EntrySound(entry'[e]) /\ entry'[e].session = entry[e].session
    OBVIOUS
  <2>1. PICK i \in EntryState : i = entry[e] /\ EntrySound(i)
    BY ServerTyped
  <2>2. PICK j, k : j = [i EXCEPT !.life = "removed"] /\ k = [i EXCEPT !.life = "registered", !.fingerprint = f]
    OBVIOUS
  <2>3. j \in EntryState /\ EntrySound(j) /\ j.session = i.session
    BY <2>1, <2>2 DEF EntryState, EntrySound, ConditionOf
  <2>4. k \in EntryState /\ EntrySound(k) /\ k.session = i.session
    BY <1>4, <2>1, <2>2 DEF EntryState, EntrySound, ConditionOf
  <2>5. entry'[e] = j \/ entry'[e] = k \/ entry'[e] = i
    BY <1>2, <2>1, <2>2
  <2> QED  BY <2>1, <2>3, <2>4, <2>5
<1>10. entry' \in [Entry -> EntryState]
  BY <1>2, <1>9
<1>11. d.at \notin Holding /\ query[q].at \notin Holding
  BY <1>3, <1>6 DEF Holding
<1> QED  BY <1>3, <1>6, <1>7, <1>8, <1>9, <1>10, <1>11, OutsideMoves

-----------------------------------------------------------------------------
(* Queries and the instances they hold. *)

LEMMA ZeroTyped == 0 \in 0..MaxFailures /\ 0 \in 0..MaxFailures + 1 /\ 0 \in 0..MaxUser
BY ServersAssumption

LEMMA InstanceTyped ==
    ASSUME ServerInv, NEW q \in Query, query[q].at \in Holding
    PROVE  \E e \in Entry, i \in EntryState :
             e = query[q].on /\ i = entry[e] /\ EntrySound(i) /\ i.session = q
<1>1. query[q].on \in Entry
  BY InHand DEF Holding
<1>2. entry[query[q].on] \in EntryState /\ EntrySound(entry[query[q].on]) /\ entry[query[q].on].session = q
  BY <1>1, ServerTyped DEF ServerInv, Sessions
<1> QED  BY <1>1, <1>2

LEMMA LeavingSound ==
    ASSUME ServerInv, NEW q \in Query, query[q].at \in Holding,
           NEW at \in {"enabled", "release", "returning"}
    PROVE  \E d \in QueryState : /\ d = Leaving(q, at) /\ QuerySound(d)
                                 /\ d.on = query[q].on /\ (d.at \in Holding <=> at # "returning")
<1>1. PICK d : d = Leaving(q, at)
  OBVIOUS
<1>2. query[q].on # NoEntry /\ at \in {"queued", "enabled", "release", "returning"}
  BY InHand, ServersAssumption DEF Holding
<1>3. d \in QueryState /\ QuerySound(d) /\ d.at = at /\ d.on = query[q].on
  BY <1>1, <1>2, LeavingTyped
<1> QED  BY <1>1, <1>3 DEF Holding

LEMMA AcquireKeeps == ASSUME ServerInv, NEW q \in Query, Acquire(q) PROVE ServerInv'
<1>1. query[q].at = "queued" /\ entry[query[q].on].session = NoQuery /\ UNCHANGED <<settings, text, reset, user>>
  BY DEF Acquire
<1>2. PICK e \in Entry : e = query[q].on
  BY <1>1, InHand
<1>3. PICK c \in QueryState : c = query[q] /\ QuerySound(c)
  BY ServerTyped
<1>4. PICK i \in EntryState : i = entry[e] /\ EntrySound(i)
  BY ServerTyped
<1>5. CASE Stopped(e)
  <2>1. query' = [query EXCEPT ![q] = Leaving(q, "returning")] /\ entry' = entry
    BY <1>2, <1>5 DEF Acquire
  <2>2. PICK at \in {"queued", "enabled", "release", "returning"} : at = "returning"
    OBVIOUS
  <2>3. PICK d : d = Leaving(q, at)
    OBVIOUS
  <2>4. query[q].on # NoEntry
    BY <1>1, InHand, ServersAssumption
  <2>5. d \in QueryState /\ QuerySound(d) /\ d.at = at /\ d.on = query[q].on
    BY <2>3, <2>4, LeavingTyped
  <2>6. d.at \in Holding <=> query[q].at \in Holding
    BY <1>1, <2>2, <2>5 DEF Holding
  <2>7. query' = [query EXCEPT ![q] = d] /\ UNCHANGED <<settings, text, entry, reset, user>>
    BY <1>1, <2>1, <2>2, <2>3
  <2> QED  BY <2>5, <2>6, <2>7, QueryMoves
<1>6. CASE ~Stopped(e)
  <2>1. /\ query' = [query EXCEPT ![q].at = "session"]
        /\ entry' = [entry EXCEPT ![query[q].on].session = q]
    BY <1>2, <1>6 DEF Acquire
  <2>2. PICK d, j : d = [c EXCEPT !.at = "session"] /\ j = [i EXCEPT !.session = q]
    OBVIOUS
  <2>3. d \in QueryState /\ d.at = "session" /\ d.on = c.on
    BY <1>3, <2>2 DEF QueryState
  <2>4. j \in EntryState /\ j.session = q /\ j.failures = i.failures /\ j.crashes = i.crashes /\ j.client = i.client
    BY <1>4, <2>2 DEF EntryState
  <2>5. QuerySound(d)
    BY <1>1, <1>3, <2>3 DEF QuerySound
  <2>6. EntrySound(j)
    BY <1>4, <2>4, ServersAssumption DEF EntrySound
  <2>7. query' = [query EXCEPT ![q] = d]
    BY <1>3, <2>1, <2>2
  <2>8. entry' = [entry EXCEPT ![e] = j]
    BY <1>2, <1>4, <2>1, <2>2
  <2>9. query[q].on = e /\ d.on = e
    BY <1>2, <1>3, <2>3
  <2>10. j.session = q <=> d.at \in Holding
    BY <2>3, <2>4 DEF Holding
  <2>11. {j.session, entry[e].session} \subseteq {q, NoQuery}
    BY <1>1, <1>2, <2>4
  <2>12. UNCHANGED <<settings, text, reset, user>>
    BY <1>1
  <2> QED  BY <2>3, <2>4, <2>5, <2>6, <2>7, <2>8, <2>9, <2>10, <2>11, <2>12, OneMoves
<1> QED  BY <1>5, <1>6

LEMMA StartKeeps == ASSUME ServerInv, NEW q \in Query, Start(q) PROVE ServerInv'
<1>1. /\ query[q].at \in Holding /\ entry[query[q].on].failures < MaxFailures
      /\ UNCHANGED <<settings, text, query, reset, user>>
      /\ entry' = [entry EXCEPT ![query[q].on] = Started(@)]
  BY DEF Start, InSession, MayStart, Holding
<1>2. PICK e \in Entry, i \in EntryState :
        e = query[q].on /\ i = entry[e] /\ EntrySound(i) /\ i.session = q
  BY <1>1, InstanceTyped
<1>3. PICK j : j = [i EXCEPT !.client = "up"]
  OBVIOUS
<1>4. j \in EntryState /\ j.session = q /\ j.failures = i.failures /\ j.crashes = i.crashes
  BY <1>2, <1>3 DEF EntryState
<1>5. EntrySound(j)
  BY <1>1, <1>2, <1>4, ServersAssumption DEF EntrySound
<1>6. entry' = [entry EXCEPT ![e] = j] /\ j.session = entry[e].session
  BY <1>1, <1>2, <1>3, <1>4 DEF Started
<1>7. UNCHANGED <<settings, text, query, reset, user>>
  BY <1>1
<1>8. e \in Entry /\ j \in EntryState /\ j.session = entry[e].session
  BY <1>4, <1>6
<1>9. entry' = [entry EXCEPT ![e] = j]
  BY <1>6
<1> QED  BY ONLY ServerInv, <1>5, <1>7, <1>8, <1>9, EntryMoves

\* The server crashes under the query that has it.
LEMMA LosesSound ==
    ASSUME ServerInv, NEW q \in Query, query[q].at \in Holding, entry[query[q].on].failures < MaxFailures,
           NEW at \in {"enabled", "release"},
           entry' = [entry EXCEPT ![query[q].on] = Crashed(@)],
           query' = [query EXCEPT ![q] = Leaving(q, at)],
           UNCHANGED <<settings, text, reset, user>>
    PROVE  ServerInv'
<1>1. PICK e \in Entry, i \in EntryState :
        e = query[q].on /\ i = entry[e] /\ EntrySound(i) /\ i.session = q
  BY InstanceTyped
<1>2. PICK j : j = Crashed(i)
  OBVIOUS
<1>3. i.failures = i.crashes /\ i.failures < MaxFailures
  BY <1>1 DEF EntrySound
<1>4. j \in EntryState /\ j.failures = j.crashes /\ j.client = "none" /\ j.session = i.session
  BY <1>2, <1>3, CrashedSound
<1>5. EntrySound(j)
  BY <1>1, <1>4, ServersAssumption DEF EntrySound
<1>6. at \in {"enabled", "release", "returning"}
  OBVIOUS
<1>7. PICK d \in QueryState : /\ d = Leaving(q, at) /\ QuerySound(d)
                              /\ d.on = query[q].on /\ (d.at \in Holding <=> at # "returning")
  BY <1>6, LeavingSound
<1>8. query' = [query EXCEPT ![q] = d]
  BY <1>7
<1>9. entry' = [entry EXCEPT ![e] = j]
  BY <1>1, <1>2
<1>10. /\ query[q].at \in Holding /\ e = query[q].on /\ d.on = e /\ d.at \in Holding
       /\ j \in EntryState /\ d \in QueryState /\ q \in Query /\ e \in Entry
       /\ j.session = entry[e].session /\ QuerySound(d)
  BY <1>1, <1>4, <1>7
<1>11. UNCHANGED <<settings, text, reset, user>>
  OBVIOUS
<1> QED  BY ONLY ServerInv, <1>5, <1>8, <1>9, <1>10, <1>11, HolderMoves

LEMMA StartFailsKeeps == ASSUME ServerInv, NEW q \in Query, StartFails(q) PROVE ServerInv'
<1>1. /\ query[q].at \in Holding /\ entry[query[q].on].failures < MaxFailures
      /\ UNCHANGED <<settings, text, reset, user>>
      /\ query' = [query EXCEPT ![q] = Leaving(q, "release")]
      /\ entry' \in {entry, [entry EXCEPT ![query[q].on] = Crashed(@)]}
  BY DEF StartFails, InSession, MayStart, Holding
<1>2. PICK at \in {"enabled", "release"} : at = "release"
  OBVIOUS
<1>3. query' = [query EXCEPT ![q] = Leaving(q, at)]
  BY <1>1, <1>2
<1>4. CASE entry' = entry
  <2>1. UNCHANGED <<settings, text, entry, reset, user>>
    BY <1>1, <1>4
  <2> QED  BY <1>1, <1>3, <2>1, HolderLeaves
<1>5. CASE entry' = [entry EXCEPT ![query[q].on] = Crashed(@)]
  BY <1>1, <1>3, <1>5, LosesSound
<1> QED  BY <1>1, <1>4, <1>5

LEMMA LosesKeeps == ASSUME ServerInv, NEW q \in Query, Loses(q) PROVE ServerInv'
<1>1. /\ query[q].at \in Holding /\ entry[query[q].on].client = "down"
      /\ UNCHANGED <<settings, text, reset, user>>
      /\ query' = [query EXCEPT ![q] = Leaving(q, "enabled")]
      /\ entry' = [entry EXCEPT ![query[q].on] = Crashed(@)]
  BY DEF Loses, InSession, Client, Holding
<1>2. PICK at \in {"enabled", "release"} : at = "enabled"
  OBVIOUS
<1>3. query' = [query EXCEPT ![q] = Leaving(q, at)]
  BY <1>1, <1>2
<1>4. entry[query[q].on].failures < MaxFailures
  BY <1>1, InstanceTyped DEF EntrySound
<1> QED  BY <1>1, <1>3, <1>4, LosesSound

LEMMA AnswerKeeps == ASSUME ServerInv, NEW q \in Query, Answer(q) PROVE ServerInv'
<1>1. /\ query[q].at = "asked" /\ UNCHANGED <<settings, text, reset, user>>
      /\ entry' = [entry EXCEPT ![query[q].on] = [@ EXCEPT !.failures = 0, !.crashes = 0]]
  BY DEF Answer, InSession
<1>2. PICK f \in {"synchronized", "sync_gap"} :
          query' = [query EXCEPT ![q] = [@ EXCEPT !.at = "poll", !.freshness = f]]
  BY DEF Answer
<1>3. query[q].at \in Holding
  BY <1>1 DEF Holding
<1>4. PICK e \in Entry, i \in EntryState :
        e = query[q].on /\ i = entry[e] /\ EntrySound(i) /\ i.session = q
  BY <1>3, InstanceTyped
<1>5. PICK j : j = [i EXCEPT !.failures = 0, !.crashes = 0]
  OBVIOUS
<1>6. j \in EntryState /\ j.session = q /\ j.failures = 0 /\ j.crashes = 0
  BY <1>4, <1>5, ZeroTyped DEF EntryState
<1>7. EntrySound(j)
  BY <1>6, ServersAssumption DEF EntrySound
<1>8. PICK c \in QueryState : c = query[q] /\ QuerySound(c)
  BY ServerTyped
<1>9. PICK d : d = [c EXCEPT !.at = "poll", !.freshness = f]
  OBVIOUS
<1>10. d \in QueryState /\ d.at = "poll" /\ d.on = c.on /\ d.answer = c.answer /\ d.document = c.document
  BY <1>8, <1>9 DEF QueryState
<1>11. QuerySound(d)
  BY <1>1, <1>8, <1>10 DEF QuerySound
<1>12. query' = [query EXCEPT ![q] = d] /\ entry' = [entry EXCEPT ![e] = j]
  BY <1>1, <1>2, <1>4, <1>5, <1>8, <1>9
<1>13. e = query[q].on /\ d.on = e /\ d.at \in Holding /\ j.session = entry[e].session
  BY <1>4, <1>6, <1>8, <1>10 DEF Holding
<1>14. UNCHANGED <<settings, text, reset, user>>
  BY <1>1
<1> QED  BY <1>3, <1>6, <1>7, <1>10, <1>11, <1>12, <1>13, <1>14, HolderMoves

\* Whether it is registered matters to no session.
LEMMA LifeMoves ==
    ASSUME NEW i \in EntryState, EntrySound(i),
           NEW life \in {"free", "registered", "removed", "stopping", "stopped"},
           NEW j, j = [i EXCEPT !.life = life]
    PROVE  j \in EntryState /\ EntrySound(j) /\ j.session = i.session
BY DEF EntryState, EntrySound, ConditionOf

LEMMA RetireOwnKeeps == ASSUME ServerInv, NEW q \in Query, RetireOwn(q) PROVE ServerInv'
<1>1. /\ query[q].at \in Holding /\ UNCHANGED <<settings, text, reset, user>>
      /\ query' = [query EXCEPT ![q] = Leaving(q, "release")]
      /\ entry' = [entry EXCEPT ![query[q].on].life = IF @ = "registered" THEN "removed" ELSE @]
  BY DEF RetireOwn, InSession, Holding
<1>2. PICK e \in Entry, i \in EntryState :
        e = query[q].on /\ i = entry[e] /\ EntrySound(i) /\ i.session = q
  BY <1>1, InstanceTyped
<1>3. PICK life : life = IF i.life = "registered" THEN "removed" ELSE i.life
  OBVIOUS
<1>4. life \in {"free", "registered", "removed", "stopping", "stopped"}
  BY <1>2, <1>3 DEF EntryState
<1>5. PICK j : j = [i EXCEPT !.life = life]
  OBVIOUS
<1>6. j \in EntryState /\ EntrySound(j) /\ j.session = i.session
  BY <1>2, <1>4, <1>5, LifeMoves
<1>7. PICK at \in {"enabled", "release", "returning"} : at = "release"
  OBVIOUS
<1>8. PICK d \in QueryState : /\ d = Leaving(q, at) /\ QuerySound(d)
                              /\ d.on = query[q].on /\ (d.at \in Holding <=> at # "returning")
  BY <1>1, LeavingSound
<1>9. query' = [query EXCEPT ![q] = d] /\ entry' = [entry EXCEPT ![e] = j]
  BY <1>1, <1>2, <1>3, <1>5, <1>7, <1>8
<1>10. e = query[q].on /\ d.on = e /\ d.at \in Holding /\ j.session = entry[e].session
  BY <1>2, <1>6, <1>7, <1>8
<1>11. UNCHANGED <<settings, text, reset, user>> /\ query[q].at \in Holding
  BY <1>1
<1> QED  BY <1>6, <1>8, <1>9, <1>10, <1>11, HolderMoves

LEMMA ReleaseKeeps == ASSUME ServerInv, NEW q \in Query, Release(q) PROVE ServerInv'
<1>1. /\ query[q].at = "release" /\ UNCHANGED <<settings, text, reset, user>>
      /\ query' = [query EXCEPT ![q] = Leaving(q, "returning")]
      /\ entry' = [entry EXCEPT ![query[q].on] = Published(@)]
  BY DEF Release, InSession
<1>2. query[q].at \in Holding
  BY <1>1 DEF Holding
<1>3. PICK e \in Entry, i \in EntryState :
        e = query[q].on /\ i = entry[e] /\ EntrySound(i) /\ i.session = q
  BY <1>2, InstanceTyped
<1>4. PICK j : j = Published(i)
  OBVIOUS
<1>5. i.failures = i.crashes /\ (i.client # "none" => i.failures < MaxFailures)
  BY <1>3 DEF EntrySound
<1>6. j \in EntryState /\ EntrySound(j) /\ j.session = NoQuery
  BY <1>4, <1>5, PublishedSound
<1>7. PICK at \in {"enabled", "release", "returning"} : at = "returning"
  OBVIOUS
<1>8. PICK d \in QueryState : /\ d = Leaving(q, at) /\ QuerySound(d)
                              /\ d.on = query[q].on /\ (d.at \in Holding <=> at # "returning")
  BY <1>2, LeavingSound
<1>9. query' = [query EXCEPT ![q] = d] /\ entry' = [entry EXCEPT ![e] = j]
  BY <1>1, <1>3, <1>4, <1>7, <1>8
<1>10. query[q].on = e /\ d.on = e
  BY <1>3, <1>8
<1>11. j.session = q <=> d.at \in Holding
  BY <1>6, <1>7, <1>8, ServersAssumption
<1>12. {j.session, entry[e].session} \subseteq {q, NoQuery}
  BY <1>3, <1>6
<1>13. UNCHANGED <<settings, text, reset, user>>
  BY <1>1
<1> QED  BY <1>6, <1>8, <1>9, <1>10, <1>11, <1>12, <1>13, OneMoves

-----------------------------------------------------------------------------
(* What instances, the pump, the panel and the file do. *)

LEMMA StopKeeps == ASSUME ServerInv, NEW e \in Entry, Stop(e) \/ PumpRetires(e) PROVE ServerInv'
<1>1. PICK life \in {"removed", "stopping"} : entry' = [entry EXCEPT ![e].life = life]
  BY DEF Stop, PumpRetires
<1>2. UNCHANGED <<settings, text, query, reset, user>>
  BY DEF Stop, PumpRetires
<1>3. PICK i \in EntryState : i = entry[e] /\ EntrySound(i)
  BY ServerTyped
<1>4. PICK j : j = [i EXCEPT !.life = life]
  OBVIOUS
<1>5. life \in {"free", "registered", "removed", "stopping", "stopped"}
  BY <1>1
<1>6. j \in EntryState /\ EntrySound(j) /\ j.session = entry[e].session
  BY <1>3, <1>4, <1>5, LifeMoves
<1>7. entry' = [entry EXCEPT ![e] = j]
  BY <1>1, <1>3, <1>4
<1> QED  BY <1>2, <1>6, <1>7, EntryMoves

LEMMA ShutdownKeeps == ASSUME ServerInv, NEW e \in Entry, Shutdown(e) PROVE ServerInv'
<1>1. /\ entry[e].session = NoQuery /\ UNCHANGED <<settings, text, query, reset, user>>
      /\ entry' = [entry EXCEPT ![e] = Published([@ EXCEPT !.life = "stopped", !.client = "none"])]
  BY DEF Shutdown
<1>2. PICK i \in EntryState : i = entry[e] /\ EntrySound(i)
  BY ServerTyped
<1>3. PICK k : k = [i EXCEPT !.life = "stopped", !.client = "none"]
  OBVIOUS
<1>4. k \in EntryState /\ k.client = "none" /\ k.failures = i.failures /\ k.crashes = i.crashes
  BY <1>2, <1>3 DEF EntryState
<1>5. k.failures = k.crashes /\ (k.client # "none" => k.failures < MaxFailures)
  BY <1>2, <1>4 DEF EntrySound
<1>6. PICK j : j = Published(k)
  OBVIOUS
<1>7. j \in EntryState /\ EntrySound(j) /\ j.session = NoQuery
  BY <1>4, <1>5, <1>6, PublishedSound
<1>8. entry' = [entry EXCEPT ![e] = j] /\ j.session = entry[e].session
  BY <1>1, <1>2, <1>3, <1>6, <1>7
<1> QED  BY <1>1, <1>7, <1>8, EntryMoves

LEMMA FreeSound == Free \in EntryState /\ EntrySound(Free) /\ Free.session = NoQuery
<1>1. Unstarted \in Condition
  BY ZeroTyped DEF Unstarted, Condition
<1>2. /\ Free \in EntryState /\ Free.session = NoQuery /\ Free.client = "none"
      /\ Free.failures = 0 /\ Free.crashes = 0 /\ Free.observed = Unstarted
  BY <1>1, ZeroTyped DEF Free, EntryState
<1>3. ConditionOf(Free) = Unstarted
  BY <1>2 DEF ConditionOf, Unstarted
<1> QED  BY <1>2, <1>3 DEF EntrySound

LEMMA ForgetKeeps == ASSUME ServerInv, NEW e \in Entry, Forget(e) PROVE ServerInv'
<1>1. /\ \A q \in Query : query[q].on # e
      /\ entry' = [entry EXCEPT ![e] = Free] /\ UNCHANGED <<settings, text, query, reset, user>>
  BY DEF Forget
<1>2. entry[e].session = NoQuery
  BY <1>1, ServerTyped DEF ServerInv, Sessions, EntryState
<1>3. PICK j : j = Free
  OBVIOUS
<1>4. j \in EntryState /\ EntrySound(j) /\ j.session = entry[e].session
  BY <1>2, <1>3, FreeSound
<1>5. entry' = [entry EXCEPT ![e] = j]
  BY <1>1, <1>3
<1> QED  BY <1>1, <1>4, <1>5, EntryMoves

LEMMA PumpLosesKeeps == ASSUME ServerInv, NEW e \in Entry, PumpLoses(e) PROVE ServerInv'
<1>1. /\ entry[e].client = "down" /\ entry[e].session = NoQuery
      /\ entry' = [entry EXCEPT ![e] = Published(Crashed(@))]
      /\ UNCHANGED <<settings, text, query, reset, user>>
  BY DEF PumpLoses
<1>2. PICK i \in EntryState : i = entry[e] /\ EntrySound(i)
  BY ServerTyped
<1>3. PICK k : k = Crashed(i)
  OBVIOUS
<1>4. i.failures = i.crashes /\ i.failures < MaxFailures
  BY <1>1, <1>2 DEF EntrySound
<1>5. k \in EntryState /\ k.failures = k.crashes /\ k.client = "none"
  BY <1>3, <1>4, CrashedSound
<1>6. k.client # "none" => k.failures < MaxFailures
  BY <1>5
<1>7. PICK j : j = Published(k)
  OBVIOUS
<1>8. j \in EntryState /\ EntrySound(j) /\ j.session = NoQuery
  BY <1>5, <1>6, <1>7, PublishedSound
<1>9. entry' = [entry EXCEPT ![e] = j] /\ j.session = entry[e].session
  BY <1>1, <1>2, <1>3, <1>7, <1>8
<1> QED  BY <1>1, <1>8, <1>9, EntryMoves

LEMMA ProcessEndsKeeps == ASSUME ServerInv, NEW e \in Entry, ProcessEnds(e) PROVE ServerInv'
<1>1. /\ entry[e].client = "up" /\ entry' = [entry EXCEPT ![e].client = "down"]
      /\ UNCHANGED <<settings, text, query, reset, user>>
  BY DEF ProcessEnds
<1>2. PICK i \in EntryState : i = entry[e] /\ EntrySound(i)
  BY ServerTyped
<1>3. PICK j : j = [i EXCEPT !.client = "down"]
  OBVIOUS
<1>4. /\ j \in EntryState /\ j.session = i.session /\ j.client = "down" /\ j.observed = i.observed
      /\ j.failures = i.failures /\ j.crashes = i.crashes
  BY <1>2, <1>3 DEF EntryState
<1>5. ConditionOf(j) = ConditionOf(i)
  BY <1>1, <1>2, <1>4 DEF ConditionOf
<1>6. EntrySound(j)
  BY <1>1, <1>2, <1>4, <1>5 DEF EntrySound
<1>7. entry' = [entry EXCEPT ![e] = j] /\ j.session = entry[e].session
  BY <1>1, <1>2, <1>3, <1>4
<1> QED  BY <1>1, <1>4, <1>6, <1>7, EntryMoves

LEMMA RetireAllKeeps == ASSUME ServerInv, RetireAll PROVE ServerInv'
<1>1. /\ UNCHANGED <<settings, text, query, reset>> /\ user < MaxUser /\ user' = user + 1
      /\ entry' = [e \in Entry |-> IF e \in Registered THEN [entry[e] EXCEPT !.life = "removed"]
                                   ELSE entry[e]]
  BY DEF RetireAll
<1>2. \A e \in Entry : entry'[e] \in EntryState /\ EntrySound(entry'[e]) /\ entry'[e].session = entry[e].session
  <2> SUFFICES ASSUME NEW e \in Entry
               PROVE entry'[e] \in EntryState /\ EntrySound(entry'[e]) /\ entry'[e].session = entry[e].session
    OBVIOUS
  <2>1. PICK i \in EntryState : i = entry[e] /\ EntrySound(i)
    BY ServerTyped
  <2>2. PICK life \in {"free", "registered", "removed", "stopping", "stopped"} : life = "removed"
    OBVIOUS
  <2>3. PICK j : j = [i EXCEPT !.life = life]
    OBVIOUS
  <2>4. j \in EntryState /\ EntrySound(j) /\ j.session = i.session
    BY <2>1, <2>3, LifeMoves
  <2>5. entry'[e] = j \/ entry'[e] = i
    BY <1>1, <2>1, <2>2, <2>3
  <2> QED  BY <2>1, <2>4, <2>5
<1>3. entry' \in [Entry -> EntryState]
  BY <1>1, <1>2
<1>4. settings' \in Fingerprint \cup {Off} /\ text' \in Text /\ reset' \in BOOLEAN /\ user' \in 0..MaxUser
  BY <1>1, ServerTyped, ServersAssumption
<1>5. UNCHANGED query
  BY <1>1
<1> QED  BY <1>2, <1>3, <1>4, <1>5, EntriesMove

LEMMA ResetKeeps == ASSUME ServerInv, Reset PROVE ServerInv'
<1>1. /\ UNCHANGED <<settings, text, query, user>> /\ reset' = FALSE
      /\ entry' = [e \in Entry |->
                     IF e \in Registered /\ entry[e].session = NoQuery
                     THEN Published([entry[e] EXCEPT !.failures = 0, !.crashes = 0])
                     ELSE entry[e]]
  BY DEF Reset, Resets
<1>2. \A e \in Entry : entry'[e] \in EntryState /\ EntrySound(entry'[e]) /\ entry'[e].session = entry[e].session
  <2> SUFFICES ASSUME NEW e \in Entry
               PROVE entry'[e] \in EntryState /\ EntrySound(entry'[e]) /\ entry'[e].session = entry[e].session
    OBVIOUS
  <2>1. PICK i \in EntryState : i = entry[e] /\ EntrySound(i)
    BY ServerTyped
  <2>2. PICK k : k = [i EXCEPT !.failures = 0, !.crashes = 0]
    OBVIOUS
  <2>3. k \in EntryState /\ k.failures = 0 /\ k.crashes = 0
    BY <2>1, <2>2, ZeroTyped DEF EntryState
  <2>4. k.failures = k.crashes /\ (k.client # "none" => k.failures < MaxFailures)
    BY <2>3, ServersAssumption
  <2>5. PICK j : j = Published(k)
    OBVIOUS
  <2>6. j \in EntryState /\ EntrySound(j) /\ j.session = NoQuery
    BY <2>3, <2>4, <2>5, PublishedSound
  <2>7. CASE e \in Registered /\ entry[e].session = NoQuery
    <3>1. entry'[e] = j
      BY <1>1, <2>1, <2>2, <2>5, <2>7
    <3> QED  BY <2>6, <2>7, <3>1
  <2>8. CASE ~(e \in Registered /\ entry[e].session = NoQuery)
    <3>1. entry'[e] = i
      BY <1>1, <2>1, <2>8
    <3> QED  BY <2>1, <3>1
  <2> QED  BY <2>7, <2>8
<1>3. entry' \in [Entry -> EntryState]
  BY <1>1, <1>2
<1>4. settings' \in Fingerprint \cup {Off} /\ text' \in Text /\ reset' \in BOOLEAN /\ user' \in 0..MaxUser
  BY <1>1, ServerTyped
<1>5. UNCHANGED query
  BY <1>1
<1> QED  BY <1>2, <1>3, <1>4, <1>5, EntriesMove

\* What happens to neither.
LEMMA AroundKeeps == ASSUME ServerInv, SaveSettings \/ BeginReset \/ Changes PROVE ServerInv'
<1>1. UNCHANGED query /\ UNCHANGED entry
  BY DEF SaveSettings, BeginReset, Changes
<1>2. entry' \in [Entry -> EntryState]
  BY <1>1, ServerTyped
<1>3. \A e \in Entry : EntrySound(entry'[e]) /\ entry'[e].session = entry[e].session
  BY <1>1, ServerTyped
<1>4. settings' \in Fingerprint \cup {Off} /\ text' \in Text /\ reset' \in BOOLEAN
  BY ServerTyped DEF SaveSettings, BeginReset, Changes
<1>5. user' \in 0..MaxUser
  BY ServerTyped, ServersAssumption DEF SaveSettings, BeginReset, Changes
<1> QED  BY <1>1, <1>2, <1>3, <1>4, <1>5, EntriesMove

LEMMA InvalidateKeeps == ASSUME ServerInv, Invalidate PROVE ServerInv'
<1>1. /\ UNCHANGED <<settings, text, entry, reset, user>>
      /\ query' = [q \in Query |->
                    [query[q] EXCEPT !.dirty = @ \/ (query[q].on \in Registered /\ Unjudged(q))]]
  BY DEF Invalidate
<1>2. ASSUME NEW q \in Query
      PROVE  /\ query'[q] \in QueryState /\ QuerySound(query'[q])
             /\ query'[q].on = query[q].on /\ query'[q].at = query[q].at
  <2>1. PICK c \in QueryState : c = query[q] /\ QuerySound(c)
    BY ServerTyped
  <2>2. PICK dirty \in BOOLEAN : dirty = (c.dirty \/ (query[q].on \in Registered /\ Unjudged(q)))
    BY <2>1 DEF QueryState
  <2>3. query'[q] = [c EXCEPT !.dirty = dirty]
    BY <1>1, <2>1, <2>2
  <2>4. PICK d : d = [c EXCEPT !.dirty = dirty]
    OBVIOUS
  <2>5. d \in QueryState /\ d.on = c.on /\ d.at = c.at /\ QuerySound(d)
    BY <2>1, <2>4 DEF QueryState, QuerySound
  <2> QED  BY <2>1, <2>3, <2>4, <2>5
<1>3. query' \in [Query -> QueryState]
  BY <1>1, <1>2
<1>4. \A q \in Query, e \in Entry :
         entry'[e].session = q <=> query'[q].on = e /\ query'[q].at \in Holding
  <2>1. \A q \in Query, e \in Entry : entry[e].session = q <=> query[q].on = e /\ query[q].at \in Holding
    BY DEF ServerInv, Sessions
  <2>2. entry' = entry
    BY <1>1
  <2> QED  BY <1>2, <2>1, <2>2
<1>5. /\ settings' \in Fingerprint \cup {Off} /\ text' \in Text /\ reset' \in BOOLEAN /\ user' \in 0..MaxUser
      /\ entry' \in [Entry -> EntryState] /\ \A e \in Entry : EntrySound(entry'[e])
  BY <1>1, ServerTyped
<1> QED  BY <1>2, <1>3, <1>4, <1>5, ServerMoves

-----------------------------------------------------------------------------
(* The invariant, and what it shows. *)

LEMMA ServerStarts == ServerInit => ServerInv
<1> SUFFICES ASSUME ServerInit PROVE ServerInv
  OBVIOUS
<1>1. \A e \in Entry : entry[e] = Free
  BY DEF ServerInit
<1>2. \A q \in Query : query[q] = Idle
  BY DEF ServerInit
<1>3. entry \in [Entry -> EntryState] /\ \A e \in Entry : EntrySound(entry[e])
  BY <1>1, FreeSound DEF ServerInit
<1>4. query \in [Query -> QueryState] /\ \A q \in Query : QuerySound(query[q])
  BY <1>2, IdleTyped DEF ServerInit
<1>5. Sessions
  BY <1>1, <1>2, FreeSound, IdleTyped, ServersAssumption DEF Sessions, Holding
<1>6. settings \in Fingerprint \cup {Off} /\ text \in Text /\ reset \in BOOLEAN /\ user \in 0..MaxUser
  BY ZeroTyped DEF ServerInit
<1> QED  BY <1>3, <1>4, <1>5, <1>6, ServerTypes DEF ServerInv

LEMMA ServerStutters == ASSUME ServerInv, UNCHANGED serverVars PROVE ServerInv'
<1>1. UNCHANGED <<settings, text, entry, query, reset, user>>
  BY DEF serverVars
<1>2. entry' \in [Entry -> EntryState]
  BY <1>1, ServerTyped
<1>3. \A e \in Entry : EntrySound(entry'[e]) /\ entry'[e].session = entry[e].session
  BY <1>1, ServerTyped
<1>4. settings' \in Fingerprint \cup {Off} /\ text' \in Text /\ reset' \in BOOLEAN /\ user' \in 0..MaxUser
  BY <1>1, ServerTyped
<1> QED  BY <1>1, <1>2, <1>3, <1>4, EntriesMove

LEMMA ServerStep == ServerInv /\ [ServerNext]_serverVars => ServerInv'
<1> SUFFICES ASSUME ServerInv, [ServerNext]_serverVars PROVE ServerInv'
  OBVIOUS
<1>1. ASSUME NEW q \in Query, Load(q) \/ QueryStep(q) PROVE ServerInv'
  BY <1>1, LoadKeeps, EnterKeeps, AcquireKeeps, LeaveQueueKeeps, RefuseStartKeeps, StartKeeps,
     StartFailsKeeps, AskKeeps, AskFailsKeeps, LosesKeeps, AnswerKeeps, FinalPollKeeps, CheckKeeps,
     ConfirmKeeps, RetireOwnKeeps, ReleaseKeeps, ReturnKeeps DEF QueryStep
<1>2. ASSUME NEW e \in Entry, Stops(e) \/ PumpRetires(e) \/ PumpLoses(e) \/ ProcessEnds(e) PROVE ServerInv'
  BY <1>2, StopKeeps, ShutdownKeeps, ForgetKeeps, PumpLosesKeeps, ProcessEndsKeeps DEF Stops
<1>3. CASE SaveSettings \/ RetireAll \/ BeginReset \/ Reset \/ Changes \/ Invalidate
  BY <1>3, AroundKeeps, RetireAllKeeps, ResetKeeps, InvalidateKeeps
<1>4. CASE UNCHANGED serverVars
  BY <1>4, ServerStutters
<1> QED  BY <1>1, <1>2, <1>3, <1>4 DEF ServerNext

LEMMA ServerInvariant == ServerSpec => []ServerInv
<1>1. ServerInit => ServerInv
  BY ServerStarts
<1>2. ServerInv /\ [ServerNext]_serverVars => ServerInv'
  BY ServerStep
<1> QED  BY <1>1, <1>2, PTL DEF ServerSpec

\* An instance no query counts on is seen as it is, and one that crashes again
\* and again is left down: Session::drop publishes while it holds the state, and
\* a client is only had below the limit, whatever crashes, resets and pumps do.
THEOREM ServersAreTrue == ServerSpec => []InstancesAreTrue
BY ServerInvariant, ServerShows, PTL

\* A step that ends the last check changes no other query's stage to "enabled",
\* and what it lets through as synchronized is about the file as it is.
LEMMA CheckIsFresh ==
    ASSUME ServerInv, [ServerNext]_serverVars, NEW q \in Query,
           query[q].at = "check", query'[q].at = "enabled", query'[q].freshness = "synchronized"
    PROVE  query[q].answer = text
<1>1. CASE Check(q)
  <2>1. query[q] \in QueryState /\ QuerySound(query[q]) /\ query \in [Query -> QueryState]
    BY ServerTyped
  <2>2. PICK v : v = Verdict(q)
    OBVIOUS
  <2>3. PICK b \in [at : {"enabled"}, fingerprint : Fingerprint \cup {Off}, on : Entry \cup {NoEntry},
                    dirty : BOOLEAN, document : Text \cup {NoText}, answer : Text \cup {NoText},
                    freshness : {"unavailable"}] : b = Leaving(q, "enabled")
    BY <2>1 DEF Leaving, Idle, QueryState
  <2>4. query'[q] = [b EXCEPT !.freshness = v]
    BY <1>1, <2>1, <2>2, <2>3 DEF Check
  <2>5. query'[q].freshness = v
    BY <2>3, <2>4
  <2>6. v = "synchronized"
    BY <2>5
  <2>7. query[q].document = text /\ query[q].freshness = "synchronized"
    BY <2>2, <2>6 DEF Verdict
  <2> QED  BY <2>1, <2>7 DEF QuerySound
<1>2. CASE ~Check(q)
  <2>1. query \in [Query -> QueryState]
    BY ServerTyped
  <2>2. ASSUME NEW p \in Query, Load(p) \/ QueryStep(p) PROVE FALSE
    <3>1. CASE p = q
      <4>1. ~Load(p) /\ ~QueryStep(p)
        BY <1>2, <3>1 DEF Load, QueryStep, Enter, Acquire, LeaveQueue, RefuseStart, Start, StartFails,
           Ask, AskFails, Loses, Answer, FinalPoll, Confirm, RetireOwn, Release, Return, InSession
      <4> QED  BY <2>2, <4>1
    <3>2. CASE p # q
      <4>1. \E d : query' = [query EXCEPT ![p] = d] \/ query' = query
        BY <2>2 DEF Load, QueryStep, Enter, Acquire, LeaveQueue, RefuseStart, Start, StartFails,
           Ask, AskFails, Loses, Answer, FinalPoll, Check, Confirm, RetireOwn, Release, Return
      <4> QED  BY <2>1, <3>2, <4>1
    <3> QED  BY <3>1, <3>2
  <2>3. ASSUME UNCHANGED query PROVE FALSE
    BY <2>3
  <2>4. ASSUME Invalidate PROVE FALSE
    <3>1. query'[q] = [query[q] EXCEPT !.dirty = @ \/ (query[q].on \in Registered /\ Unjudged(q))]
      BY <2>4 DEF Invalidate
    <3>2. query'[q].at = query[q].at
      BY <2>1, <3>1 DEF QueryState
    <3> QED  BY <3>2
  <2>5. ASSUME NEW e \in Entry, Stops(e) \/ PumpRetires(e) \/ PumpLoses(e) \/ ProcessEnds(e) PROVE UNCHANGED query
    BY <2>5 DEF Stops, Stop, Shutdown, Forget, PumpRetires, PumpLoses, ProcessEnds
  <2>6. SaveSettings \/ RetireAll \/ BeginReset \/ Reset \/ Changes \/ UNCHANGED serverVars => UNCHANGED query
    BY DEF SaveSettings, RetireAll, BeginReset, Reset, Changes, serverVars
  <2> QED  BY <2>2, <2>3, <2>4, <2>5, <2>6 DEF ServerNext
<1> QED  BY <1>1, <1>2

\* No answer is said to be synchronized that is not about what the file contains
\* at the last check: the copy's text, the question's and the file's are the
\* same from the question to the check, or the verdict says so (runtime.rs).
THEOREM AnswersAreFresh == ServerSpec => NeverStale
<1>1. ServerInv /\ [ServerNext]_serverVars =>
        [\A q \in Query :
           query[q].at = "check" /\ query'[q].at = "enabled" /\ query'[q].freshness = "synchronized"
              => query[q].answer = text]_serverVars
  BY CheckIsFresh
<1> QED  BY <1>1, ServerInvariant, PTL DEF ServerSpec, NeverStale

-----------------------------------------------------------------------------
(* The state of the response socket. *)

SampleState == [at : {"new", "ready", "round", "http", "backoff", "complete", "failed"},
                tries : 0..2, sent : 0..3, empty : 0..(EmptyLimit - 1),
                answering : BOOLEAN, shown : SUBSET Sending, expired : BOOLEAN]
WireFrame == [kind : {"text", "terminal", "timing", "expired", "end"}, of : Sending \cup {NoSending}]
Answers == {"text", "terminal", "expired"}

LEMMA SocketTypes ==
    SocketTypeOK <=> /\ holder \in Sample \cup {NoSample} /\ wire \in Wire \cup {NoWire}
                     /\ paused \in BOOLEAN /\ sample \in [Sample -> SampleState]
BY DEF SocketTypeOK, SampleState

LEMMA WireTypes ==
    Wire = [frames : Seq(WireFrame), serving : Sending \cup {NoSending},
            trailing : Sending \cup {NoSending}]
BY DEF Wire, WireFrame

\* What an attempt has shown before it sends, while it reads and afterwards.
SampleSound(s, c) ==
    /\ \A sending \in c.shown : sending.of = s
    /\ c.sent = c.tries
    /\ c.at = "round" => c.sent # 0
    /\ c.expired \/ \E sending : c.shown \subseteq {sending}
    /\ c.expired \/ (c.at \in {"new", "ready", "http"} => c.shown = {})
    /\ c.expired \/ (c.at = "round" =>
                       c.shown = IF c.answering THEN {[of |-> s, number |-> c.sent]} ELSE {})

\* While a message is waited for, what arrives of an answer is of its answer.
WireSound(w, s, n) ==
    /\ w \in Wire /\ w.serving \in {[of |-> s, number |-> n], NoSending}
    /\ \A i \in DOMAIN w.frames :
          w.frames[i].kind \in Answers => w.frames[i].of = [of |-> s, number |-> n]

SocketInv ==
    /\ SocketTypeOK
    /\ \A s \in Sample : SampleSound(s, sample[s])
    /\ \A s \in Sample : holder = s <=> sample[s].at \in {"ready", "round"}
    /\ \A s \in Sample : sample[s].at = "round" => WireSound(wire, s, sample[s].sent)

LEMMA SocketTyped ==
    ASSUME SocketInv
    PROVE  /\ holder \in Sample \cup {NoSample} /\ wire \in Wire \cup {NoWire} /\ paused \in BOOLEAN
           /\ sample \in [Sample -> SampleState]
           /\ \A s \in Sample : sample[s] \in SampleState /\ SampleSound(s, sample[s])
BY SocketTypes DEF SocketInv

LEMMA SocketShows == SocketInv => OneAnswer
<1> SUFFICES ASSUME SocketInv, NEW s \in Sample
             PROVE  /\ \A sending \in sample[s].shown : sending.of = s
                    /\ sample[s].expired \/ Cardinality(sample[s].shown) <= 1
  BY DEF OneAnswer
<1>1. SampleSound(s, sample[s])
  BY SocketTyped
<1>2. ASSUME ~sample[s].expired PROVE Cardinality(sample[s].shown) <= 1
  <2>1. PICK x : sample[s].shown \subseteq {x}
    BY <1>1, <1>2 DEF SampleSound
  <2>2. sample[s].shown = {} \/ sample[s].shown = {x}
    BY <2>1
  <2>3. Cardinality({}) = 0 /\ Cardinality({x}) = 1
    BY FS_EmptySet, FS_Singleton
  <2> QED  BY <2>2, <2>3
<1> QED  BY <1>1, <1>2 DEF SampleSound

-----------------------------------------------------------------------------
(* How samples and the connection move. *)

LEMMA SampleMoves ==
    ASSUME SocketInv, NEW s \in Sample, NEW d \in SampleState, SampleSound(s, d),
           sample' = [sample EXCEPT ![s] = d],
           holder' \in Sample \cup {NoSample}, wire' \in Wire \cup {NoWire}, paused' \in BOOLEAN,
           \/ holder \in {s, NoSample} /\ holder' \in {s, NoSample}
           \/ holder' = holder /\ wire' = wire,
           holder' = s <=> d.at \in {"ready", "round"},
           d.at = "round" => WireSound(wire', s, d.sent)
    PROVE  SocketInv'
<1>1. sample' \in [Sample -> SampleState] /\ sample'[s] = d /\ \A t \in Sample \ {s} : sample'[t] = sample[t]
  BY SocketTyped
<1>2. SocketTypeOK'
  BY <1>1 DEF SocketTypeOK, SampleState
<1>3. \A t \in Sample : SampleSound(t, sample'[t])
  BY <1>1, SocketTyped
<1>4. ASSUME NEW t \in Sample \ {s} PROVE holder' = t <=> holder = t
  BY <1>4, SocketAssumption
<1>5. \A t \in Sample : holder' = t <=> sample'[t].at \in {"ready", "round"}
  <2>1. \A t \in Sample \ {s} : holder = t <=> sample[t].at \in {"ready", "round"}
    BY DEF SocketInv
  <2> QED  BY <1>1, <1>4, <2>1
<1>6. ASSUME NEW t \in Sample, sample'[t].at = "round" PROVE WireSound(wire', t, sample'[t].sent)
  <2>1. CASE t = s
    BY <1>1, <1>6, <2>1
  <2>2. CASE t # s
    <3>1. sample[t].at = "round" /\ holder = t
      BY <1>1, <1>6, <2>2 DEF SocketInv
    <3>2. holder # s /\ holder # NoSample
      BY <2>2, <3>1, SocketAssumption
    <3>3. wire' = wire
      BY <3>2
    <3>4. WireSound(wire, t, sample[t].sent)
      BY <3>1 DEF SocketInv
    <3> QED  BY <1>1, <2>2, <3>3, <3>4
  <2> QED  BY <2>1, <2>2
<1>7. (\A t \in Sample : SampleSound(t, sample[t]))'
  BY <1>3 DEF SampleSound
<1>8. (\A t \in Sample : sample[t].at = "round" => WireSound(wire, t, sample[t].sent))'
  BY <1>6 DEF WireSound, Wire, Sending, NoSending
<1> QED  BY <1>2, <1>5, <1>7, <1>8 DEF SocketInv

LEMMA WireMoves ==
    ASSUME SocketInv, UNCHANGED <<holder, sample>>, paused' \in BOOLEAN, wire' \in Wire \cup {NoWire},
           \A s \in Sample : sample[s].at = "round" => WireSound(wire', s, sample[s].sent)
    PROVE  SocketInv'
<1>1. SocketTypeOK'
  BY SocketTyped DEF SocketTypeOK, SampleState
<1>2. (\A t \in Sample : SampleSound(t, sample[t]))'
  BY SocketTyped DEF SampleSound
<1>3. (\A t \in Sample : sample[t].at = "round" => WireSound(wire, t, sample[t].sent))'
  BY DEF WireSound, Wire, Sending, NoSending
<1>4. (\A t \in Sample : holder = t <=> sample[t].at \in {"ready", "round"})'
  BY DEF SocketInv
<1> QED  BY <1>1, <1>2, <1>3, <1>4 DEF SocketInv

\* A frame more, and one less.
LEMMA AppendSound ==
    ASSUME NEW w \in Wire, NEW x \in Wire, NEW f \in WireFrame, x.frames = Append(w.frames, f),
           x.serving \in {w.serving, NoSending},
           f.kind \in Answers => f.of = w.serving /\ w.serving # NoSending,
           NEW s, NEW n, WireSound(w, s, n)
    PROVE  WireSound(x, s, n)
<1>1. PICK m \in Nat : m = Len(w.frames)
  BY WireTypes, LenProperties
<1>2. /\ DOMAIN x.frames = 1..(m + 1) /\ x.frames[m + 1] = f
      /\ \A i \in 1..m : x.frames[i] = w.frames[i]
  BY <1>1, WireTypes, AppendProperties
<1>3. \A i \in 1..m : w.frames[i].kind \in Answers => w.frames[i].of = [of |-> s, number |-> n]
  BY <1>1, WireTypes, LenProperties DEF WireSound
<1>4. \A i \in 1..(m + 1) : x.frames[i].kind \in Answers => x.frames[i].of = [of |-> s, number |-> n]
  <2> SUFFICES ASSUME NEW i \in 1..(m + 1), x.frames[i].kind \in Answers
               PROVE  x.frames[i].of = [of |-> s, number |-> n]
    OBVIOUS
  <2>1. CASE i = m + 1
    BY <1>2, <2>1 DEF WireSound
  <2>2. CASE i # m + 1
    <3>1. i \in 1..m
      BY <1>1, <2>2
    <3> QED  BY <1>2, <1>3, <3>1
  <2> QED  BY <2>1, <2>2
<1> QED  BY <1>2, <1>4 DEF WireSound

LEMMA TailSound ==
    ASSUME NEW w \in Wire, w.frames # <<>>, NEW x, x = [w EXCEPT !.frames = Tail(w.frames)]
    PROVE  /\ x \in Wire /\ Head(w.frames) \in WireFrame
           /\ \A s, n : WireSound(w, s, n) =>
                /\ WireSound(x, s, n)
                /\ Head(w.frames).kind \in Answers => Head(w.frames).of = [of |-> s, number |-> n]
<1>1. PICK l : l = w.frames
  OBVIOUS
<1>2. l \in Seq(WireFrame) /\ l # <<>>
  BY <1>1, WireTypes
<1>3. PICK m \in Nat : m = Len(l) /\ m # 0
  BY <1>2, EmptySeq, LenProperties
<1>4. /\ Tail(l) \in Seq(WireFrame) /\ Len(Tail(l)) = m - 1 /\ \A i \in 1..(m - 1) : Tail(l)[i] = l[i + 1]
      /\ Head(l) = l[1] /\ Head(l) \in WireFrame
  BY <1>2, <1>3, HeadTailProperties
<1>5. PICK t \in Seq(WireFrame) : t = Tail(l)
  BY <1>4
<1>6. x = [w EXCEPT !.frames = t]
  BY <1>1, <1>5
<1>7. x \in Wire /\ x.frames = t /\ x.serving = w.serving
  BY <1>6, WireTypes
<1>8. ASSUME NEW s, NEW n, WireSound(w, s, n)
      PROVE  /\ WireSound(x, s, n)
             /\ Head(w.frames).kind \in Answers => Head(w.frames).of = [of |-> s, number |-> n]
  <2>1. DOMAIN l = 1..m /\ DOMAIN t = 1..(m - 1)
    BY <1>2, <1>3, <1>4, <1>5, LenProperties
  <2>2. \A i \in 1..m : l[i].kind \in Answers => l[i].of = [of |-> s, number |-> n]
    BY <1>1, <1>8, <2>1 DEF WireSound
  <2>3. ASSUME NEW i \in 1..(m - 1), t[i].kind \in Answers PROVE t[i].of = [of |-> s, number |-> n]
    <3>1. i + 1 \in 1..m /\ t[i] = l[i + 1]
      BY <1>3, <1>4, <1>5
    <3> QED  BY <2>2, <2>3, <3>1
  <2>4. 1 \in 1..m
    BY <1>3
  <2>5. l[1].kind \in Answers => l[1].of = [of |-> s, number |-> n]
    BY <2>2, <2>4
  <2>6. WireSound(x, s, n)
    BY <1>7, <1>8, <2>1, <2>3 DEF WireSound
  <2> QED  BY <1>1, <1>4, <2>5, <2>6
<1> QED  BY <1>1, <1>4, <1>7, <1>8

-----------------------------------------------------------------------------
(* What samples do. *)

LEMMA Known ==
    ASSUME SocketInv, NEW s \in Sample
    PROVE  \E c \in SampleState : c = sample[s] /\ SampleSound(s, c)
BY SocketTyped

LEMMA NoneYet == 0 \in 0..2 /\ 0 \in 0..3 /\ 0 \in 0..(EmptyLimit - 1)
BY SocketAssumption

LEMMA BeginExchangeKeeps == ASSUME SocketInv, NEW s \in Sample, BeginExchange(s) PROVE SocketInv'
<1>1. sample[s].at = "new" /\ wire' = wire /\ paused' = paused
  BY DEF BeginExchange
<1>2. PICK c \in SampleState : c = sample[s] /\ SampleSound(s, c)
  BY Known
<1>3. PICK at \in {"ready", "http"} :
         /\ sample' = [sample EXCEPT ![s].at = at]
         /\ \/ at = "ready" /\ holder = NoSample /\ holder' = s
            \/ at = "http" /\ holder' = holder
  BY DEF BeginExchange
<1>4. PICK d : d = [c EXCEPT !.at = at]
  OBVIOUS
<1>5. /\ d \in SampleState /\ d.at = at /\ d.shown = c.shown /\ d.sent = c.sent /\ d.tries = c.tries
      /\ d.expired = c.expired
  BY <1>2, <1>4 DEF SampleState
<1>6. SampleSound(s, d)
  BY <1>1, <1>2, <1>5 DEF SampleSound
<1>7. sample' = [sample EXCEPT ![s] = d]
  BY <1>2, <1>3, <1>4
<1>8. holder' \in Sample \cup {NoSample} /\ wire' \in Wire \cup {NoWire} /\ paused' \in BOOLEAN
  BY <1>1, <1>3, SocketTyped
<1>9. holder # s
  BY <1>1 DEF SocketInv
<1>10. holder' = s <=> d.at \in {"ready", "round"}
  BY <1>3, <1>5, <1>9
<1>11. \/ holder \in {s, NoSample} /\ holder' \in {s, NoSample}
       \/ holder' = holder /\ wire' = wire
  BY <1>1, <1>3
<1>12. d.at = "round" => WireSound(wire', s, d.sent)
  BY <1>3, <1>5
<1> QED  BY ONLY SocketInv, s \in Sample, <1>5, <1>6, <1>7, <1>8, <1>10, <1>11, <1>12, SampleMoves

\* A message goes out on a connection without frames.
LEMMA DeliverSound ==
    ASSUME SocketInv, NEW s \in Sample, sample[s].at = "ready", sample[s].tries < 2,
           NEW w \in Wire, w.frames = <<>>, Deliver(s, w), UNCHANGED <<holder, paused>>
    PROVE  SocketInv'
<1>1. PICK c \in SampleState : c = sample[s] /\ SampleSound(s, c)
  BY Known
<1>2. c.tries \in 0..2 /\ c.tries < 2 /\ c.sent = c.tries
  BY <1>1 DEF SampleState, SampleSound
<1>3. PICK n \in {1, 2} : n = c.sent + 1 /\ n = c.tries + 1
  BY <1>2
<1>4. PICK b : b = [c EXCEPT !.at = "round", !.answering = FALSE]
  OBVIOUS
<1>5. /\ b \in SampleState /\ b.at = "round" /\ ~b.answering /\ b.shown = c.shown
      /\ b.expired = c.expired
  BY <1>1, <1>4 DEF SampleState
<1>6. PICK d : d = [b EXCEPT !.sent = n, !.tries = n]
  OBVIOUS
<1>7. n \in 0..2 /\ n \in 0..3 /\ n \in 1..3
  BY <1>3
<1>8. /\ d \in SampleState /\ d.at = "round" /\ ~d.answering /\ d.shown = c.shown
      /\ d.expired = c.expired /\ d.sent = n /\ d.tries = n
  BY <1>5, <1>6, <1>7 DEF SampleState
<1>9. SampleSound(s, d)
  <2>1. (\A sending \in c.shown : sending.of = s) /\ (c.expired \/ c.shown = {})
    BY <1>1 DEF SampleSound
  <2>2. n # 0
    BY <1>3
  <2> QED  BY <1>8, <2>1, <2>2 DEF SampleSound
<1>10. d = [c EXCEPT !.at = "round", !.sent = n, !.tries = n, !.answering = FALSE]
  BY <1>4, <1>6
<1>11. sample' = [sample EXCEPT ![s] = d]
  <2>1. sample' = [sample EXCEPT ![s] = [@ EXCEPT !.at = "round", !.sent = sample[s].sent + 1,
                                                 !.tries = sample[s].tries + 1, !.answering = FALSE]]
    BY DEF Deliver
  <2> QED  BY <1>1, <1>3, <1>10, <2>1
<1>12. PICK f : f = [of |-> s, number |-> n]
  OBVIOUS
<1>13. f \in Sending
  BY <1>7, <1>12 DEF Sending
<1>14. wire' = [w EXCEPT !.serving = f]
  BY <1>1, <1>3, <1>12 DEF Deliver
<1>15. wire' \in Wire /\ wire'.frames = <<>> /\ wire'.serving = f
  <2>1. PICK x : x = [w EXCEPT !.serving = f]
    OBVIOUS
  <2>2. x \in Wire /\ x.frames = <<>> /\ x.serving = f
    BY <1>13, <2>1, WireTypes
  <2> QED  BY <1>14, <2>1, <2>2
<1>16. WireSound(wire', s, n)
  <2>1. PICK x \in Wire : x = wire' /\ x.frames = <<>> /\ x.serving = f
    BY <1>15
  <2>2. WireSound(x, s, n)
    BY <1>12, <2>1 DEF WireSound
  <2> QED  BY <2>1, <2>2
<1>17. /\ holder' \in Sample \cup {NoSample} /\ wire' \in Wire \cup {NoWire} /\ paused' \in BOOLEAN
       /\ holder = s /\ holder' = s
  BY <1>15, SocketTyped DEF SocketInv
<1>18. d.at = "round" => WireSound(wire', s, d.sent)
  BY <1>8, <1>16
<1>19. holder' = s <=> d.at \in {"ready", "round"}
  BY <1>8, <1>17
<1>20. \/ holder \in {s, NoSample} /\ holder' \in {s, NoSample}
       \/ holder' = holder /\ wire' = wire
  BY <1>17
<1> QED  BY ONLY SocketInv, s \in Sample, <1>8, <1>9, <1>11, <1>17, <1>18, <1>19, <1>20, SampleMoves

LEMMA ReadyKeeps == ASSUME SocketInv, NEW s \in Sample, ReadyReuses(s) \/ ReadyOpens(s) PROVE SocketInv'
<1>1. sample[s].at = "ready" /\ sample[s].tries < 2 /\ UNCHANGED <<holder, paused>>
  BY DEF ReadyReuses, ReadyOpens
<1>2. CASE ReadyReuses(s)
  <2>1. wire \in Wire
    BY <1>2, SocketTyped DEF ReadyReuses
  <2>2. PICK w : w = Drained
    OBVIOUS
  <2>3. w \in Wire /\ w.frames = <<>>
    BY <2>1, <2>2, WireTypes, EmptySeq DEF Drained
  <2>4. Deliver(s, w)
    BY <1>2, <2>2 DEF ReadyReuses
  <2> QED  BY <1>1, <2>3, <2>4, DeliverSound
<1>3. CASE ReadyOpens(s)
  <2>1. PICK w : w = [frames |-> <<>>, serving |-> NoSending, trailing |-> NoSending]
    OBVIOUS
  <2>2. w \in Wire /\ w.frames = <<>>
    BY <2>1, WireTypes, EmptySeq
  <2>3. Deliver(s, w)
    BY <1>3, <2>1 DEF ReadyOpens
  <2> QED  BY <1>1, <2>2, <2>3, DeliverSound
<1> QED  BY <1>2, <1>3

\* A sample that changes its stage alone, with the connection and the lock.
LEMMA GivesWayKeeps == ASSUME SocketInv, NEW s \in Sample, OpenFails(s) \/ GivesWay(s) PROVE SocketInv'
<1>1. sample[s].at = "ready" /\ ToHttp(s)
  BY DEF OpenFails, GivesWay
<1>2. wire' = NoWire /\ paused' = TRUE /\ holder' = NoSample /\ sample' = [sample EXCEPT ![s].at = "http"]
  BY <1>1 DEF ToHttp
<1>3. PICK c \in SampleState : c = sample[s] /\ SampleSound(s, c)
  BY Known
<1>4. PICK d : d = [c EXCEPT !.at = "http"]
  OBVIOUS
<1>5. /\ d \in SampleState /\ d.at = "http" /\ d.shown = c.shown /\ d.sent = c.sent /\ d.tries = c.tries
      /\ d.expired = c.expired
  BY <1>3, <1>4 DEF SampleState
<1>6. SampleSound(s, d)
  BY <1>1, <1>3, <1>5 DEF SampleSound
<1>7. sample' = [sample EXCEPT ![s] = d]
  BY <1>2, <1>3, <1>4
<1>8. holder' \in Sample \cup {NoSample} /\ wire' \in Wire \cup {NoWire} /\ paused' \in BOOLEAN
  BY <1>2
<1>9. holder = s
  BY <1>1 DEF SocketInv
<1>10. \/ holder \in {s, NoSample} /\ holder' \in {s, NoSample}
       \/ holder' = holder /\ wire' = wire
  BY <1>2, <1>9
<1>11. holder' = s <=> d.at \in {"ready", "round"}
  BY <1>2, <1>5, SocketAssumption
<1>12. d.at = "round" => WireSound(wire', s, d.sent)
  BY <1>5
<1> QED  BY ONLY SocketInv, s \in Sample, <1>5, <1>6, <1>7, <1>8, <1>10, <1>11, <1>12, SampleMoves

LEMMA Reading1 ==
    ASSUME SocketInv, NEW s \in Sample, InRound(s)
    PROVE  /\ wire \in Wire /\ WireSound(wire, s, sample[s].sent) /\ sample[s].at = "round" /\ holder = s
           /\ Current(s) = [of |-> s, number |-> sample[s].sent] /\ Current(s) \in Sending
<1>1. sample[s].at = "round" /\ holder = s /\ WireSound(wire, s, sample[s].sent)
  BY DEF InRound, SocketInv
<1>2. PICK c \in SampleState : c = sample[s] /\ SampleSound(s, c)
  BY Known
<1>3. c.sent \in 1..3
  BY <1>1, <1>2 DEF SampleState, SampleSound
<1> QED  BY <1>1, <1>2, <1>3 DEF WireSound, Current, Sending

LEMMA ReadTimingKeeps == ASSUME SocketInv, NEW s \in Sample, ReadTiming(s) PROVE SocketInv'
<1>1. InRound(s) /\ wire.frames # <<>> /\ wire' = Rest /\ UNCHANGED <<holder, paused, sample>>
  BY DEF ReadTiming, Next1
<1>2. wire \in Wire /\ holder = s
  BY <1>1, Reading1
<1>3. PICK w \in Wire : w = wire
  BY <1>2
<1>4. PICK x : x = [w EXCEPT !.frames = Tail(w.frames)]
  OBVIOUS
<1>5. x \in Wire /\ \A t, n : WireSound(w, t, n) => WireSound(x, t, n)
  <2>1. w.frames # <<>>
    BY <1>1, <1>3
  <2>2. /\ x \in Wire
        /\ \A t, n : WireSound(w, t, n) =>
             /\ WireSound(x, t, n)
             /\ Head(w.frames).kind \in Answers => Head(w.frames).of = [of |-> t, number |-> n]
    BY ONLY w \in Wire, <1>4, <2>1, TailSound
  <2> QED  BY <2>2
<1>6. wire' = x
  BY <1>1, <1>3, <1>4 DEF Rest
<1>7. wire' \in Wire \cup {NoWire} /\ paused' \in BOOLEAN /\ UNCHANGED <<holder, sample>>
  BY <1>1, <1>5, <1>6, SocketTyped
<1>8. \A t \in Sample : sample[t].at = "round" => WireSound(x, t, sample[t].sent)
  BY <1>3, <1>5 DEF SocketInv
<1>9. \A t \in Sample : sample[t].at = "round" => WireSound(wire', t, sample[t].sent)
  BY <1>6, <1>8
<1> QED  BY <1>7, <1>9, WireMoves

LEMMA ReadTextKeeps == ASSUME SocketInv, NEW s \in Sample, ReadText(s) PROVE SocketInv'
<1>1. /\ InRound(s) /\ wire.frames # <<>> /\ Head(wire.frames).kind = "text" /\ wire' = Rest
      /\ sample' = Show(s) /\ UNCHANGED <<holder, paused>>
  BY DEF ReadText, Next1
<1>2. PICK c \in SampleState : c = sample[s] /\ SampleSound(s, c)
  BY Known
<1>3. PICK w \in Wire : w = wire /\ WireSound(w, s, c.sent)
  BY <1>1, <1>2, Reading1
<1>4. PICK x : x = [w EXCEPT !.frames = Tail(w.frames)]
  OBVIOUS
<1>5. PICK f : f = Head(w.frames).of
  OBVIOUS
<1>6. x \in Wire /\ WireSound(x, s, c.sent) /\ f = [of |-> s, number |-> c.sent]
  <2>1. w.frames # <<>> /\ Head(w.frames).kind \in Answers
    BY <1>1, <1>3 DEF Answers
  <2>2. /\ x \in Wire
        /\ \A t, n : WireSound(w, t, n) =>
             /\ WireSound(x, t, n)
             /\ Head(w.frames).kind \in Answers => Head(w.frames).of = [of |-> t, number |-> n]
    BY ONLY w \in Wire, <1>4, <2>1, TailSound
  <2> QED  BY <1>3, <1>5, <2>1, <2>2
<1>7. wire' = x
  BY <1>1, <1>3, <1>4 DEF Rest
<1>8. f \in Sending /\ f.of = s
  BY <1>1, <1>2, <1>6, Reading1
<1>9. PICK d : d = [c EXCEPT !.answering = TRUE, !.shown = c.shown \cup {f}]
  OBVIOUS
<1>10. c.shown \cup {f} \in SUBSET Sending
  BY <1>2, <1>8 DEF SampleState
<1>11. /\ d \in SampleState /\ d.at = c.at /\ d.answering /\ d.shown = c.shown \cup {f} /\ d.sent = c.sent
       /\ d.tries = c.tries /\ d.expired = c.expired
  BY <1>9, <1>10 DEF SampleState
<1>12. c.at = "round" /\ holder = s
  BY <1>1, <1>2, Reading1
<1>13. SampleSound(s, d)
  <2>1. c.expired \/ d.shown = {f}
    BY <1>2, <1>6, <1>11, <1>12 DEF SampleSound
  <2> QED  BY <1>2, <1>6, <1>8, <1>11, <1>12, <2>1 DEF SampleSound
<1>14. sample' = [sample EXCEPT ![s] = d]
  BY <1>1, <1>2, <1>3, <1>5, <1>9 DEF Show
<1>15. holder' \in Sample \cup {NoSample} /\ wire' \in Wire \cup {NoWire} /\ paused' \in BOOLEAN
  BY <1>1, <1>6, <1>7, SocketTyped
<1>16. \/ holder \in {s, NoSample} /\ holder' \in {s, NoSample}
       \/ holder' = holder /\ wire' = wire
  BY <1>1, <1>12
<1>17. holder' = s <=> d.at \in {"ready", "round"}
  BY <1>1, <1>11, <1>12
<1>18. d.at = "round" => WireSound(wire', s, d.sent)
  BY <1>6, <1>7, <1>11
<1> QED  BY ONLY SocketInv, s \in Sample, <1>11, <1>13, <1>14, <1>15, <1>16, <1>17, <1>18, SampleMoves

\* What is counted when an attempt ends: an answer is retried while the count is
\* below its limit.
LEMMA AfterTyped ==
    ASSUME SocketInv, NEW s \in Sample, NEW ending \in Ending
    PROVE  /\ After(s, ending) \in {"complete", "failed", "backoff"}
           /\ Empties(s, ending) \in 0..(EmptyLimit - 1)
<1>1. PICK n \in 0..(EmptyLimit - 1) : n = sample[s].empty
  BY SocketTyped DEF SampleState
<1>2. After(s, ending) \in {"complete", "failed", "backoff"}
  BY DEF After
<1>3. CASE ~Retried(s, ending)
  BY <1>2, <1>3, NoneYet DEF Empties
<1>4. CASE ending = "empty" /\ Retried(s, ending)
  <2>1. n + 1 < EmptyLimit
    BY <1>1, <1>4 DEF Retried
  <2>2. Empties(s, ending) = n + 1
    BY <1>1, <1>4 DEF Empties
  <2> QED  BY <1>2, <2>1, <2>2, SocketAssumption
<1>5. CASE ending # "empty" /\ Retried(s, ending)
  <2>1. Empties(s, ending) = n
    BY <1>1, <1>5 DEF Empties
  <2> QED  BY <1>2, <2>1
<1> QED  BY <1>3, <1>4, <1>5

\* A sample leaves with what it was shown, which is one answer's.
LEMMA LeaveSound ==
    ASSUME SocketInv, NEW s \in Sample, sample[s].at \in {"round", "http"}, NEW ending \in Ending,
           NEW shown \in SUBSET Sending, \A x \in shown : x.of = s,
           sample[s].expired \/ \E x : shown \subseteq {x},
           sample' = Leave(s, ending, shown), holder' \in Sample \cup {NoSample},
           wire' \in Wire \cup {NoWire}, paused' \in BOOLEAN, holder' # s,
           \/ holder = s /\ holder' = NoSample
           \/ holder' = holder /\ wire' = wire
    PROVE  SocketInv'
<1>1. PICK c \in SampleState : c = sample[s] /\ SampleSound(s, c)
  BY Known
<1>2. PICK at \in {"complete", "failed", "backoff"} : at = After(s, ending)
  BY AfterTyped
<1>3. PICK n \in 0..(EmptyLimit - 1) : n = Empties(s, ending)
  BY AfterTyped
<1>4. PICK b : b = [c EXCEPT !.at = at, !.empty = n, !.shown = shown]
  OBVIOUS
<1>5. b \in SampleState /\ b.at = at /\ b.shown = shown /\ b.expired = c.expired
  BY <1>1, <1>4 DEF SampleState
<1>6. PICK a : a = [b EXCEPT !.tries = 0, !.sent = 0]
  OBVIOUS
<1>7. /\ a \in SampleState /\ a.at = at /\ a.shown = shown /\ a.expired = c.expired
      /\ a.sent = 0 /\ a.tries = 0
  BY <1>5, <1>6, NoneYet DEF SampleState
<1>8. PICK d : d = [a EXCEPT !.answering = FALSE]
  OBVIOUS
<1>9. /\ d \in SampleState /\ d.at = at /\ d.shown = shown /\ d.expired = c.expired
      /\ d.sent = 0 /\ d.tries = 0
  BY <1>7, <1>8 DEF SampleState
<1>10. d = [c EXCEPT !.at = at, !.empty = n, !.shown = shown, !.tries = 0, !.sent = 0,
                     !.answering = FALSE]
  BY <1>4, <1>6, <1>8
<1>11. sample' = [sample EXCEPT ![s] = d]
  BY <1>1, <1>2, <1>3, <1>10 DEF Leave
<1>12. SampleSound(s, d)
  BY <1>1, <1>2, <1>9 DEF SampleSound
<1>13. holder' = s <=> d.at \in {"ready", "round"}
  BY <1>2, <1>9
<1>14. d.at = "round" => WireSound(wire', s, d.sent)
  BY <1>2, <1>9
<1>15. \/ holder \in {s, NoSample} /\ holder' \in {s, NoSample}
       \/ holder' = holder /\ wire' = wire
  OBVIOUS
<1>16. holder' \in Sample \cup {NoSample} /\ wire' \in Wire \cup {NoWire} /\ paused' \in BOOLEAN
  OBVIOUS
<1> QED  BY ONLY SocketInv, s \in Sample, <1>9, <1>11, <1>12, <1>13, <1>14, <1>15, <1>16, SampleMoves

LEMMA ReadTerminalKeeps == ASSUME SocketInv, NEW s \in Sample, ReadTerminal(s) PROVE SocketInv'
<1>1. /\ InRound(s) /\ wire.frames # <<>> /\ Head(wire.frames).kind = "terminal" /\ wire' = Rest
      /\ holder' = NoSample /\ paused' = paused
  BY DEF ReadTerminal, Next1
<1>2. PICK ending \in Ending :
         sample' = Leave(s, ending, sample[s].shown \cup {Head(wire.frames).of})
  BY DEF ReadTerminal
<1>3. ending \in Ending
  OBVIOUS
<1>4. PICK c \in SampleState : c = sample[s] /\ SampleSound(s, c)
  BY Known
<1>5. PICK w \in Wire : w = wire /\ WireSound(w, s, c.sent)
  BY <1>1, <1>4, Reading1
<1>6. PICK x : x = [w EXCEPT !.frames = Tail(w.frames)]
  OBVIOUS
<1>7. PICK f : f = Head(w.frames).of
  OBVIOUS
<1>8. x \in Wire /\ f = [of |-> s, number |-> c.sent]
  BY <1>1, <1>5, <1>6, <1>7, TailSound DEF Answers
<1>9. wire' = x
  BY <1>1, <1>5, <1>6 DEF Rest
<1>10. f \in Sending /\ f.of = s /\ c.at = "round" /\ holder = s
  BY <1>1, <1>4, <1>8, Reading1
<1>11. PICK shown : shown = c.shown \cup {f}
  OBVIOUS
<1>12. shown \in SUBSET Sending /\ \A y \in shown : y.of = s
  BY <1>4, <1>10, <1>11 DEF SampleState, SampleSound
<1>13. sample[s].expired \/ shown \subseteq {f}
  BY <1>4, <1>8, <1>10, <1>11 DEF SampleSound
<1>14. sample[s].expired \/ \E y : shown \subseteq {y}
  BY <1>13
<1>15. sample' = Leave(s, ending, shown)
  BY <1>2, <1>4, <1>5, <1>7, <1>11
<1>16. /\ holder' \in Sample \cup {NoSample} /\ wire' \in Wire \cup {NoWire} /\ paused' \in BOOLEAN
       /\ holder' # s /\ holder = s /\ holder' = NoSample /\ sample[s].at \in {"round", "http"}
  BY <1>1, <1>4, <1>8, <1>9, <1>10, SocketTyped, SocketAssumption
<1> QED  BY ONLY SocketInv, s \in Sample, <1>3, <1>12, <1>14, <1>15, <1>16, LeaveSound

LEMMA FailRoundSound ==
    ASSUME SocketInv, NEW s \in Sample, InRound(s), NEW ending \in Ending, FailRound(s, ending)
    PROVE  SocketInv'
<1>1. wire' = NoWire /\ holder' = NoSample /\ paused' = paused
  BY DEF FailRound
<1>2. PICK c \in SampleState : c = sample[s] /\ SampleSound(s, c)
  BY Known
<1>3. PICK shown \in SUBSET Sending : shown = c.shown
  BY <1>2 DEF SampleState
<1>4. (\A y \in shown : y.of = s) /\ (sample[s].expired \/ \E y : shown \subseteq {y})
  BY <1>2, <1>3 DEF SampleSound
<1>5. sample' = Leave(s, ending, shown)
  BY <1>2, <1>3 DEF FailRound
<1>6. /\ holder' \in Sample \cup {NoSample} /\ wire' \in Wire \cup {NoWire} /\ paused' \in BOOLEAN
      /\ holder' # s /\ holder = s /\ holder' = NoSample /\ sample[s].at \in {"round", "http"}
      /\ shown \in SUBSET Sending
  BY <1>1, Reading1, SocketTyped, SocketAssumption
<1> QED  BY ONLY SocketInv, s \in Sample, ending \in Ending, <1>4, <1>5, <1>6, LeaveSound

\* The message goes out again: nothing of its answer was shown, or it expired.
LEMMA StaleSound ==
    ASSUME SocketInv, NEW s \in Sample, InRound(s), NEW expired \in BOOLEAN, Stale(s, expired),
           expired \/ ~sample[s].answering
    PROVE  SocketInv'
<1>1. wire' = NoWire /\ UNCHANGED <<holder, paused>>
  BY DEF Stale
<1>2. PICK c \in SampleState : c = sample[s] /\ SampleSound(s, c)
  BY Known
<1>3. PICK e \in BOOLEAN : e = (c.expired \/ (expired /\ c.answering))
  OBVIOUS
<1>4. PICK d : d = [c EXCEPT !.at = "ready", !.answering = FALSE, !.expired = e]
  OBVIOUS
<1>5. PICK b : b = [c EXCEPT !.at = "ready", !.answering = FALSE]
  OBVIOUS
<1>6. b \in SampleState /\ b.at = "ready" /\ b.shown = c.shown /\ b.sent = c.sent /\ b.tries = c.tries
  BY <1>5 DEF SampleState
<1>7. d = [b EXCEPT !.expired = e]
  BY <1>4, <1>5
<1>8. /\ d \in SampleState /\ d.at = "ready" /\ d.shown = c.shown /\ d.sent = c.sent /\ d.tries = c.tries
      /\ d.expired = e
  BY <1>3, <1>6, <1>7 DEF SampleState
<1>9. c.at = "round" /\ holder = s
  BY <1>2, Reading1
<1>10. SampleSound(s, d)
  <2>1. ASSUME ~e PROVE c.shown = {}
    <3>1. ~c.expired /\ ~c.answering
      BY <1>2, <1>3, <2>1
    <3> QED  BY <1>2, <1>9, <3>1 DEF SampleSound
  <2>2. e \/ c.shown = {}
    BY <2>1
  <2>3. /\ \A sending \in d.shown : sending.of = s
        /\ d.sent = d.tries
    BY <1>2, <1>8 DEF SampleSound
  <2>4. d.expired \/ d.shown = {}
    BY <1>8, <2>2
  <2> QED  BY <1>8, <2>3, <2>4 DEF SampleSound
<1>11. sample' = [sample EXCEPT ![s] = d]
  BY <1>2, <1>3, <1>4 DEF Stale
<1>12. holder' \in Sample \cup {NoSample} /\ wire' \in Wire \cup {NoWire} /\ paused' \in BOOLEAN
  BY <1>1, SocketTyped
<1>13. \/ holder \in {s, NoSample} /\ holder' \in {s, NoSample}
       \/ holder' = holder /\ wire' = wire
  BY <1>1, <1>9
<1>14. holder' = s <=> d.at \in {"ready", "round"}
  BY <1>1, <1>8, <1>9
<1>15. d.at = "round" => WireSound(wire', s, d.sent)
  BY <1>8
<1> QED  BY ONLY SocketInv, s \in Sample, <1>8, <1>10, <1>11, <1>12, <1>13, <1>14, <1>15, SampleMoves

LEMMA RoundEndsKeeps ==
    ASSUME SocketInv, NEW s \in Sample,
           ReadExpired(s) \/ ReadEnd(s) \/ RoundFails(s) \/ Silence(s)
    PROVE  SocketInv'
<1>1. InRound(s)
  BY DEF ReadExpired, ReadEnd, RoundFails, Silence, Next1
<1>2. CASE ReadExpired(s)
  <2>1. Stale(s, TRUE)
    BY <1>2 DEF ReadExpired
  <2> QED  BY <1>1, <2>1, StaleSound
<1>3. CASE ReadEnd(s)
  <2>1. CASE sample[s].answering
    <3>1. FailRound(s, "temporary")
      BY <1>3, <2>1 DEF ReadEnd, AfterEnd
    <3> QED  BY <1>1, <3>1, FailRoundSound DEF Ending
  <2>2. CASE ~sample[s].answering
    <3>1. Stale(s, FALSE)
      BY <1>3, <2>2 DEF ReadEnd, AfterEnd
    <3> QED  BY <1>1, <2>2, <3>1, StaleSound
  <2> QED  BY <2>1, <2>2
<1>4. CASE RoundFails(s)
  <2>1. FailRound(s, "other")
    BY <1>4 DEF RoundFails
  <2> QED  BY <1>1, <2>1, FailRoundSound DEF Ending
<1>5. CASE Silence(s)
  <2>1. FailRound(s, "temporary")
    BY <1>5 DEF Silence
  <2> QED  BY <1>1, <2>1, FailRoundSound DEF Ending
<1> QED  BY <1>2, <1>3, <1>4, <1>5

LEMMA HttpKeeps == ASSUME SocketInv, NEW s \in Sample, Http(s) PROVE SocketInv'
<1>1. sample[s].at = "http" /\ UNCHANGED <<holder, wire, paused>>
  BY DEF Http
<1>2. PICK ending \in Ending :
         sample' = Leave(s, ending, sample[s].shown \cup {[of |-> s, number |-> sample[s].sent + 1]})
  BY DEF Http
<1>3. ending \in Ending
  OBVIOUS
<1>4. PICK c \in SampleState : c = sample[s] /\ SampleSound(s, c)
  BY Known
<1>5. c.sent + 1 \in 1..3
  BY <1>4 DEF SampleState, SampleSound
<1>6. PICK f \in Sending : f = [of |-> s, number |-> c.sent + 1]
  BY <1>5 DEF Sending
<1>7. PICK shown : shown = c.shown \cup {f}
  OBVIOUS
<1>8. f.of = s
  BY <1>6
<1>9. shown \in SUBSET Sending /\ \A y \in shown : y.of = s
  BY <1>4, <1>7, <1>8 DEF SampleState, SampleSound
<1>10. sample[s].expired \/ shown \subseteq {f}
  BY <1>1, <1>4, <1>7 DEF SampleSound
<1>11. sample[s].expired \/ \E y : shown \subseteq {y}
  BY <1>10
<1>12. sample' = Leave(s, ending, shown)
  BY <1>2, <1>4, <1>6, <1>7
<1>13. holder # s
  BY <1>1 DEF SocketInv
<1>14. /\ holder' \in Sample \cup {NoSample} /\ wire' \in Wire \cup {NoWire} /\ paused' \in BOOLEAN
       /\ holder' # s /\ holder' = holder /\ wire' = wire /\ sample[s].at \in {"round", "http"}
  BY <1>1, <1>13, SocketTyped
<1> QED  BY ONLY SocketInv, s \in Sample, <1>3, <1>9, <1>11, <1>12, <1>14, LeaveSound

LEMMA WaitKeeps == ASSUME SocketInv, NEW s \in Sample, Retry(s) \/ CancelWait(s) PROVE SocketInv'
<1>1. sample[s].at = "backoff" /\ UNCHANGED <<holder, wire, paused>>
  BY DEF Retry, CancelWait
<1>2. PICK c \in SampleState : c = sample[s] /\ SampleSound(s, c)
  BY Known
<1>3. holder # s
  BY <1>1 DEF SocketInv
<1>4. ASSUME NEW d \in SampleState, SampleSound(s, d), d.at \in {"new", "failed"},
             sample' = [sample EXCEPT ![s] = d]
      PROVE  SocketInv'
  <2>1. holder' \in Sample \cup {NoSample} /\ wire' \in Wire \cup {NoWire} /\ paused' \in BOOLEAN
    BY <1>1, SocketTyped
  <2>2. holder' = holder /\ wire' = wire
    BY <1>1
  <2>3. holder' = s <=> d.at \in {"ready", "round"}
    BY <1>1, <1>3, <1>4
  <2>4. d.at = "round" => WireSound(wire', s, d.sent)
    BY <1>4
  <2> QED  BY <1>4, <2>1, <2>2, <2>3, <2>4, SampleMoves
<1>5. CASE Retry(s)
  <2>1. PICK m \in 0..(EmptyLimit - 1) : m = c.empty
    BY <1>2 DEF SampleState
  <2>2. PICK d : d = [NewSample EXCEPT !.empty = m]
    OBVIOUS
  <2>3. d \in SampleState /\ d.at = "new" /\ d.shown = {} /\ d.sent = 0 /\ d.tries = 0
    BY <2>1, <2>2, NoneYet DEF NewSample, SampleState
  <2>4. SampleSound(s, d)
    BY <2>3 DEF SampleSound
  <2>5. sample' = [sample EXCEPT ![s] = d]
    BY <1>2, <1>5, <2>1, <2>2 DEF Retry
  <2> QED  BY <1>4, <2>3, <2>4, <2>5
<1>6. CASE CancelWait(s)
  <2>1. PICK d : d = [c EXCEPT !.at = "failed", !.empty = 0]
    OBVIOUS
  <2>2. /\ d \in SampleState /\ d.at = "failed" /\ d.shown = c.shown /\ d.sent = c.sent
        /\ d.tries = c.tries /\ d.expired = c.expired
    BY <1>2, <2>1, NoneYet DEF SampleState
  <2>3. SampleSound(s, d)
    BY <1>2, <2>2 DEF SampleSound
  <2>4. sample' = [sample EXCEPT ![s] = d]
    BY <1>2, <1>6, <2>1 DEF CancelWait
  <2> QED  BY <1>4, <2>2, <2>3, <2>4
<1> QED  BY <1>5, <1>6

-----------------------------------------------------------------------------
(* What the provider does. *)

\* A frame more on a connection, of the message it serves if it answers one.
LEMMA SendsSound ==
    ASSUME SocketInv, wire # NoWire, NEW v \in {wire.serving, NoSending},
           NEW trailing \in Sending \cup {NoSending},
           NEW f \in WireFrame, f.kind \in Answers => f.of = wire.serving /\ wire.serving # NoSending,
           wire' = [frames |-> Append(wire.frames, f), serving |-> v, trailing |-> trailing],
           UNCHANGED <<holder, paused, sample>>
    PROVE  SocketInv'
<1>1. PICK w \in Wire : w = wire
  BY SocketTyped
<1>2. PICK l : l = Append(w.frames, f)
  OBVIOUS
<1>3. l \in Seq(WireFrame)
  BY <1>2, WireTypes, AppendProperties
<1>4. PICK x : x = [frames |-> l, serving |-> v, trailing |-> trailing]
  OBVIOUS
<1>5. v \in Sending \cup {NoSending}
  BY <1>1, WireTypes
<1>6. x \in Wire /\ x.frames = Append(w.frames, f) /\ x.serving \in {w.serving, NoSending}
  BY <1>1, <1>2, <1>3, <1>4, <1>5, WireTypes
<1>7. f.kind \in Answers => f.of = w.serving /\ w.serving # NoSending
  BY <1>1
<1>8. \A s, n : WireSound(w, s, n) => WireSound(x, s, n)
  BY <1>6, <1>7, AppendSound
<1>9. wire' = x
  BY <1>1, <1>2, <1>4
<1>10. \A s \in Sample : sample[s].at = "round" => WireSound(wire', s, sample[s].sent)
  BY <1>1, <1>8, <1>9 DEF SocketInv
<1>11. wire' \in Wire \cup {NoWire} /\ paused' \in BOOLEAN /\ UNCHANGED <<holder, sample>>
  BY <1>6, <1>9, SocketTyped
<1> QED  BY <1>10, <1>11, WireMoves

\* What arrives does not depend on who waits for it.
LEMMA ProviderKeeps ==
    ASSUME SocketInv, ProviderText \/ ProviderAnswers \/ ProviderTiming \/ ProviderExpires \/ ProviderCloses
    PROVE  SocketInv'
<1>1. UNCHANGED <<holder, paused, sample>> /\ wire # NoWire
  BY DEF ProviderText, ProviderAnswers, ProviderTiming, ProviderExpires, ProviderCloses, Serving, Open
<1>2. PICK w \in Wire : w = wire
  BY <1>1, SocketTyped
<1>3. /\ w.serving \in Sending \cup {NoSending}
      /\ w.trailing \in Sending \cup {NoSending} /\ w.frames \in Seq(WireFrame)
      /\ w = [frames |-> w.frames, serving |-> w.serving, trailing |-> w.trailing]
  BY <1>2, WireTypes
<1>4. PICK v, trailing, kind, of :
        /\ v \in {w.serving, NoSending} /\ trailing \in Sending \cup {NoSending}
        /\ kind \in {"text", "terminal", "timing", "expired", "end"} /\ of \in Sending \cup {NoSending}
        /\ kind \in Answers => of = w.serving /\ w.serving # NoSending
        /\ wire' = [frames |-> Append(w.frames, [kind |-> kind, of |-> of]), serving |-> v,
                    trailing |-> trailing]
  <2>1. CASE ProviderText
    <3>1. w.serving # NoSending
      BY <1>2, <2>1 DEF ProviderText, Serving
    <3>2. wire' = [w EXCEPT !.frames = Append(@, [kind |-> "text", of |-> w.serving])]
      BY <1>2, <2>1 DEF ProviderText, Sends
    <3>3. wire' = [frames |-> Append(w.frames, [kind |-> "text", of |-> w.serving]),
                   serving |-> w.serving, trailing |-> w.trailing]
      BY <1>3, <3>2
    <3> QED  BY <1>3, <3>1, <3>3 DEF Answers
  <2>2. CASE ProviderAnswers
    <3>1. w.serving # NoSending
      BY <1>2, <2>2 DEF ProviderAnswers, Serving
    <3>2. wire' = [[w EXCEPT !.serving = NoSending, !.trailing = w.serving] EXCEPT
                      !.frames = Append(@, [kind |-> "terminal", of |-> w.serving])]
      BY <1>2, <2>2 DEF ProviderAnswers, Sends
    <3>3. wire' = [frames |-> Append(w.frames, [kind |-> "terminal", of |-> w.serving]),
                   serving |-> NoSending, trailing |-> w.serving]
      BY <1>3, <3>2
    <3> QED  BY <1>3, <3>1, <3>3 DEF Answers
  <2>3. CASE ProviderTiming
    <3>1. wire' = [[w EXCEPT !.trailing = NoSending] EXCEPT
                      !.frames = Append(@, [kind |-> "timing", of |-> w.trailing])]
      BY <1>2, <2>3 DEF ProviderTiming, Sends
    <3>2. wire' = [frames |-> Append(w.frames, [kind |-> "timing", of |-> w.trailing]),
                   serving |-> w.serving, trailing |-> NoSending]
      BY <1>3, <3>1
    <3> QED  BY <1>3, <3>2 DEF Answers
  <2>4. CASE ProviderExpires
    <3>1. w.serving # NoSending
      BY <1>2, <2>4 DEF ProviderExpires, Serving
    <3>2. wire' = [[w EXCEPT !.serving = NoSending] EXCEPT
                      !.frames = Append(@, [kind |-> "expired", of |-> w.serving])]
      BY <1>2, <2>4 DEF ProviderExpires, Sends
    <3>3. wire' = [frames |-> Append(w.frames, [kind |-> "expired", of |-> w.serving]),
                   serving |-> NoSending, trailing |-> w.trailing]
      BY <1>3, <3>2
    <3> QED  BY <1>3, <3>1, <3>3 DEF Answers
  <2>5. CASE ProviderCloses
    <3>1. wire' = [[w EXCEPT !.serving = NoSending, !.trailing = NoSending] EXCEPT
                      !.frames = Append(@, [kind |-> "end", of |-> NoSending])]
      BY <1>2, <2>5 DEF ProviderCloses, Sends
    <3>2. wire' = [frames |-> Append(w.frames, [kind |-> "end", of |-> NoSending]),
                   serving |-> NoSending, trailing |-> NoSending]
      BY <1>3, <3>1
    <3> QED  BY <1>3, <3>2 DEF Answers
  <2> QED  BY <2>1, <2>2, <2>3, <2>4, <2>5
<1>5. PICK f : f = [kind |-> kind, of |-> of]
  OBVIOUS
<1>6. f \in WireFrame /\ (f.kind \in Answers => f.of = wire.serving /\ wire.serving # NoSending)
  BY <1>2, <1>4, <1>5 DEF WireFrame
<1>7. wire' = [frames |-> Append(wire.frames, f), serving |-> v, trailing |-> trailing]
  BY <1>2, <1>4, <1>5
<1>8. v \in {wire.serving, NoSending} /\ trailing \in Sending \cup {NoSending}
  BY <1>2, <1>4
<1> QED  BY ONLY SocketInv, <1>1, <1>6, <1>7, <1>8, SendsSound

-----------------------------------------------------------------------------
(* The invariant, and what it shows. *)

LEMMA SocketStarts == SocketInit => SocketInv
<1> SUFFICES ASSUME SocketInit PROVE SocketInv
  OBVIOUS
<1>1. /\ NewSample \in SampleState /\ NewSample.at = "new" /\ NewSample.shown = {} /\ ~NewSample.expired
      /\ NewSample.sent = 0 /\ NewSample.tries = 0
  BY NoneYet DEF NewSample, SampleState
<1>2. \A s \in Sample : sample[s] = NewSample
  BY DEF SocketInit
<1>3. \A s : SampleSound(s, NewSample)
  BY <1>1 DEF SampleSound
<1>4. SocketTypeOK
  BY <1>1, SocketTypes DEF SocketInit
<1>5. \A s \in Sample : holder # s
  BY SocketAssumption DEF SocketInit
<1> QED  BY <1>1, <1>2, <1>3, <1>4, <1>5 DEF SocketInv

LEMMA SocketStep == SocketInv /\ [SocketNext]_socketVars => SocketInv'
<1> SUFFICES ASSUME SocketInv, [SocketNext]_socketVars PROVE SocketInv'
  OBVIOUS
<1>1. ASSUME NEW s \in Sample, SampleStep(s) \/ OpenFails(s) \/ RoundFails(s) \/ CancelWait(s)
      PROVE  SocketInv'
  BY <1>1, BeginExchangeKeeps, ReadyKeeps, GivesWayKeeps, ReadTimingKeeps, ReadTextKeeps,
     ReadTerminalKeeps, RoundEndsKeeps, HttpKeeps, WaitKeeps DEF SampleStep
<1>2. CASE ProviderText \/ ProviderAnswers \/ ProviderTiming \/ ProviderExpires \/ ProviderCloses
  BY <1>2, ProviderKeeps
<1>3. CASE PauseEnds \/ UNCHANGED socketVars
  <2>1. UNCHANGED <<holder, wire, sample>> /\ paused' \in BOOLEAN
    BY <1>3, SocketTyped DEF PauseEnds, socketVars
  <2>2. wire' \in Wire \cup {NoWire}
    BY <2>1, SocketTyped
  <2>3. \A s \in Sample : sample[s].at = "round" => WireSound(wire, s, sample[s].sent)
    BY DEF SocketInv
  <2>4. \A s \in Sample : sample[s].at = "round" => WireSound(wire', s, sample[s].sent)
    BY <2>1, <2>3
  <2> QED  BY <2>1, <2>2, <2>4, WireMoves
<1> QED  BY <1>1, <1>2, <1>3 DEF SocketNext

\* What an attempt shows is one answer, and its own: usable drops what an earlier
\* request left on the connection, and after a lost connection a message only
\* goes out again while nothing of its answer was shown, except where the
\* connection is refused for its age (exchange, round).
THEOREM AnswersAreSingle == SocketSpec => []OneAnswer
<1>1. SocketInv /\ [SocketNext]_socketVars => SocketInv'
  BY SocketStep
<1> QED  BY <1>1, SocketStarts, SocketShows, PTL DEF SocketSpec
=============================================================================
