------------------------------- MODULE HttpPool -------------------------------
(***************************************************************************)
(* Native HTTP requests (src/http): every request runs on an adapter, a    *)
(* process that serves one request at a time, keeps its connection and is  *)
(* reused through a pool (pool.rs, adapter.rs).  The process is            *)
(* src/native/unix_http_exchange.h; the server is external.                *)
(*                                                                         *)
(* An answer has two parts, a head and a rest.  Left out: the bytes, TLS,  *)
(* proxies, interim heads, and more than one kept connection per process.  *)
(***************************************************************************)
EXTENDS Naturals, Sequences, FiniteSets

CONSTANTS
    Request,
    Safe,         \* requests of a method that may be repeated (GET, HEAD)
    Adapter,
    NoAdapter, NoRequest,
    MaxIdle,      \* MAX_IDLE
    StaleRetries, \* STALE_RETRIES
    MaxBroken     \* bound on failing observers, processes and connects

ASSUME PoolAssumption ==
    /\ Safe \subseteq Request
    /\ NoAdapter \notin Adapter /\ NoRequest \notin Request
    /\ {MaxIdle, StaleRetries, MaxBroken} \subseteq Nat

VARIABLES
    idle,     \* Pool.idle, the newest last
    caller,   \* the thread in Pool::run, per request
    process,  \* the adapter's process
    delivery, \* Delivery: the thread that writes the request to its pipe
    frames,   \* Adapter.frames
    link,     \* the process's connection, and what it has yet to read from it
    served,   \* how often a request went out, and may have been carried out
    broken    \* failures so far

poolVars == <<idle, caller, process, delivery, frames, link, served, broken>>

Part == [of : Request, part : 1..2]
Frame == [tag : {"accepted", "data", "end", "failed"}, of : Request, part : 0..2]
Link == [open : BOOLEAN, owed : Seq(Part)]

PoolTypeOK ==
    /\ idle \in Seq(Adapter)
    /\ caller \in [Request -> [at : {"new", "acquire", "exchange", "recover", "done"},
                               adapter : Adapter \cup {NoAdapter}, tries : 0..2,
                               accepted : BOOLEAN, seen : Seq(Part),
                               result : {"none", "whole", "failed", "unsent"}]]
    /\ process \in [Adapter -> [at : {"gone", "reading", "accepted", "head", "rest", "stuck"},
                                request : Request \cup {NoRequest}, reused : BOOLEAN,
                                attempt : 0..StaleRetries]]
    /\ delivery \in [Adapter -> {"none", "writing", "written", "broken"}]
    /\ frames \in [Adapter -> Seq(Frame)]
    /\ link \in [Adapter -> Link]
    /\ served \in [Request -> Nat]
    /\ broken \in 0..MaxBroken

NoLink == [open |-> FALSE, owed |-> <<>>]
Gone == [at |-> "gone", request |-> NoRequest, reused |-> FALSE, attempt |-> 0]
Reading == [Gone EXCEPT !.at = "reading"]
AnswerTo(r) == <<[of |-> r, part |-> 1], [of |-> r, part |-> 2]>>

New == [at |-> "new", adapter |-> NoAdapter, tries |-> 0, accepted |-> FALSE,
        seen |-> <<>>, result |-> "none"]

PoolInit ==
    /\ idle = <<>>
    /\ caller = [r \in Request |-> New]
    /\ process = [a \in Adapter |-> Gone]
    /\ delivery = [a \in Adapter |-> "none"]
    /\ frames = [a \in Adapter |-> <<>>]
    /\ link = [a \in Adapter |-> NoLink]
    /\ served = [r \in Request |-> 0]
    /\ broken = 0

alive(a) == process[a].at # "gone"
IsIdle(a) == \E i \in DOMAIN idle : idle[i] = a
InUse(a) == \E r \in Request : caller[r].adapter = a

-----------------------------------------------------------------------------
(* The caller: Pool::run and exchange. *)

Returns(r, result) ==
    caller' = [caller EXCEPT ![r] = [New EXCEPT !.at = "done", !.result = result,
                                                !.seen = IF result = "whole" THEN caller[r].seen ELSE <<>>]]

\* Adapter::stop: killed and waited for.
Killed(a) ==
    /\ process' = [process EXCEPT ![a] = Gone]
    /\ frames' = [frames EXCEPT ![a] = <<>>]
    /\ link' = [link EXCEPT ![a] = NoLink]
    /\ delivery' = [delivery EXCEPT ![a] = "none"]

\* A cancellation may be there already.
RunPool(r) ==
    /\ caller[r].at = "new"
    /\ \/ Returns(r, "unsent")
       \/ caller' = [caller EXCEPT ![r].at = "acquire"]
    /\ UNCHANGED <<idle, process, delivery, frames, link, served, broken>>

\* The newest idle adapter whose process runs; those above it are stopped.
NewestAlive == {i \in DOMAIN idle : alive(idle[i]) /\ \A j \in DOMAIN idle : j > i => ~alive(idle[j])}

\* A new process may have any identity that is free.
Startable == {a \in Adapter : ~alive(a) /\ ~InUse(a)}

acquire(r, a) ==
    /\ IF NewestAlive # {}
       THEN \E i \in NewestAlive : a = idle[i] /\ idle' = SubSeq(idle, 1, i - 1)
                                   /\ process' = process
       ELSE /\ Startable # {} /\ a = CHOOSE b \in Startable : TRUE
            /\ idle' = <<>>
            /\ process' = [process EXCEPT ![a] = Reading]
    /\ caller' = [caller EXCEPT ![r] = [@ EXCEPT !.at = "exchange", !.adapter = a,
                                                 !.tries = caller[r].tries + 1,
                                                 !.accepted = FALSE]]

\* acquire, and exchange's deliver: the request is on its way to the process.
AcquireAdapter(r) ==
    /\ caller[r].at = "acquire" /\ caller[r].tries < 2
    /\ \E a \in Adapter :
          /\ acquire(r, a)
          /\ delivery' = [delivery EXCEPT ![a] = "writing"]
          /\ frames' = IF alive(a) THEN frames ELSE [frames EXCEPT ![a] = <<>>]
    /\ UNCHANGED <<link, served, broken>>

\* Two adapters stopped before accepting.
Exhausted(r) ==
    /\ caller[r].at = "acquire" /\ caller[r].tries = 2
    /\ Returns(r, "unsent")
    /\ UNCHANGED <<idle, process, delivery, frames, link, served, broken>>

Discard(r, result) == Killed(caller[r].adapter) /\ Returns(r, result)

\* A cancellation is seen, or a limit has passed.
GiveUp(r) ==
    /\ caller[r].at = "exchange"
    /\ Discard(r, "failed")
    /\ UNCHANGED <<idle, served, broken>>

FirstFrame(a) == Head(frames[a])
TakeFrame(a) == frames' = [frames EXCEPT ![a] = Tail(@)]

ReceiveAccepted(r) ==
    LET a == caller[r].adapter IN
    /\ caller[r].at = "exchange" /\ frames[a] # <<>> /\ FirstFrame(a).tag = "accepted"
    /\ caller' = [caller EXCEPT ![r].accepted = TRUE]
    /\ TakeFrame(a)
    /\ UNCHANGED <<idle, process, delivery, link, served, broken>>

ReceiveData(r) ==
    LET a == caller[r].adapter IN
    /\ caller[r].at = "exchange" /\ frames[a] # <<>> /\ FirstFrame(a).tag = "data"
    /\ caller' = [caller EXCEPT ![r].seen =
                     Append(@, [of |-> FirstFrame(a).of, part |-> FirstFrame(a).part])]
    /\ TakeFrame(a)
    /\ UNCHANGED <<idle, process, delivery, link, served, broken>>

\* The observer refuses what it was given.
ObserverFails(r) ==
    LET a == caller[r].adapter IN
    /\ caller[r].at = "exchange" /\ frames[a] # <<>> /\ FirstFrame(a).tag = "data"
    /\ broken < MaxBroken /\ broken' = broken + 1
    /\ Discard(r, "failed")
    /\ UNCHANGED <<idle, served>>

\* The end of the answer: the pipe must be taken back from the delivery first.
ReceiveEnd(r) ==
    LET a == caller[r].adapter IN
    /\ caller[r].at = "exchange" /\ frames[a] # <<>> /\ FirstFrame(a).tag \in {"end", "failed"}
    /\ caller' = [caller EXCEPT ![r] = [@ EXCEPT !.at = "recover",
                                                 !.result = IF FirstFrame(a).tag = "end" THEN "whole"
                                                            ELSE "failed"]]
    /\ TakeFrame(a)
    /\ UNCHANGED <<idle, process, delivery, link, served, broken>>

\* recover, and release or stop.
release_Always(r) ==
    /\ idle' = Append(idle, caller[r].adapter)
    /\ delivery' = [delivery EXCEPT ![caller[r].adapter] = "none"]
    /\ UNCHANGED <<process, frames, link>>
release(r) ==
    IF Len(idle) < MaxIdle
    THEN /\ idle' = Append(idle, caller[r].adapter)
         /\ delivery' = [delivery EXCEPT ![caller[r].adapter] = "none"]
         /\ UNCHANGED <<process, frames, link>>
    ELSE Killed(caller[r].adapter) /\ idle' = idle

Recover(r) ==
    LET a == caller[r].adapter IN
    /\ caller[r].at = "recover" /\ delivery[a] \in {"written", "broken"}
    /\ IF delivery[a] = "written" THEN release(r)
       ELSE Killed(a) /\ idle' = idle
    /\ Returns(r, caller[r].result)
    /\ UNCHANGED <<served, broken>>

\* The process ended and everything it wrote was read.
Disconnected(r) ==
    /\ caller[r].at = "exchange"
    /\ ~alive(caller[r].adapter) /\ frames[caller[r].adapter] = <<>>

AfterDisconnect_Resends(r) ==
    /\ Killed(caller[r].adapter)
    /\ caller' = [caller EXCEPT ![r] = [@ EXCEPT !.at = "acquire", !.adapter = NoAdapter]]
AfterDisconnect(r) ==
    IF caller[r].accepted THEN Discard(r, "failed")
    ELSE /\ Killed(caller[r].adapter)
         /\ caller' = [caller EXCEPT ![r] = [@ EXCEPT !.at = "acquire", !.adapter = NoAdapter]]

Disconnect(r) ==
    /\ Disconnected(r) /\ AfterDisconnect(r)
    /\ UNCHANGED <<idle, served, broken>>

-----------------------------------------------------------------------------
(* The adapter's process: serve_requests and perform. *)

WriteFrame(a, tag, part) ==
    frames' = [frames EXCEPT ![a] = Append(@, [tag |-> tag, of |-> process[a].request, part |-> part])]

\* The process ends by itself: its pipe breaks, unless the request fitted it.
Ends(a) ==
    /\ process' = [process EXCEPT ![a] = Gone]
    /\ link' = [link EXCEPT ![a] = NoLink]
    /\ \E written \in (IF delivery[a] = "writing" THEN {"written", "broken"} ELSE {delivery[a]}) :
          delivery' = [delivery EXCEPT ![a] = written]

\* A whole request was read: nothing of it was sent yet.
Accept(a) ==
    \E r \in Request :
       /\ process[a].at = "reading" /\ caller[r].adapter = a /\ delivery[a] = "writing"
       /\ process' = [process EXCEPT ![a] = [Reading EXCEPT !.at = "accepted", !.request = r]]
       /\ delivery' = [delivery EXCEPT ![a] = "written"]
       /\ frames' = [frames EXCEPT ![a] = Append(@, [tag |-> "accepted", of |-> r, part |-> 0])]
       /\ UNCHANGED <<idle, caller, link, served, broken>>

\* The beginning of a request does not parse, or there is no memory for it: it is
\* refused, and the process ends.
Refusal(a, r) ==
    frames' = [frames EXCEPT ![a] = @ \o <<[tag |-> "accepted", of |-> r, part |-> 0],
                                          [tag |-> "failed", of |-> r, part |-> 0]>>]

Refuse_Stays(a) ==
    \E r \in Request :
       /\ process[a].at = "reading" /\ caller[r].adapter = a /\ delivery[a] = "writing"
       /\ Refusal(a, r)
       /\ process' = [process EXCEPT ![a].at = "stuck"]
       /\ UNCHANGED <<idle, caller, delivery, link, served, broken>>
Refuse(a) ==
    \E r \in Request :
       /\ process[a].at = "reading" /\ caller[r].adapter = a /\ delivery[a] = "writing"
       /\ Refusal(a, r)
       /\ Ends(a)
       /\ UNCHANGED <<idle, caller, served, broken>>

\* The idle limit passed; a request may have been on its way.
IdleExit(a) ==
    /\ process[a].at = "reading"
    /\ Ends(a)
    /\ UNCHANGED <<idle, caller, frames, served, broken>>

\* The process is killed from outside while it serves.
Breaks(a) ==
    /\ process[a].at \in {"accepted", "head", "rest"}
    /\ broken < MaxBroken /\ broken' = broken + 1
    /\ Ends(a)
    /\ UNCHANGED <<idle, caller, frames, served>>

\* take_cached gives the kept connection, if nothing happened on it, or one is
\* opened.  send_request sends the request on it.
Connect(a) ==
    LET r == process[a].request IN
    /\ process[a].at = "accepted"
    /\ \/ /\ link[a].open
          /\ process' = [process EXCEPT ![a] = [@ EXCEPT !.at = "head", !.reused = TRUE]]
          /\ link' = [link EXCEPT ![a].owed = @ \o AnswerTo(r)]
       \/ /\ process' = [process EXCEPT ![a] = [@ EXCEPT !.at = "head", !.reused = FALSE]]
          /\ link' = [link EXCEPT ![a] = [open |-> TRUE, owed |-> AnswerTo(r)]]
    /\ served' = [served EXCEPT ![r] = @ + 1]
    /\ UNCHANGED <<idle, caller, delivery, frames, broken>>

Fails(a) ==
    /\ WriteFrame(a, "failed", 0)
    /\ process' = [process EXCEPT ![a] = Reading]

ConnectFails(a) ==
    /\ process[a].at = "accepted" /\ broken < MaxBroken /\ broken' = broken + 1
    /\ Fails(a)
    /\ link' = [link EXCEPT ![a] = NoLink]
    /\ UNCHANGED <<idle, caller, delivery, served>>

WriteData(a, last) ==
    LET part == Head(link[a].owed)
        data == [tag |-> "data", of |-> part.of, part |-> part.part]
    IN  frames' = [frames EXCEPT ![a] = @ \o <<data>> \o last]

ReadHead(a) ==
    /\ process[a].at = "head" /\ link[a].owed # <<>>
    /\ WriteData(a, <<>>)
    /\ process' = [process EXCEPT ![a] = [@ EXCEPT !.at = "rest", !.reused = FALSE, !.attempt = 0]]
    /\ link' = [link EXCEPT ![a].owed = Tail(@)]
    /\ UNCHANGED <<idle, caller, delivery, served, broken>>

\* No head came: the server closed the connection, before the request or after,
\* or was silent too long.
\* Only a safe request on a reused connection goes out again.
Repeats_Any(a) == process[a].reused /\ process[a].attempt < StaleRetries
Repeats(a) ==
    process[a].reused /\ process[a].attempt < StaleRetries /\ process[a].request \in Safe

AfterNoHead_Keeps(a) == link' = link
AfterNoHead(a) == link' = [link EXCEPT ![a] = NoLink]

NoHead(a) ==
    /\ process[a].at = "head"
    /\ IF Repeats(a)
       THEN /\ process' = [process EXCEPT ![a] = [@ EXCEPT !.at = "accepted",
                                                             !.attempt = process[a].attempt + 1]]
            /\ frames' = frames
       ELSE Fails(a)
    /\ AfterNoHead(a)
    /\ UNCHANGED <<idle, caller, delivery, served, broken>>

\* The rest was read: the connection is kept when it ended there.
ReadRest(a) ==
    /\ process[a].at = "rest" /\ link[a].owed # <<>>
    /\ WriteData(a, <<[tag |-> "end", of |-> process[a].request, part |-> 0]>>)
    /\ process' = [process EXCEPT ![a] = Reading]
    /\ link' \in {[link EXCEPT ![a].owed = Tail(@)], [link EXCEPT ![a] = NoLink]}
    /\ UNCHANGED <<idle, caller, delivery, served, broken>>

NoRest(a) ==
    /\ process[a].at = "rest"
    /\ Fails(a)
    /\ link' = [link EXCEPT ![a] = NoLink]
    /\ UNCHANGED <<idle, caller, delivery, served, broken>>

-----------------------------------------------------------------------------
CallerStep(r) ==
    \/ RunPool(r) \/ AcquireAdapter(r) \/ Exhausted(r) \/ ReceiveAccepted(r) \/ ReceiveData(r)
    \/ ReceiveEnd(r) \/ Recover(r) \/ Disconnect(r)

ProcessStep(a) ==
    \/ Accept(a) \/ Refuse(a) \/ Connect(a) \/ ReadHead(a) \/ NoHead(a) \/ ReadRest(a) \/ NoRest(a)

PoolNext ==
    \/ \E r \in Request : CallerStep(r)
    \/ \E r \in Request : GiveUp(r) \/ ObserverFails(r)
    \/ \E a \in Adapter : ProcessStep(a)
    \/ \E a \in Adapter : IdleExit(a) \/ Breaks(a) \/ ConnectFails(a)

\* A thread in run polls every 10 ms, and a process serves what it accepted: its
\* waits for the server are bounded (RECEIVE_LIMIT_MS).
PoolFairness ==
    /\ \A r \in Request : WF_poolVars(CallerStep(r))
    /\ \A a \in Adapter : WF_poolVars(ProcessStep(a))

PoolSpec == PoolInit /\ [][PoolNext]_poolVars /\ PoolFairness

-----------------------------------------------------------------------------
(* Properties. *)

\* "Sending again is safe: an adapter that never accepted sent nothing."  However
\* processes end, idle out or lose connections, a request that must not be
\* repeated goes out at most once in one run, a safe one no more often than
\* connections may turn out stale, and one reported as unsent never did.
RepeatedSafely ==
    \A r \in Request :
       /\ served[r] <= IF r \in Safe THEN 1 + StaleRetries ELSE 1
       /\ caller[r].result = "unsent" => served[r] = 0

\* What the observer sees is the beginning of the request's own answer, and a
\* request that succeeds saw all of it: no frame and no byte of another request
\* is left in a reused process or connection.
OwnAnswer ==
    \A r \in Request :
       /\ caller[r].seen = SubSeq(AnswerTo(r), 1, Len(caller[r].seen))
       /\ caller[r].result = "whole" => caller[r].seen = AnswerTo(r)

\* Every process that runs is idle in the pool or carries one request, and the
\* pool holds no more than its limit.
NoneLeaks ==
    /\ Len(idle) <= MaxIdle
    /\ \A a \in Adapter : alive(a) => IsIdle(a) \/ InUse(a)
    /\ \A a \in Adapter : IsIdle(a) => ~InUse(a)
    /\ \A r, q \in Request : caller[r].adapter = caller[q].adapter /\ caller[r].adapter # NoAdapter => r = q

\* A process that is used again is clean, and nobody else's.
ReusedClean == OwnAnswer /\ NoneLeaks

\* Every request returns, although a caller waits without a limit for its pipe
\* once the answer has ended.
RequestReturns == <>(\A r \in Request : caller[r].at = "done")
=============================================================================
