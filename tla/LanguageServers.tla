---------------------------- MODULE LanguageServers ----------------------------
(***************************************************************************)
(* Language servers (src/lsp): the conversation's runtime registers one    *)
(* instance per server and root.  A query waits for the instance's session *)
(* (the lock on its state), starts the server when there is none, brings   *)
(* the server's copy of the file up to date, asks, and then looks whether  *)
(* anything changed meanwhile (runtime.rs, execute).  Around it work the   *)
(* idle pump of a started server (idle.rs), the threads that stop retired  *)
(* instances (control.rs) and the user's settings panel.                   *)
(*                                                                         *)
(* There is one server and one root here, and every query is about one     *)
(* file.  Left out: messages' contents, diagnostics kept from earlier      *)
(* answers, and the eviction of documents.                                 *)
(***************************************************************************)
EXTENDS Naturals, FiniteSets

CONSTANTS
    Query,        \* threads that ask, again and again
    Entry,        \* identities of instances, used again once free
    NoEntry, NoQuery,
    Text, NoText, \* what the file may contain
    Fingerprint,  \* settings the server may have
    Off,          \* it is disabled or removed
    MaxFailures,  \* 3: crashes in a row after which it is not restarted
    MaxUser       \* bound on what the user does in the settings panel

ASSUME ServersAssumption ==
    /\ NoEntry \notin Entry /\ NoQuery \notin Query /\ NoText \notin Text
    /\ Off \notin Fingerprint
    /\ MaxFailures \in Nat \ {0} /\ MaxUser \in Nat

VARIABLES
    settings,  \* the settings' file
    text,      \* the queried file
    entry,     \* Entry and its State, per instance
    query,     \* the thread of each query
    reset,     \* reset_restart holds the registry's lock
    user       \* what the user did so far

serverVars == <<settings, text, entry, query, reset, user>>

\* What a Status tells: whether there is a client, and the crashes before it.
Condition == [client : BOOLEAN, failures : 0..MaxFailures]

ServerTypeOK ==
    /\ settings \in Fingerprint \cup {Off}
    /\ text \in Text
    /\ reset \in BOOLEAN /\ user \in 0..MaxUser
    /\ entry \in [Entry ->
         [life : {"free", "registered", "removed", "stopping", "stopped"},
          fingerprint : Fingerprint \cup {Off},
          client : {"none", "up", "down"},
          failures : 0..MaxFailures, crashes : 0..MaxFailures + 1,
          session : Query \cup {NoQuery}, observed : Condition]]
    /\ query \in [Query ->
         [at : {"idle", "loaded", "queued", "session", "asked", "poll", "check", "enabled",
                "release", "returning"},
          fingerprint : Fingerprint \cup {Off}, on : Entry \cup {NoEntry},
          dirty : BOOLEAN, document : Text \cup {NoText}, answer : Text \cup {NoText},
          freshness : {"unavailable", "synchronized", "stale", "sync_gap"}]]

Unstarted == [client |-> FALSE, failures |-> 0]
Free == [life |-> "free", fingerprint |-> Off, client |-> "none", failures |-> 0, crashes |-> 0,
         session |-> NoQuery, observed |-> Unstarted]
Idle == [at |-> "idle", fingerprint |-> Off, on |-> NoEntry, dirty |-> FALSE,
         document |-> NoText, answer |-> NoText, freshness |-> "unavailable"]

ServerInit ==
    /\ settings \in Fingerprint /\ text \in Text
    /\ reset = FALSE /\ user = 0
    /\ entry = [e \in Entry |-> Free]
    /\ query = [q \in Query |-> Idle]

Registered == {e \in Entry : entry[e].life = "registered"}
Stopped(e) == entry[e].life \in {"stopping", "stopped"}
RegistryFree == ~reset

ConditionOf(i) == [client |-> i.client # "none", failures |-> i.failures]

\* Session::drop: what observers read is published while the state is held.
Published(i) == [i EXCEPT !.session = NoQuery, !.observed = ConditionOf(i)]

\* State::crashed: the client is dropped, which kills its process.
Crashed(i) ==
    [i EXCEPT !.client = "none", !.failures = IF i.failures < MaxFailures THEN i.failures + 1 ELSE @,
              !.crashes = IF i.crashes <= MaxFailures THEN i.crashes + 1 ELSE @]

-----------------------------------------------------------------------------
(* execute. *)

Leaving(q, at) == [Idle EXCEPT !.at = at, !.on = query[q].on]

\* The settings are read, and instances that have others leave the registry.
Load(q) ==
    /\ query[q].at = "idle" /\ settings # Off /\ RegistryFree
    /\ query' = [query EXCEPT ![q] = [@ EXCEPT !.at = "loaded", !.fingerprint = settings]]
    /\ entry' = [e \in Entry |-> IF e \in Registered /\ entry[e].fingerprint # settings
                                 THEN [entry[e] EXCEPT !.life = "removed"] ELSE entry[e]]
    /\ UNCHANGED <<settings, text, reset, user>>

\* The instance registered under these settings, or a new one in place of
\* another; the replaced one is stopped next.  The query counts from here on.
Enter(q) ==
    LET f == query[q].fingerprint
        same == {e \in Registered : entry[e].fingerprint = f}
        unused == {e \in Entry : entry[e].life = "free"}
        fresh == CHOOSE e \in unused : TRUE
        on == IF same # {} THEN CHOOSE e \in same : TRUE ELSE fresh
    IN  /\ query[q].at = "loaded" /\ RegistryFree
        /\ same # {} \/ unused # {}
        /\ query' = [query EXCEPT ![q] = [Idle EXCEPT !.at = "queued", !.on = on]]
        /\ entry' = [e \in Entry |->
                       IF e = on THEN [entry[e] EXCEPT !.life = "registered", !.fingerprint = f]
                       ELSE IF e \in Registered THEN [entry[e] EXCEPT !.life = "removed"]
                       ELSE entry[e]]
        /\ UNCHANGED <<settings, text, reset, user>>

\* Pending::drop: the query no longer counts.
Return(q) ==
    /\ query[q].at = "returning"
    /\ query' = [query EXCEPT ![q] = Idle]
    /\ UNCHANGED <<settings, text, entry, reset, user>>

\* Cancelled, or waited too long, or the instance is being stopped.
LeaveQueue(q) ==
    /\ query[q].at = "queued"
    /\ query' = [query EXCEPT ![q] = Leaving(q, "returning")]
    /\ UNCHANGED <<settings, text, entry, reset, user>>

\* try_session; the instance must not have been stopped while the query waited.
Acquire(q) ==
    LET e == query[q].on IN
    /\ query[q].at = "queued" /\ entry[e].session = NoQuery
    /\ IF Stopped(e)
       THEN /\ query' = [query EXCEPT ![q] = Leaving(q, "returning")]
            /\ entry' = entry
       ELSE /\ query' = [query EXCEPT ![q].at = "session"]
            /\ entry' = [entry EXCEPT ![e].session = q]
    /\ UNCHANGED <<settings, text, reset, user>>

\* The counter will be compared with what it was when the query entered.
Unjudged(q) == query[q].at \in {"queued", "session", "asked", "poll", "check"}

InSession(q, at) == query[q].at = at /\ entry[query[q].on].session = q
Client(q) == entry[query[q].on].client

\* After three crashes in a row the server stays down; before, it stays down
\* for some seconds, in which queries fail.
RefuseStart(q) ==
    LET i == entry[query[q].on] IN
    /\ InSession(q, "session") /\ i.failures > 0
    /\ i.failures >= MaxFailures \/ i.client = "none"
    /\ query' = [query EXCEPT ![q] = Leaving(q, "release")]
    /\ UNCHANGED <<settings, text, entry, reset, user>>

MayStart(q) == Client(q) = "none" /\ entry[query[q].on].failures < MaxFailures

Started_Forgives(i) ==
    [i EXCEPT !.client = "up", !.failures = 0]
Started(i) == [i EXCEPT !.client = "up"]

Start(q) ==
    /\ InSession(q, "session") /\ MayStart(q)
    /\ entry' = [entry EXCEPT ![query[q].on] = Started(@)]
    /\ UNCHANGED <<settings, text, query, reset, user>>

\* Not found, cancelled or timed out; only other failures count as crashes.
StartFails(q) ==
    /\ InSession(q, "session") /\ MayStart(q)
    /\ entry' \in {entry, [entry EXCEPT ![query[q].on] = Crashed(@)]}
    /\ query' = [query EXCEPT ![q] = Leaving(q, "release")]
    /\ UNCHANGED <<settings, text, reset, user>>

\* drain, poll_open_documents and reconcile: the server gets the file's text.
\* query sends the question, which is answered about that text.
Ask(q) ==
    LET e == query[q].on IN
    /\ InSession(q, "session") /\ Client(q) = "up" /\ entry[e].failures < MaxFailures
    /\ query' = [query EXCEPT ![q] = [@ EXCEPT !.at = "asked", !.document = text, !.answer = text]]
    /\ UNCHANGED <<settings, text, entry, reset, user>>

\* QueryFailure::Controlled: the file cannot be read, the answer is an error,
\* or it does not come in time.  What it says of freshness matters to nobody.
AskFails(q) ==
    /\ InSession(q, "session") \/ InSession(q, "asked")
    /\ Client(q) = "up"
    /\ query' = [query EXCEPT ![q] = Leaving(q, "enabled")]
    /\ UNCHANGED <<settings, text, entry, reset, user>>

\* QueryFailure::Transport: the process ended.
Loses(q) ==
    /\ InSession(q, "session") \/ InSession(q, "asked")
    /\ Client(q) = "down"
    /\ entry' = [entry EXCEPT ![query[q].on] = Crashed(@)]
    /\ query' = [query EXCEPT ![q] = Leaving(q, "enabled")]
    /\ UNCHANGED <<settings, text, reset, user>>

\* A completed query proves the instance healthy.  sync_gap: not all watched
\* files could be looked at.
Answer(q) ==
    /\ InSession(q, "asked") /\ Client(q) = "up"
    /\ entry' = [entry EXCEPT ![query[q].on] = [@ EXCEPT !.failures = 0, !.crashes = 0]]
    /\ \E freshness \in {"synchronized", "sync_gap"} :
          query' = [query EXCEPT ![q] = [@ EXCEPT !.at = "poll", !.freshness = freshness]]
    /\ UNCHANGED <<settings, text, reset, user>>

\* The documents are polled again: one whose version is another by now was
\* changed, or was sent again because a file it depends on was.
Polled_AnyVersion(q) ==
    IF Client(q) = "down" THEN {"sync_gap"} ELSE {query[q].freshness, "sync_gap", "stale"}
Polled(q) ==
    IF Client(q) = "down" THEN {"sync_gap"}
    ELSE IF query[q].document # text THEN {"stale"}
    ELSE {query[q].freshness, "sync_gap", "stale"}

FinalPoll(q) ==
    /\ InSession(q, "poll")
    /\ \E freshness \in Polled(q) :
          query' = [query EXCEPT ![q] = [@ EXCEPT !.at = "check", !.freshness = freshness,
                      !.document = IF Client(q) = "up" THEN text ELSE query[q].document]]
    /\ UNCHANGED <<settings, text, entry, reset, user>>

\* The counter of announced changes, and the file against the server's copy.
Verdict(q) ==
    IF query[q].dirty \/ query[q].document # text THEN "stale" ELSE query[q].freshness

Check(q) ==
    /\ InSession(q, "check")
    /\ query' = [query EXCEPT ![q] = [Leaving(q, "enabled") EXCEPT !.freshness = Verdict(q)]]
    /\ UNCHANGED <<settings, text, entry, reset, user>>

\* still_enabled, or else retire, which takes the registry's lock while the
\* session is held.
StillEnabled(q) == ~Stopped(query[q].on) /\ settings = entry[query[q].on].fingerprint

Confirm(q) ==
    /\ InSession(q, "enabled") /\ StillEnabled(q)
    /\ query' = [query EXCEPT ![q] = Leaving(q, "release")]
    /\ UNCHANGED <<settings, text, entry, reset, user>>

RetireOwn(q) ==
    LET e == query[q].on IN
    /\ InSession(q, "enabled") /\ ~StillEnabled(q) /\ RegistryFree
    /\ entry' = [entry EXCEPT ![e].life = IF @ = "registered" THEN "removed" ELSE @]
    /\ query' = [query EXCEPT ![q] = Leaving(q, "release")]
    /\ UNCHANGED <<settings, text, reset, user>>

\* The session is declared after the count, so it is dropped before it.
Release_Uncounted(q) ==
    /\ query[q].at = "release" /\ entry[query[q].on].session = q
    /\ query' = [query EXCEPT ![q] = Idle]
    /\ entry' = [entry EXCEPT ![query[q].on].session = NoQuery]
    /\ UNCHANGED <<settings, text, reset, user>>
Release(q) ==
    /\ InSession(q, "release")
    /\ query' = [query EXCEPT ![q] = Leaving(q, "returning")]
    /\ entry' = [entry EXCEPT ![query[q].on] = Published(@)]
    /\ UNCHANGED <<settings, text, reset, user>>

-----------------------------------------------------------------------------
(* Stopping, the idle pump and the settings panel. *)

\* retire_where and entry, after the registry's lock: stop is requested.
Stop(e) ==
    /\ entry[e].life = "removed"
    /\ entry' = [entry EXCEPT ![e].life = "stopping"]
    /\ UNCHANGED <<settings, text, query, reset, user>>

\* The thread that waits for the session and shuts the server down.
Shutdown(e) ==
    /\ entry[e].life = "stopping" /\ entry[e].session = NoQuery
    /\ entry' = [entry EXCEPT ![e] = Published([@ EXCEPT !.life = "stopped", !.client = "none"])]
    /\ UNCHANGED <<settings, text, query, reset, user>>

\* The last query that knew the instance is gone.
Forget(e) ==
    /\ entry[e].life = "stopped" /\ \A q \in Query : query[q].on # e
    /\ entry' = [entry EXCEPT ![e] = Free]
    /\ UNCHANGED <<settings, text, query, reset, user>>

\* The idle pump of a started server; without its client it ends.  Every 250 ms
\* it compares the settings.
PumpRetires_Exists(e) ==
    /\ entry[e].client # "none" /\ entry[e].fingerprint \notin Fingerprint /\ RegistryFree
    /\ entry' = [entry EXCEPT ![e].life = "removed"]
    /\ UNCHANGED <<settings, text, query, reset, user>>
PumpRetires(e) ==
    /\ entry[e].client # "none" /\ entry[e].life = "registered"
    /\ entry[e].fingerprint # settings /\ RegistryFree
    /\ entry' = [entry EXCEPT ![e].life = "removed"]
    /\ UNCHANGED <<settings, text, query, reset, user>>

\* drain and poll_open_documents, between queries: what the server knows of the
\* file is brought up to date again by the next one.
PumpLoses(e) ==
    /\ entry[e].client = "down" /\ ~Stopped(e) /\ entry[e].session = NoQuery
    /\ entry' = [entry EXCEPT ![e] = Published(Crashed(@))]
    /\ UNCHANGED <<settings, text, query, reset, user>>

ProcessEnds(e) ==
    /\ entry[e].client = "up"
    /\ entry' = [entry EXCEPT ![e].client = "down"]
    /\ UNCHANGED <<settings, text, query, reset, user>>

\* The panel, or another Jecode, saves other settings.
SaveSettings ==
    /\ user < MaxUser /\ user' = user + 1
    /\ settings' \in (Fingerprint \cup {Off}) \ {settings}
    /\ UNCHANGED <<text, entry, query, reset>>

\* configuration_changed, after a save, and shutdown.
RetireAll ==
    /\ Registered # {} /\ RegistryFree
    /\ user < MaxUser /\ user' = user + 1
    /\ entry' = [e \in Entry |-> IF e \in Registered THEN [entry[e] EXCEPT !.life = "removed"]
                                 ELSE entry[e]]
    /\ UNCHANGED <<settings, text, query, reset>>

\* reset_restart walks the registry under its lock and skips a busy instance.
BeginReset ==
    /\ RegistryFree /\ Registered # {}
    /\ user < MaxUser /\ user' = user + 1
    /\ reset' = TRUE
    /\ UNCHANGED <<settings, text, entry, query>>

Resets_Waits ==
    /\ \A e \in Registered : entry[e].session = NoQuery
    /\ entry' = [e \in Entry |->
                   IF e \in Registered
                   THEN Published([entry[e] EXCEPT !.failures = 0, !.crashes = 0])
                   ELSE entry[e]]
Resets ==
    entry' \in {[e \in Entry |->
                   IF e \in Registered /\ entry[e].session = NoQuery
                   THEN Published([entry[e] EXCEPT !.failures = 0, !.crashes = 0])
                   ELSE entry[e]]}

Reset ==
    /\ reset /\ reset' = FALSE
    /\ Resets
    /\ UNCHANGED <<settings, text, query, user>>

-----------------------------------------------------------------------------
(* The file changes: by another program, or by a tool that announces it. *)

Changes ==
    /\ text' \in Text \ {text}
    /\ UNCHANGED <<settings, entry, query, reset, user>>

\* invalidate_paths: a tool changed this file or others; that counts for every
\* registered instance.
Invalidate ==
    /\ RegistryFree
    /\ query' = [q \in Query |->
                    [query[q] EXCEPT !.dirty = @ \/ (query[q].on \in Registered /\ Unjudged(q))]]
    /\ query' # query
    /\ UNCHANGED <<settings, text, entry, reset, user>>

-----------------------------------------------------------------------------
QueryStep(q) ==
    \/ Enter(q) \/ Acquire(q) \/ LeaveQueue(q) \/ RefuseStart(q) \/ Start(q) \/ StartFails(q)
    \/ Ask(q) \/ AskFails(q) \/ Loses(q) \/ Answer(q)
    \/ FinalPoll(q) \/ Check(q) \/ Confirm(q) \/ RetireOwn(q) \/ Release(q) \/ Return(q)

Stops(e) == Stop(e) \/ Shutdown(e) \/ Forget(e)

ServerNext ==
    \/ \E q \in Query : Load(q) \/ QueryStep(q)
    \/ \E e \in Entry : Stops(e) \/ PumpRetires(e) \/ PumpLoses(e) \/ ProcessEnds(e)
    \/ SaveSettings \/ RetireAll \/ BeginReset \/ Reset
    \/ Changes \/ Invalidate

\* A query that was made runs on: its waits have deadlines, so LeaveQueue and
\* AskFails are steps like any other.  Threads that stop an instance, the pumps
\* and the panel run on.
ServerFairness ==
    /\ \A q \in Query : WF_serverVars(QueryStep(q))
    /\ \A e \in Entry : WF_serverVars(Stops(e)) /\ SF_serverVars(PumpRetires(e))
    /\ WF_serverVars(Reset)

ServerSpec == ServerInit /\ [][ServerNext]_serverVars /\ ServerFairness

-----------------------------------------------------------------------------
(* Properties. *)

\* An answer said to be synchronized is about what the file contains when it is
\* checked for the last time, whoever changed it since the question was sent,
\* and however often the server's copy was brought up to date meanwhile.
NeverStale ==
    [][\A q \in Query :
         query[q].at = "check" /\ query'[q].at = "enabled" /\ query'[q].freshness = "synchronized"
            => query[q].answer = text]_serverVars

\* While no query counts on an instance, what observers read of it is its
\* condition: a status that is not "busy" is never older than a finished query.
IdleIsPublished ==
    \A e \in Entry : (\A q \in Query : query[q].on # e) => entry[e].observed = ConditionOf(entry[e])

\* A server that crashes again and again is left down: after so many crashes
\* without a completed query it is not started before the user allows it.
CrashLoopEnds == \A e \in Entry : entry[e].crashes <= MaxFailures

\* An instance is what it is said to be, and not started for ever.
InstancesAreTrue == IdleIsPublished /\ CrashLoopEnds

\* Every query returns, although it takes the registry's lock while it holds the
\* session and others take them the other way round.
QueriesReturn == \A q \in Query : query[q].at # "idle" ~> query[q].at = "idle"

\* A server does not run on under settings that are gone, even if nobody asks.
RetiredSoon ==
    \A e \in Entry :
       entry[e].client # "none" /\ entry[e].fingerprint # settings
          ~> entry[e].client = "none" \/ entry[e].fingerprint = settings
=============================================================================
