---------------------------- MODULE McpConnections ----------------------------
(***************************************************************************)
(* A connection to a remote MCP server (src/mcp): its record in mcp.json,  *)
(* which every process changes under one file lock and lists without it;   *)
(* the calls of one process, which share negotiated clients through        *)
(* Runtime; and forms, in any process, that edit the record or sign in.    *)
(*                                                                         *)
(* Tokens are the numbers of the authorization server's answers, with the  *)
(* OAuth client they were issued to.  A record has tokens when its method  *)
(* is a browser sign-in and none otherwise: the forms keep it so.  One     *)
(* permission stands for all scopes.  Left out: new connections (a new     *)
(* identity), GitHub's device sign-in, the remaining fields of a record.   *)
(***************************************************************************)
EXTENDS Naturals, FiniteSets

CONSTANTS
    RemoteCall,    \* calls of tools, each made once
    Form,          \* drafts of the connection in some panel
    Client,        \* Client objects of the runtime
    Noone,         \* holds no lock
    NoClient,
    Endpoint,
    Registration,  \* OAuth clients
    MaxGrants,     \* bound: answers of the authorization server
    MaxEdits,      \* bound: changes a user makes to the record
    Bounds         \* how many calls, forms, answers and changes there are

ASSUME McpAssumption ==
    /\ Noone \notin RemoteCall \cup Form /\ NoClient \notin Client
    /\ RemoteCall \cap Form = {} /\ Endpoint # {} /\ 0 \notin Registration
    \* A call that needs a client finds one that is not in use.
    /\ IsFiniteSet(RemoteCall) /\ IsFiniteSet(Client)
    /\ Cardinality(Client) > Cardinality(RemoteCall)
    /\ MaxGrants \in Nat \ {0} /\ MaxEdits \in Nat
    /\ Bounds \subseteq [calls : Nat, forms : Nat, grants : 0..MaxGrants - 1, edits : 0..MaxEdits]

VARIABLES
    stored,    \* the record in mcp.json
    keeper,    \* who holds mcp.lock while it renews tokens
    document,  \* what it read
    current,   \* Runtime.clients
    client,    \* what each client was made for, and its mode
    remote,    \* the calls
    form,      \* the forms
    counts,
    history    \* permissions asked for and not requested yet; tokens replaced

mcpVars == <<stored, keeper, document, current, client, remote, form, counts, history>>

Tokens == [gen : 0..MaxGrants, issued : Registration \cup {0}]
Connection ==
    [there : BOOLEAN, endpoint : Endpoint, enabled : BOOLEAN, tokens : Tokens, pending : BOOLEAN]
NoTokens == [gen |-> 0, issued |-> 0]
Absent == [there |-> FALSE, endpoint |-> CHOOSE e \in Endpoint : TRUE, enabled |-> FALSE,
           tokens |-> NoTokens, pending |-> FALSE]

McpTypeOK ==
    /\ stored \in Connection /\ document \in Connection
    /\ keeper \in RemoteCall \cup Form \cup {Noone}
    /\ current \in [conn : Connection, client : Client \cup {NoClient}]
    /\ client \in [Client -> [conn : Connection, mode : {"none", "modern", "legacy"}]]
    /\ remote \in [RemoteCall ->
         [at : {"new", "listed", "queued", "acquired", "renewing", "fresh", "bound",
                "expired", "again", "challenged", "done"},
          conn : Connection, client : Client \cup {NoClient}, ran : 0..2,
          outcome : {"none", "completed", "failed", "not_executed", "unknown"}]]
    /\ form \in [Form ->
         [at : {"unused", "closed", "editing", "signing", "checking", "renewing", "checked"},
          draft : Connection, original : Connection, prepared : Connection, guard : Connection]]
    /\ counts \in [grants : 0..MaxGrants, edits : 0..MaxEdits]
    /\ history \in [needed : BOOLEAN, replaced : SUBSET (1..MaxGrants)]

Unmade == [conn |-> Absent, mode |-> "none"]
NewCall == [at |-> "new", conn |-> Absent, client |-> NoClient, ran |-> 0,
            outcome |-> "none"]
ClosedForm == [at |-> "closed", draft |-> Absent, original |-> Absent, prepared |-> Absent,
               guard |-> Absent]

\* Before: somebody signed in.
McpInit ==
    /\ \E i \in Registration :
          stored = [Absent EXCEPT !.there = TRUE, !.enabled = TRUE,
                                  !.tokens = [gen |-> 1, issued |-> i]]
    /\ keeper = Noone /\ document = Absent
    /\ current = [conn |-> Absent, client |-> NoClient]
    /\ client = [k \in Client |-> Unmade]
    /\ \E b \in Bounds, calls \in SUBSET RemoteCall, forms \in SUBSET Form :
          /\ Cardinality(calls) = b.calls /\ Cardinality(forms) = b.forms
          /\ remote = [c \in RemoteCall |->
                         IF c \in calls THEN NewCall ELSE [NewCall EXCEPT !.at = "done"]]
          /\ form = [f \in Form |->
                       IF f \in forms THEN ClosedForm ELSE [ClosedForm EXCEPT !.at = "unused"]]
          /\ counts = [grants |-> MaxGrants - b.grants, edits |-> MaxEdits - b.edits]
    /\ history = [needed |-> FALSE, replaced |-> {}]

-----------------------------------------------------------------------------
(* Comparisons of records. *)

HasTokens(r) == r.tokens.gen # 0
\* runtime.rs: a pending permission does not end the server's session.
same_session(a, b) == [a EXCEPT !.pending = b.pending] = b
same_target(a, b) == [a EXCEPT !.pending = b.pending, !.tokens = b.tokens] = b
\* Renewed tokens were issued to the same client.
same_binding(a, b) == a.tokens.issued = b.tokens.issued
same_source(a, b) == same_target(a, b) /\ same_binding(a, b)

-----------------------------------------------------------------------------
(* mcp.json and its lock. *)

StoreFree == keeper = Noone

\* The record is replaced, as a whole.
Becomes(r) ==
    /\ stored' = r
    /\ history' =
         [needed |-> history.needed /\ r.there /\ HasTokens(r) /\ r.endpoint = stored.endpoint,
          replaced |-> IF HasTokens(stored) /\ r.tokens # stored.tokens
                       THEN history.replaced \cup {stored.tokens.gen} ELSE history.replaced]

EditAllowed == counts.edits < MaxEdits
Edited == counts' = [counts EXCEPT !.edits = @ + 1]

Removes ==
    /\ StoreFree /\ stored.there /\ EditAllowed
    /\ Becomes(Absent) /\ Edited
    /\ UNCHANGED <<keeper, document, current, client, remote, form>>

SetsEnabled ==
    /\ StoreFree /\ stored.there /\ EditAllowed
    /\ Becomes([stored EXCEPT !.enabled = ~@]) /\ Edited
    /\ UNCHANGED <<keeper, document, current, client, remote, form>>

\* fresh, as its callers see it: an error, the record, or a renewal, for which
\* the lock is held.
Fails == ~stored.there \/ ~stored.enabled
Expires == HasTokens(stored) /\ counts.grants < MaxGrants

\* A guard that is bound to _ is dropped at once.
KeepsStore_Unbound(w) == document' = stored /\ UNCHANGED keeper
KeepsStore(w) == keeper' = w /\ document' = stored

GivesStore(w) == /\ keeper' = IF keeper = w THEN Noone ELSE keeper
                 /\ document' = Absent

\* The whole document that was read is written, with the new tokens in it.
Renewal ==
    [document EXCEPT !.tokens = [gen |-> counts.grants + 1, issued |-> document.tokens.issued]]
Renews(w) ==
    /\ Becomes(Renewal) /\ GivesStore(w)
    /\ counts' = [counts EXCEPT !.grants = @ + 1]

-----------------------------------------------------------------------------
(* A call: bridge.rs, run. *)

\* Clients nobody refers to are gone.
Referred(e, calls) == {e.client} \cup {calls[c].client : c \in RemoteCall}
ClientsLeft(cl, e, calls) == [k \in Client |-> IF k \in Referred(e, calls) THEN cl[k] ELSE Unmade]
Unreferred == CHOOSE k \in Client : k \notin Referred(current, remote)

\* Where a call holds its client's lock.
Holding == {"acquired", "renewing", "fresh", "bound", "expired", "again", "challenged"}
ClientFree(k) == \A c \in RemoteCall : remote[c].client = k => remote[c].at \notin Holding

Moves(c, place) == remote' = [remote EXCEPT ![c].at = place]
Ended(c, outcome) ==
    [remote EXCEPT ![c] = [NewCall EXCEPT !.at = "done", !.outcome = outcome,
                                          !.ran = remote[c].ran]]
\* The call returns; its client goes on as made.
Ends(c, made, outcome) ==
    /\ remote' = Ended(c, outcome)
    /\ client' = ClientsLeft(made, current, Ended(c, outcome))

\* list, and prune of what the list no longer has.
Lists(c) ==
    LET stale == current.client # NoClient
                 /\ (~stored.there \/ ~stored.enabled \/ ~same_session(stored, current.conn))
        e == IF stale THEN [conn |-> Absent, client |-> NoClient] ELSE current
        calls == IF Fails
                 THEN Ended(c, "failed")
                 ELSE [remote EXCEPT ![c].at = "listed", ![c].conn = stored]
    IN /\ remote[c].at = "new"
       /\ current' = e /\ remote' = calls /\ client' = ClientsLeft(client, e, calls)
       /\ UNCHANGED <<stored, keeper, document, form, counts, history>>

\* Runtime::client
Shares(c) ==
    LET saved == remote[c].conn
        shared == current.client # NoClient /\ same_session(current.conn, saved)
        k == IF shared THEN current.client ELSE Unreferred
        e == IF shared THEN current ELSE [conn |-> saved, client |-> k]
        calls == [remote EXCEPT ![c].at = "queued", ![c].client = k]
    IN /\ remote[c].at = "listed"
       /\ current' = e /\ remote' = calls
       /\ client' = ClientsLeft(IF shared THEN client
                                ELSE [client EXCEPT ![k] = [conn |-> saved, mode |-> "none"]],
                                e, calls)
       /\ UNCHANGED <<stored, keeper, document, form, counts, history>>

Acquires(c) ==
    /\ remote[c].at = "queued" /\ ClientFree(remote[c].client)
    /\ Moves(c, "acquired")
    /\ UNCHANGED <<stored, keeper, document, current, client, form, counts, history>>

\* The client is made anew after an error of its own.
Anew(c) == [client EXCEPT ![remote[c].client] = [conn |-> remote[c].conn, mode |-> "none"]]

\* A cancellation before anything is sent, or while mcp.lock is waited for.
CancelledUnsent(c) ==
    /\ \/ remote[c].at \in {"listed", "queued", "acquired", "fresh", "bound"}
          /\ Ends(c, client, "not_executed")
       \/ remote[c].at \in {"bound", "expired", "again"} /\ Ends(c, Anew(c), "not_executed")
    /\ UNCHANGED <<stored, keeper, document, current, form, counts, history>>

\* The answer of fresh: the record must still be what the call was made for.
GoesOn(c, r) ==
    \/ /\ same_target(remote[c].conn, r)
       /\ remote' = [remote EXCEPT ![c].at = "fresh", ![c].conn = r] /\ UNCHANGED client
    \/ ~same_target(remote[c].conn, r) /\ Ends(c, client, "failed")

FreshForCall(c) ==
    /\ remote[c].at = "acquired" /\ StoreFree
    /\ \/ Fails /\ Ends(c, client, "failed") /\ UNCHANGED <<keeper, document>>
       \/ ~Fails /\ GoesOn(c, stored) /\ UNCHANGED <<keeper, document>>
       \/ ~Fails /\ Expires /\ KeepsStore(c) /\ Moves(c, "renewing") /\ UNCHANGED client
    /\ UNCHANGED <<stored, current, form, counts, history>>

RenewsForCall(c) ==
    /\ remote[c].at = "renewing" /\ counts.grants < MaxGrants
    /\ Renews(c) /\ GoesOn(c, Renewal)
    /\ UNCHANGED <<current, form>>

RenewalFailsForCall(c) ==
    /\ remote[c].at = "renewing"
    /\ \E outcome \in {"failed", "not_executed"} : Ends(c, client, outcome)
    /\ GivesStore(c)
    /\ UNCHANGED <<stored, current, form, counts, history>>

\* Runtime::bind: a client made for another record is replaced.
Rebinds_Shared(k, r) == current.client # k
Rebinds(k, r) == current.client # k \/ ~same_session(current.conn, r)
Binds(c) ==
    LET k == remote[c].client
    IN /\ remote[c].at = "fresh"
       /\ client' = IF Rebinds(k, remote[c].conn) THEN Anew(c) ELSE client
       /\ current' = [current EXCEPT !.conn = IF current.client = k THEN remote[c].conn ELSE @]
       /\ Moves(c, "bound")
       /\ UNCHANGED <<stored, keeper, document, form, counts, history>>

\* discover or initialize, and the catalog; nothing of the call is sent yet.
Connects(c) ==
    LET k == remote[c].client
    IN /\ remote[c].at = "bound" /\ client[k].mode = "none"
       /\ \E m \in {"modern", "legacy"} : client' = [client EXCEPT ![k].mode = m]
       /\ UNCHANGED <<stored, keeper, document, current, remote, form, counts, history>>

ConnectionFails(c) ==
    /\ \/ remote[c].at = "bound" /\ client[remote[c].client].mode # "legacy"
       \/ remote[c].at = "expired"
    /\ Ends(c, Anew(c), "failed")
    /\ UNCHANGED <<stored, keeper, document, current, form, counts, history>>

\* What becomes of the request: refused stands for JSON-RPC errors and 4xx,
\* missing for 404, broken for 5xx, cut for a cancellation.
Fate == {"result", "challenge", "refused", "missing", "broken", "lost", "cut"}
MayHaveRun(fate) == fate \in {"result", "broken", "lost", "cut"}

Told_Cut(fate) ==
    CASE fate = "result" -> "completed" [] fate = "cut" -> "not_executed"
      [] fate \in {"broken", "lost"} -> "unknown" [] OTHER -> "failed"
Told(fate) ==
    CASE fate = "result" -> "completed"
      [] fate \in {"broken", "lost", "cut"} -> "unknown" [] OTHER -> "failed"

session_expired_any(k, fate) == fate \in {"missing", "broken"} /\ client[k].mode = "legacy"
session_expired(k, fate) == fate = "missing" /\ client[k].mode = "legacy"

Calls(c) ==
    LET k == remote[c].client
    IN /\ remote[c].at \in {"bound", "again"} /\ client[k].mode # "none"
       /\ \E fate \in Fate :
          \E ran \in (IF fate = "result" THEN {1} ELSE IF MayHaveRun(fate) THEN {0, 1} ELSE {0}) :
             LET now == [remote EXCEPT ![c].ran = @ + ran]
                 done == [remote EXCEPT ![c] = [NewCall EXCEPT !.at = "done", !.ran = now[c].ran,
                                                               !.outcome = Told(fate)]]
                 anew == IF fate = "result" THEN client ELSE Anew(c)
             IN CASE remote[c].at = "bound" /\ session_expired(k, fate) ->
                       remote' = [now EXCEPT ![c].at = "expired"] /\ UNCHANGED client
                  [] fate = "challenge" /\ HasTokens(remote[c].conn) ->
                       remote' = [now EXCEPT ![c].at = "challenged"] /\ UNCHANGED client
                  [] OTHER ->
                       /\ remote' = done
                       /\ client' = ClientsLeft(anew, current, done)
       /\ UNCHANGED <<stored, keeper, document, current, form, counts, history>>

\* renew: the legacy session is negotiated again.
RenewsSession(c) ==
    /\ remote[c].at = "expired"
    /\ Moves(c, "again")
    /\ UNCHANGED <<stored, keeper, document, current, client, form, counts, history>>

\* require_scope, for the exact tokens that were challenged; it may fail.
RemembersScope(c) ==
    /\ remote[c].at = "challenged"
    /\ \/ /\ StoreFree /\ same_session(remote[c].conn, stored)
          /\ stored' = [stored EXCEPT !.pending = TRUE]
          /\ history' = [history EXCEPT !.needed = TRUE]
       \/ UNCHANGED <<stored, history>>
    /\ Ends(c, Anew(c), "failed")
    /\ UNCHANGED <<keeper, document, current, form, counts>>

-----------------------------------------------------------------------------
(* Forms: tui/mcp, and their jobs. *)

FormMoves(f, place) == form' = [form EXCEPT ![f].at = place]
At(f, place) == form[f].at = place

Opens(f) ==
    /\ At(f, "closed") /\ stored.there /\ EditAllowed
    /\ form' = [form EXCEPT ![f] = [ClosedForm EXCEPT !.at = "editing", !.draft = stored,
                                                      !.original = stored]]
    /\ UNCHANGED <<stored, keeper, document, current, client, remote, counts, history>>

\* Another server: its sign-in and permissions are not those of the old one.
ChangesEndpoint(f) ==
    /\ At(f, "editing")
    /\ \E e \in Endpoint \ {form[f].draft.endpoint} :
          form' = [form EXCEPT ![f].draft = [@ EXCEPT !.endpoint = e, !.tokens = NoTokens,
                                                      !.pending = FALSE],
                               ![f].guard = Absent]
    /\ UNCHANGED <<stored, keeper, document, current, client, remote, counts, history>>

ChoosesToken(f) ==
    /\ At(f, "editing") /\ HasTokens(form[f].draft)
    /\ form' = [form EXCEPT ![f].draft.tokens = NoTokens, ![f].guard = Absent]
    /\ UNCHANGED <<stored, keeper, document, current, client, remote, counts, history>>

\* The tokens of a sign-in stay in the draft, its guard does not: another OAuth
\* client is entered, or another sign-in started that fails at once.
DropsGuard(f) ==
    /\ At(f, "editing") /\ form[f].guard.there
    /\ form' = [form EXCEPT ![f].guard = Absent]
    /\ UNCHANGED <<stored, keeper, document, current, client, remote, counts, history>>

\* prepare_sign_in
Prepares(f) ==
    LET d == form[f].draft  o == form[f].original
        prepared == IF d.endpoint = stored.endpoint
                    THEN [d EXCEPT !.pending = stored.pending,
                                   !.tokens = IF @ = o.tokens THEN stored.tokens ELSE @]
                    ELSE d
    IN /\ At(f, "editing") /\ StoreFree
       /\ stored.there /\ same_source(o, stored)
       /\ form' = [form EXCEPT ![f].at = "signing", ![f].prepared = prepared, ![f].guard = stored]
       /\ UNCHANGED <<stored, keeper, document, current, client, remote, counts, history>>

\* The browser: the pending permissions are asked for.
Authorizes(f) ==
    /\ At(f, "signing") /\ counts.grants < MaxGrants
    /\ \E i \in Registration :
          form' = [form EXCEPT ![f].at = "editing",
                               ![f].draft = [form[f].prepared EXCEPT
                                  !.tokens = [gen |-> counts.grants + 1, issued |-> i],
                                  !.pending = FALSE]]
    /\ counts' = [counts EXCEPT !.grants = @ + 1]
    /\ UNCHANGED <<stored, keeper, document, current, client, remote, history>>

SignInFails(f) ==
    /\ At(f, "signing")
    /\ form' = [form EXCEPT ![f].at = "editing", ![f].prepared = Absent, ![f].guard = Absent]
    /\ UNCHANGED <<stored, keeper, document, current, client, remote, counts, history>>

\* Job::save: whether the tokens were loaded with the record.
LoadedTokens(f) ==
    /\ ~form[f].guard.there /\ HasTokens(form[f].original)
    /\ form[f].original.tokens = form[f].draft.tokens

StartsSave(f) ==
    /\ At(f, "editing")
    /\ FormMoves(f, IF LoadedTokens(f) /\ form[f].draft.enabled THEN "checking" ELSE "checked")
    /\ UNCHANGED <<stored, keeper, document, current, client, remote, counts, history>>

FreshForForm(f) ==
    /\ At(f, "checking") /\ StoreFree
    /\ \/ Fails /\ FormMoves(f, "editing") /\ UNCHANGED <<keeper, document>>
       \/ ~Fails /\ FormMoves(f, "checked") /\ UNCHANGED <<keeper, document>>
       \/ ~Fails /\ Expires /\ KeepsStore(f) /\ FormMoves(f, "renewing")
    /\ UNCHANGED <<stored, current, client, remote, counts, history>>

RenewsForForm(f) ==
    /\ At(f, "renewing") /\ counts.grants < MaxGrants
    /\ Renews(f) /\ FormMoves(f, "checked")
    /\ UNCHANGED <<current, client, remote>>

RenewalFailsForForm(f) ==
    /\ At(f, "renewing") /\ GivesStore(f) /\ FormMoves(f, "editing")
    /\ UNCHANGED <<stored, current, client, remote, counts, history>>

\* The catalog cannot be loaded, or the store refuses what is saved.
SaveFails(f) ==
    /\ form[f].at \in {"checking", "checked"}
    /\ FormMoves(f, "editing")
    /\ UNCHANGED <<stored, keeper, document, current, client, remote, counts, history>>

Closes(f) == form' = [form EXCEPT ![f] = ClosedForm]
Committing(f) == At(f, "checked") /\ StoreFree /\ EditAllowed

\* commit_sign_in: what was asked for is no longer pending, what was not is.
unconsumed_scope_none(asked, now) == FALSE
unconsumed_scope(asked, now) == now /\ ~asked
CommitsSignIn(f) ==
    LET d == form[f].draft  g == form[f].guard
        same == d.endpoint = g.endpoint
        next == [d EXCEPT !.pending = same /\ unconsumed_scope(g.pending, stored.pending)]
    IN /\ Committing(f) /\ g.there
       /\ stored.there /\ same_source(g, stored)
       /\ stored' = next
       /\ history' = [needed |-> history.needed /\ same /\ ~form[f].prepared.pending,
                      replaced |-> history.replaced
                                     \cup (IF HasTokens(stored) THEN {stored.tokens.gen} ELSE {})]
       /\ Closes(f) /\ Edited
       /\ UNCHANGED <<keeper, document, current, client, remote>>

\* save_edit: the stored tokens of the same sign-in stay, and what is pending.
EditOf_Old(d) == [d EXCEPT !.pending = stored.pending]
EditOf_Unasked(d) == [d EXCEPT !.tokens = stored.tokens]
EditOf(d) == [d EXCEPT !.tokens = stored.tokens, !.pending = stored.pending]
SavesEdit(f) ==
    LET d == form[f].draft
    IN /\ Committing(f) /\ LoadedTokens(f)
       /\ stored.there /\ HasTokens(stored)
       /\ d.endpoint = stored.endpoint /\ same_binding(d, stored)
       /\ Becomes(EditOf(d))
       /\ Closes(f) /\ Edited
       /\ UNCHANGED <<keeper, document, current, client, remote>>

\* save: the record becomes the draft, whatever it was, and exists again.
SavesDraft(f) ==
    LET d == form[f].draft
    IN /\ Committing(f) /\ ~form[f].guard.there /\ ~LoadedTokens(f)
       /\ stored' = d
       /\ history' = [needed |-> FALSE,
                      replaced |-> history.replaced
                                     \cup (IF HasTokens(stored) THEN {stored.tokens.gen} ELSE {})]
       /\ Closes(f) /\ Edited
       /\ UNCHANGED <<keeper, document, current, client, remote>>

Abandons(f) ==
    /\ At(f, "editing") /\ Closes(f)
    /\ UNCHANGED <<stored, keeper, document, current, client, remote, counts, history>>

-----------------------------------------------------------------------------
CallStep(c) ==
    \/ Lists(c) \/ Shares(c) \/ Acquires(c) \/ CancelledUnsent(c) \/ FreshForCall(c)
    \/ RenewsForCall(c) \/ RenewalFailsForCall(c) \/ Binds(c) \/ Connects(c)
    \/ ConnectionFails(c) \/ Calls(c) \/ RenewsSession(c) \/ RemembersScope(c)

FormStep(f) ==
    \/ Opens(f) \/ ChangesEndpoint(f) \/ ChoosesToken(f) \/ DropsGuard(f) \/ Prepares(f)
    \/ Authorizes(f) \/ SignInFails(f) \/ StartsSave(f) \/ FreshForForm(f) \/ RenewsForForm(f)
    \/ RenewalFailsForForm(f) \/ SaveFails(f) \/ CommitsSignIn(f) \/ SavesEdit(f)
    \/ SavesDraft(f) \/ Abandons(f)

McpNext ==
    \/ \E c \in RemoteCall : CallStep(c)
    \/ \E f \in Form : FormStep(f)
    \/ Removes \/ SetsEnabled

McpSpec == McpInit /\ [][McpNext]_mcpVars

-----------------------------------------------------------------------------
(* Properties. *)

\* What a call was challenged for stays pending until a sign-in that asked for
\* it is saved: no renewal, edit or sign-in that overlaps the challenge drops
\* it.  And tokens that were replaced never come back to the file, as an edit
\* that was opened before a renewal could bring them.  Excepted is what the
\* user drops: the connection, its endpoint, its sign-in, and a draft that is
\* saved without its guard (store.rs).
GrantsAreKept ==
    /\ history.needed => stored.pending
    /\ stored.tokens.gen \notin history.replaced

\* A call runs at most once, although it is sent again when its session is
\* gone; it is said not to have run only when it did not; and what is sent is
\* sent by a client that was made for the record the call found on file, not by
\* one an earlier call or another queue member left behind (bridge.rs,
\* runtime.rs, client.rs).
CallsAreTrue ==
    \A c \in RemoteCall :
       /\ remote[c].ran <= 1
       /\ remote[c].outcome \in {"failed", "not_executed"} => remote[c].ran = 0
       /\ remote[c].outcome = "completed" => remote[c].ran = 1
       /\ remote[c].at \in {"bound", "expired", "again"} =>
             same_session(client[remote[c].client].conn, remote[c].conn)
=============================================================================
