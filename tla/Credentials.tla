----------------------------- MODULE Credentials -----------------------------
(***************************************************************************)
(* The saved account of a subscription (src/auth/openai): several          *)
(* processes use one record file under one lock file.  The refresh token   *)
(* in it works once: the server replaces it by the next one, and whoever   *)
(* sends it again is refused.  A process answers from memory while the     *)
(* record's file is unchanged and the token is not near its expiry.        *)
(*                                                                         *)
(* Tokens are the numbers of the server's answers.  The stamp of the       *)
(* record's file is abstracted to whether it still is the one remembered:  *)
(* save_record replaces the file by a new one, so every save changes it.   *)
(* Time is abstracted to what the comparisons tell apart.  Left out:       *)
(* several accounts, host identities, and what the browser shows.          *)
(***************************************************************************)
EXTENDS Naturals

CONSTANTS
    Asker,         \* workers that need a token
    Owner,         \* interfaces, where the user signs in and out
    Session,       \* the processes' sessions on it, each with its cache
    SessionOf,
    NoCaller,
    MaxTokens      \* bound: answers of the server

ASSUME CredentialsAssumption ==
    /\ SessionOf \in [Asker \cup Owner -> Session]
    /\ NoCaller \notin Asker \cup Owner
    /\ MaxTokens \in Nat \ {0}

VARIABLES
    saved,     \* the record file
    active,    \* whether active.json names this account
    holder,    \* who holds the lock file
    cache,     \* TokenCache of each session
    user,      \* the callers
    server,    \* the refresh tokens it accepts, and how many answers it gave
    lost       \* history: refresh tokens replaced by an answer nobody saved

credentialVars == <<saved, active, holder, cache, user, server, lost>>

Caller == Asker \cup Owner
Token == 0..MaxTokens      \* 0 is none
AccountRecord ==
    [access : Token, refresh : Token, scoped : BOOLEAN,
     expiry : {"fresh", "near", "expired"}, early : BOOLEAN]
Cached == [token : Token, expiry : {"fresh", "near", "expired"}, unchanged : BOOLEAN]

\* A caller: its place in the code, and the record it works with.
User ==
    [at : {"idle", "missed", "locking", "sending", "answered", "refused", "ready", "given",
           "leaving", "removing", "deselecting", "revoking", "entering"},
     record : AccountRecord]

CredentialTypeOK ==
    /\ saved \in AccountRecord
    /\ active \in BOOLEAN
    /\ holder \in Caller \cup {NoCaller}
    /\ cache \in [Session -> Cached]
    /\ user \in [Caller -> User]
    /\ server \in [accepts : SUBSET Token, answers : Token]
    /\ lost \in SUBSET Token

SignedOut == [access |-> 0, refresh |-> 0, scoped |-> TRUE, expiry |-> "expired", early |-> FALSE]
NothingCached == [token |-> 0, expiry |-> "expired", unchanged |-> FALSE]
AtRest == [at |-> "idle", record |-> SignedOut]

enabled(r) == r.access # 0 /\ r.refresh # 0 /\ r.scoped

\* Before: the account was signed in once, and may use the plan.
CredentialInit ==
    /\ saved = [access |-> 1, refresh |-> 1, scoped |-> TRUE, expiry |-> "fresh", early |-> TRUE]
    /\ active = TRUE
    /\ holder = NoCaller
    /\ cache = [s \in Session |-> NothingCached]
    /\ user = [c \in Caller |-> AtRest]
    /\ server = [accepts |-> {1}, answers |-> 1]
    /\ lost = {}

-----------------------------------------------------------------------------
(* The server, and time. *)

\* An answer: its access token, and the refresh token that goes with it.
Answer(refresh, scoped) ==
    [access |-> server.answers + 1, refresh |-> refresh, scoped |-> scoped,
     expiry |-> "fresh", early |-> TRUE]

Older(expiry) == IF expiry = "fresh" THEN "near" ELSE "expired"

\* Every copy of a token comes closer to its expiry.
TokenAges(t) ==
    LET AgedRecord(r) == IF r.access = t THEN [r EXCEPT !.expiry = Older(@)] ELSE r
    IN /\ t # 0
       /\ saved' = AgedRecord(saved)
       /\ cache' = [s \in Session |-> IF cache[s].token = t
                                      THEN [cache[s] EXCEPT !.expiry = Older(@)] ELSE cache[s]]
       /\ user' = [c \in Caller |-> [at |-> user[c].at, record |-> AgedRecord(user[c].record)]]
       /\ UNCHANGED <<active, holder, server, lost>>

MayRefresh ==
    /\ saved.early
    /\ saved' = [saved EXCEPT !.early = FALSE]
    /\ UNCHANGED <<active, holder, cache, user, server, lost>>

-----------------------------------------------------------------------------
(* What the callers' actions are made of. *)

Keeps(c, place, r) == user' = [user EXCEPT ![c] = [at |-> place, record |-> r]]
Goes(c, place) == Keeps(c, place, user[c].record)
Leaves(c) == user' = [user EXCEPT ![c] = AtRest]

LockFree == holder = NoCaller
\* A guard that is bound to _ is dropped at once.
Takes_Unbound(c) == UNCHANGED holder
Takes(c) == holder' = c
Unlocked(c) == IF holder = c THEN NoCaller ELSE holder

\* save_record: a new file in the place of the old one.
ReplacesFile(r) ==
    /\ saved' = r
    /\ cache' = [s \in Session |-> [cache[s] EXCEPT !.unchanged = FALSE]]

\* What a caller still needs of the record.
ForUse(r) ==
    [access |-> r.access, refresh |-> 0, scoped |-> TRUE, expiry |-> r.expiry, early |-> FALSE]
ForServer(r) == [SignedOut EXCEPT !.refresh = r.refresh]

\* A refresh token that was sent and whose answer does not reach the file.
LostNow == IF saved.refresh \in server.accepts \cup {0} THEN {} ELSE {saved.refresh}

\* cached_token
Usable_Unseen(k) == k.token # 0 /\ k.expiry = "fresh"
Usable(k) == k.token # 0 /\ k.expiry = "fresh" /\ k.unchanged

-----------------------------------------------------------------------------
(* access_token *)

CachedToken(c) ==
    LET k == cache[SessionOf[c]] IN
    /\ user[c].at = "idle"
    /\ IF Usable(k)
       THEN Keeps(c, "given", [SignedOut EXCEPT !.access = k.token])
       ELSE Goes(c, "missed")
    /\ UNCHANGED <<saved, active, holder, cache, server, lost>>

ForgetToken(c) ==
    /\ user[c].at = "missed"
    /\ cache' = [cache EXCEPT ![SessionOf[c]] = NothingCached]
    /\ Goes(c, "locking")
    /\ UNCHANGED <<saved, active, holder, server, lost>>

\* The record as the lock's new holder finds it.
StoredToken(c) ==
    /\ user[c].at = "locking" /\ LockFree
    /\ \/ /\ ~enabled(saved) \/ (saved.expiry = "expired" /\ saved.early)
          /\ Leaves(c) /\ UNCHANGED holder
       \/ /\ enabled(saved) /\ (saved.expiry = "fresh" \/ (saved.expiry = "near" /\ saved.early))
          /\ Keeps(c, "ready", ForUse(saved)) /\ Takes(c)
       \/ /\ enabled(saved) /\ saved.expiry # "fresh" /\ ~saved.early
          /\ Keeps(c, "sending", ForServer(saved)) /\ Takes(c)
    /\ UNCHANGED <<saved, active, cache, server, lost>>

\* The server replaces the refresh token, or leaves it; the plan's scope may
\* be missing from the answer.
Renewed(c) ==
    LET t == user[c].record.refresh IN
    /\ user[c].at = "sending"
    /\ t \in server.accepts /\ server.answers < MaxTokens
    /\ \E next \in {t, server.answers + 1}, scoped \in BOOLEAN :
          /\ Keeps(c, "answered", Answer(next, scoped))
          /\ server' = [accepts |-> (server.accepts \ {t}) \cup {next},
                        answers |-> server.answers + 1]
    /\ UNCHANGED <<saved, active, holder, cache, lost>>

\* refresh_token_reused, invalid_grant
RenewalRefused(c) ==
    /\ user[c].at = "sending"
    /\ user[c].record.refresh \notin server.accepts
    /\ Goes(c, "refused")
    /\ UNCHANGED <<saved, active, holder, cache, server, lost>>

\* A cancellation, a timeout, an unreadable answer, or a save that fails
\* before it replaces the file.
GivesUp(c) ==
    /\ user[c].at \in {"sending", "answered", "refused"}
    /\ lost' = lost \cup LostNow
    /\ Leaves(c) /\ holder' = Unlocked(c)
    /\ UNCHANGED <<saved, active, cache, server>>

Saves_Scoped(r) == r.scoped
Saves(r) == TRUE

SaveRefreshed(c) ==
    LET r == user[c].record IN
    /\ user[c].at = "answered"
    /\ IF Saves(r) THEN ReplacesFile(r) ELSE UNCHANGED <<saved, cache>>
    /\ \/ enabled(r) /\ Keeps(c, "ready", ForUse(r)) /\ UNCHANGED holder
       \* The plan's grant is gone, or the save fails after the file changed.
       \/ Leaves(c) /\ holder' = Unlocked(c)
    /\ UNCHANGED <<active, server, lost>>

ClearRefused(c) ==
    /\ user[c].at = "refused"
    /\ ReplacesFile([SignedOut EXCEPT !.scoped = saved.scoped])
    /\ Leaves(c) /\ holder' = Unlocked(c)
    /\ UNCHANGED <<active, server, lost>>

\* remember_token: the stamp is taken before the lock is given back, and
\* nothing is remembered where it cannot be taken.
RememberToken(c) ==
    LET r == user[c].record IN
    /\ user[c].at = "ready"
    /\ \/ cache' = [cache EXCEPT ![SessionOf[c]] =
                       [token |-> r.access, expiry |-> r.expiry, unchanged |-> TRUE]]
       \/ cache' = [cache EXCEPT ![SessionOf[c]] = NothingCached]
    /\ Keeps(c, "given", [SignedOut EXCEPT !.access = r.access]) /\ holder' = Unlocked(c)
    /\ UNCHANGED <<saved, active, server, lost>>

UseToken(c) ==
    /\ user[c].at = "given"
    /\ Leaves(c)
    /\ UNCHANGED <<saved, active, holder, cache, server, lost>>
-----------------------------------------------------------------------------
(* sign_out: the lock is waited for whatever is cancelled. *)

BeginSignOut(c) ==
    /\ user[c].at = "idle"
    /\ Goes(c, "leaving")
    /\ UNCHANGED <<saved, active, holder, cache, server, lost>>

LockSignOut(c) ==
    /\ user[c].at = "leaving" /\ LockFree
    /\ Keeps(c, "removing", ForServer(saved)) /\ Takes(c)
    /\ UNCHANGED <<saved, active, cache, server, lost>>

RemoveTokens(c) ==
    /\ user[c].at = "removing"
    /\ ReplacesFile([SignedOut EXCEPT !.scoped = saved.scoped])
    /\ Goes(c, "deselecting")
    /\ UNCHANGED <<active, holder, server, lost>>

Deselect(c) ==
    /\ user[c].at = "deselecting"
    /\ active' = FALSE
    /\ cache' = [cache EXCEPT ![SessionOf[c]] = NothingCached]
    /\ Goes(c, "revoking") /\ holder' = Unlocked(c)
    /\ UNCHANGED <<saved, server, lost>>

\* Either file cannot be replaced, or was and could not be synced.
SignOutFails(c) ==
    /\ user[c].at \in {"removing", "deselecting"}
    /\ active' \in (IF user[c].at = "deselecting" THEN {active, FALSE} ELSE {active})
    /\ Leaves(c) /\ holder' = Unlocked(c)
    /\ UNCHANGED <<saved, cache, server, lost>>

\* revoke, of the token that was in the record; it may not get through.
Revoke(c) ==
    /\ user[c].at = "revoking"
    /\ \/ server' = [accepts |-> server.accepts \ {user[c].record.refresh},
                     answers |-> server.answers]
       \/ UNCHANGED server
    /\ Leaves(c)
    /\ UNCHANGED <<saved, active, holder, cache, lost>>

-----------------------------------------------------------------------------
(* sign_in and activate *)

\* The browser's part, without the lock.
SignIn(c) ==
    /\ user[c].at = "idle" /\ server.answers < MaxTokens
    /\ \E scoped \in BOOLEAN : Keeps(c, "entering", Answer(server.answers + 1, scoped))
    /\ server' = [accepts |-> server.accepts \cup {server.answers + 1},
                  answers |-> server.answers + 1]
    /\ UNCHANGED <<saved, active, holder, cache, lost>>

SaveSignIn(c) ==
    /\ user[c].at = "entering" /\ LockFree
    /\ ReplacesFile(user[c].record)
    /\ Leaves(c)
    /\ UNCHANGED <<active, holder, server, lost>>

\* A cancellation, or an error before anything is saved.
AccountStepFails(c) ==
    /\ user[c].at \in {"locking", "leaving", "entering"}
    /\ Leaves(c)
    /\ UNCHANGED <<saved, active, holder, cache, server, lost>>

Activate(c) ==
    /\ user[c].at = "idle" /\ LockFree /\ ~active
    /\ enabled(saved)
    /\ active' = TRUE
    /\ UNCHANGED <<saved, holder, cache, user, server, lost>>

-----------------------------------------------------------------------------
\* A process ends: its memory is gone and its lock is free.
ProcessDies(s) ==
    LET mine == {c \in Caller : SessionOf[c] = s} IN
    /\ lost' = IF holder \in mine THEN lost \cup LostNow ELSE lost
    /\ user' = [c \in Caller |-> IF c \in mine THEN AtRest ELSE user[c]]
    /\ cache' = [cache EXCEPT ![s] = NothingCached]
    /\ holder' = IF holder \in mine THEN NoCaller ELSE holder
    /\ UNCHANGED <<saved, active, server>>

AskerStep(c) ==
    \/ CachedToken(c) \/ ForgetToken(c) \/ StoredToken(c) \/ Renewed(c) \/ RenewalRefused(c)
    \/ GivesUp(c) \/ SaveRefreshed(c) \/ ClearRefused(c) \/ RememberToken(c) \/ UseToken(c)

OwnerStep(c) ==
    \/ BeginSignOut(c) \/ LockSignOut(c) \/ RemoveTokens(c) \/ Deselect(c) \/ SignOutFails(c)
    \/ Revoke(c) \/ SignIn(c) \/ SaveSignIn(c) \/ Activate(c)

CredentialNext ==
    \/ \E c \in Asker : AskerStep(c)
    \/ \E c \in Owner : OwnerStep(c)
    \/ \E c \in Caller : AccountStepFails(c)
    \/ \E t \in Token : TokenAges(t)
    \/ MayRefresh
    \/ \E s \in Session : ProcessDies(s)

CredentialSpec == CredentialInit /\ [][CredentialNext]_credentialVars

-----------------------------------------------------------------------------
(* Properties. *)

\* Whatever other processes do to the account meanwhile, a token that is given
\* out is the one on file at that moment: never one of an account that was
\* signed out, replaced or refreshed (access_token, cached_token).
GivenIsStored ==
    [][\A c \in Caller :
          user[c].at # "given" /\ user'[c].at = "given" => user'[c].record.access = saved.access
      ]_credentialVars

\* The server refuses a refresh token only where its answer to an earlier use
\* was lost: no two callers, of one process or of several, ever spend the same
\* one, and what a refresh was answered is on file before the lock is free
\* (stored_token).
RefusedOnlyIfLost ==
    \A c \in Caller : user[c].at = "refused" => user[c].record.refresh \in lost
=============================================================================
