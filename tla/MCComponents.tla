----------------------------- MODULE MCComponents -----------------------------
(***************************************************************************)
(* Four components that share no state.  This run checks each by itself:   *)
(* part says which one moves, and the others stay in an initial state.     *)
(***************************************************************************)
EXTENDS Checkpoints, Pressure, Questions, Credentials, TLC

CONSTANTS
    r1, r2, e1,   \* two restores and a file tool
    m1, m2,       \* two processes
    x, y,         \* texts
    c1, c2, c3,   \* claims
    v1, v2,       \* two archives on a volume
    a, b,         \* identities of calls
    k1, k2, k3,   \* two workers and an interface that use an account
    s1, s2        \* their sessions on it

MCProcessOf == (r1 :> m1) @@ (e1 :> m1) @@ (r2 :> m2)
MCLive == {<<x, "absent">>}
MCSaved == {<<y, "open">>, <<NoState, y>>}
MCArchiveOf == (c1 :> v1) @@ (c2 :> v1) @@ (c3 :> v2)
MCRounds == {<<a>>, <<a, b>>}

MCSessionOf == (k1 :> s1) @@ (k2 :> s1) @@ (k3 :> s2)

\* The two workers are alike.
MCSymmetry == Permutations({k1, k2})

VARIABLE part
vars == <<checkpointVars, pressureVars, questionVars, credentialVars, part>>

ComponentsTypeOK ==
    CheckpointTypeOK /\ PressureTypeOK /\ QuestionTypeOK /\ CredentialTypeOK

Init ==
    /\ CheckpointInit /\ PressureInit /\ QuestionInit /\ CredentialInit
    /\ part \in {"checkpoints", "pressure", "questions", "credentials"}

CheckpointsMove ==
    /\ part = "checkpoints" /\ CheckpointNext
    /\ UNCHANGED <<pressureVars, questionVars, credentialVars, part>>
PressureMoves ==
    /\ part = "pressure" /\ PressureNext
    /\ UNCHANGED <<checkpointVars, questionVars, credentialVars, part>>
QuestionsMove ==
    /\ part = "questions" /\ QuestionNext
    /\ UNCHANGED <<checkpointVars, pressureVars, credentialVars, part>>
CredentialsMove ==
    /\ part = "credentials" /\ CredentialNext
    /\ UNCHANGED <<checkpointVars, pressureVars, questionVars, part>>

Next == CheckpointsMove \/ PressureMoves \/ QuestionsMove \/ CredentialsMove

Spec == Init /\ [][Next]_vars
=============================================================================
