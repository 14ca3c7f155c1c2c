------------------------------- MODULE MCRecords -------------------------------
(***************************************************************************)
(* Two components that keep records in files which are also changed when   *)
(* their reader does not look: the session journal and the connections to  *)
(* MCP servers.  They share no state.  This run checks each by itself:     *)
(* part says which one moves, and the other stays in an initial state.     *)
(***************************************************************************)
EXTENDS MCSessionJournal, McpConnections

CONSTANTS
    q1, q2,       \* two calls of a connection's tools
    f1, f2        \* two forms of the connection

\* Two calls and a form, or two forms that may both sign in.
MCBounds == {[calls |-> 2, forms |-> 1, grants |-> 1, edits |-> 1],
             [calls |-> 0, forms |-> 2, grants |-> 2, edits |-> 2]}

\* The journal's items, the calls and the forms are alike.
MCSymmetry == Symmetry \cup Permutations({q1, q2}) \cup Permutations({f1, f2})

VARIABLE part
recordVars == <<vars, mcpVars, part>>

RecordsTypeOK == TypeOK /\ McpTypeOK

\* What the session holds matters to the first part only, and which calls and
\* forms there are to the second.
RecordsInit ==
    /\ Init /\ McpInit
    /\ part \in {"journal", "mcp"}
    /\ part = "mcp" => live.state = CHOOSE s \in State : TRUE
    /\ part = "journal" => counts.edits = 0 /\ \A f \in Form : form[f] = ClosedForm

JournalMoves == part = "journal" /\ Next /\ UNCHANGED <<mcpVars, part>>
McpMoves == part = "mcp" /\ McpNext /\ UNCHANGED <<vars, part>>

RecordsNext == JournalMoves \/ McpMoves

RecordsSpec == RecordsInit /\ [][RecordsNext]_recordVars
=============================================================================
