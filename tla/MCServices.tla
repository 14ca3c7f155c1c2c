------------------------------ MODULE MCServices ------------------------------
(***************************************************************************)
(* HttpPool, ResponseSocket and LanguageServers share no state.  This run  *)
(* checks each by itself: part says which one moves, and the other two     *)
(* stay in their initial states.                                           *)
(***************************************************************************)
EXTENDS HttpPool, ResponseSocket, LanguageServers

VARIABLE part
vars == <<poolVars, socketVars, serverVars, part>>

ServicesTypeOK == PoolTypeOK /\ SocketTypeOK /\ ServerTypeOK

Init ==
    /\ PoolInit /\ SocketInit /\ ServerInit
    /\ part \in {"http", "socket", "servers"}
    /\ part # "servers" => text = CHOOSE t \in Text : TRUE

HttpMoves == part = "http" /\ PoolNext /\ UNCHANGED <<socketVars, serverVars, part>>
SocketMoves == part = "socket" /\ SocketNext /\ UNCHANGED <<poolVars, serverVars, part>>
ServersMove == part = "servers" /\ ServerNext /\ UNCHANGED <<poolVars, socketVars, part>>

Next == HttpMoves \/ SocketMoves \/ ServersMove

\* PoolFairness, SocketFairness and ServerFairness, of the part that moves.
Fairness ==
    /\ \A r \in Request : WF_poolVars(part = "http" /\ CallerStep(r))
    /\ \A a \in Adapter : WF_poolVars(part = "http" /\ ProcessStep(a))
    /\ \A s \in Sample : WF_socketVars(part = "socket" /\ SampleStep(s))
    /\ \A q \in Query : WF_serverVars(part = "servers" /\ QueryStep(q))
    /\ \A e \in Entry : /\ WF_serverVars(part = "servers" /\ Stops(e))
                        /\ SF_serverVars(part = "servers" /\ PumpRetires(e))
    /\ WF_serverVars(part = "servers" /\ Reset)

Spec == Init /\ [][Next]_vars /\ Fairness

\* RequestReturns of HttpPool (http/pool.rs): every request returns.
RequestsReturn == (part = "http") => RequestReturns

\* SampleEnds of ResponseSocket (backend/openai/socket.rs): every sample
\* completes or fails, unless its temporary failures or its text go on for ever.
SamplesEnd == (part = "socket") => SampleEnds

\* Whatever processes, connections and servers do, callers are answered: the
\* three modules' promises that a call returns, with the exception of SampleEnds.
CallsReturn == RequestsReturn /\ SamplesEnd /\ QueriesReturn
=============================================================================
