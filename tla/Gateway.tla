------------------------------- MODULE Gateway -------------------------------
(***************************************************************************)
(* One gateway process: the calls it makes over its broker connection      *)
(* (BrokerProcess), its HTTP side (HttpGate) and its WebSocket side        *)
(* (WebSocketSession).  HttpGate has the calls as CallContract promises    *)
(* them, and the two sides share the registry of authentication providers  *)
(* and nothing else; so a behaviour of the process is one of each part,    *)
(* and the others stand still in one of their initial states.              *)
(***************************************************************************)
EXTENDS BrokerProcess, FiniteSets

CONSTANTS
    Req, EventReq, HttpProvider, Path, Cap,            \* see HttpGate
    WsEvent, Remote, Def, WsProvider, MaxSubs, Frame,  \* see WebSocketSession
    NoProvider

VARIABLES
    part, providers, channelClosed,
    told, done, stage, path, success, allowed, status, socket, admitted, released, inFlight,
    wsEvents, token, granted, conn, isAlive, dead, expired, tokenExp, authByProvider,
    subs, task, racing

\* A provider has a name, an event names a provider or none, limits are numbers.
ASSUME GatewayAssumption ==
    /\ Cap \in Nat /\ MaxSubs \in Nat
    /\ NoProvider \notin HttpProvider \cup WsProvider
    /\ \A e \in WsEvent : Def[e].auth \in WsProvider \cup {NoProvider}

Http == INSTANCE HttpGate WITH Event <- EventReq, Provider <- HttpProvider

Ws == INSTANCE WebSocketSession WITH Event <- WsEvent, Provider <- WsProvider, Slot <- Frame

httpVars == <<channelClosed, told, done, stage, path, success, allowed, status, socket,
              admitted, released, inFlight>>
wsVars == <<wsEvents, token, granted, conn, isAlive, dead, expired, tokenExp,
            authByProvider, subs, task, racing>>
gwVars == <<part, processVars, providers, httpVars, wsVars>>

IdleHttp == Http!Init
IdleWs ==
    /\ Ws!Init
    /\ wsEvents = WsEvent /\ token = [verifies |-> {}, exp |-> FALSE]
    /\ granted = {}
IdleProcess == ProcessInit /\ alternates = 0 /\ ~shared

GwInit ==
    \/ part = "process" /\ ProcessInit /\ IdleHttp /\ IdleWs /\ providers = {}
    \/ part = "http" /\ IdleProcess /\ Http!Init /\ IdleWs
    \/ part = "ws" /\ IdleProcess /\ Ws!Init /\ IdleHttp

ProcessStep(A) == part = "process" /\ A /\ UNCHANGED <<part, providers, httpVars, wsVars>>
HttpStep(A) == part = "http" /\ A /\ UNCHANGED <<part, processVars, wsVars>>
WsStep(A) == part = "ws" /\ A /\ UNCHANGED <<part, processVars, httpVars>>

GwNext == ProcessStep(ProcessNext) \/ HttpStep(Http!Next) \/ WsStep(Ws!Next)

\* The fairness of ProcessSpec.
ProcessFairness ==
    /\ \A c \in Call :
         /\ WF_gwVars(ProcessStep(Expire(c) /\ UNCHANGED topologyVars))
         /\ WF_gwVars(ProcessStep((Write(c) \/ Refuse(c) \/ Confirm(c)) /\ UNCHANGED topologyVars))
    /\ WF_gwVars(ProcessStep(Connect \/ Ready \/ \E ch \in Channel : Declare(ch)))
\* That of HttpGate.
HttpFairness ==
    \A r \in Req :
      /\ WF_gwVars(HttpStep(Http!Prepare(r)))
      /\ WF_gwVars(HttpStep(~channelClosed /\ Http!Conclude(r)))
WsFairness == WF_gwVars(WsStep(Ws!Sweep))

GwSpec == GwInit /\ [][GwNext]_gwVars /\ ProcessFairness /\ HttpFairness /\ WsFairness

-----------------------------------------------------------------------------
\* The slots held are those of the requests under way (HttpGate).
InFlightExact == Http!InFlightExact

\* A success is never optimistic, nor for the unentitled (HttpGate).
SuccessMeansDone == Http!SuccessMeansDone

\* Every admitted request is answered, but for a call that waits for a refused
\* channel (HttpGate).
RequestsAnswered == Http!RequestsAnswered

\* A client gets only the events it is entitled to (WebSocketSession).
SubscriptionsEntitled == Ws!SubscriptionsEntitled

\* Dead and expired sessions end (WebSocketSession).
SessionsEnd == Ws!SessionsEnd
=============================================================================
