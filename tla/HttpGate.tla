------------------------------ MODULE HttpGate ------------------------------
(***************************************************************************)
(* The handling of an HTTP request by one gateway instance: the cap on     *)
(* concurrent requests, authentication, the multipart body, authorization, *)
(* the call of the broker and the answer, while the set of authentication  *)
(* providers may be reloaded and clients may go away at any moment.        *)
(*                                                                         *)
(* Actions are the stretches of JavaScript between two awaits.  What the   *)
(* broker promises of a call is CallContract.  Whether a credential is     *)
(* good, and the decision of the ACL, are chosen when they are asked for.  *)
(***************************************************************************)
EXTENDS Naturals, FiniteSets

CONSTANTS
    Req,         \* requests
    Event,       \* those to a path in event mode, the others to one in rpc mode
    Provider,    \* authentication providers
    NoProvider,
    Path,        \* [auth, actions, anonymous] of the paths
    Cap          \* maxConcurrentRequests

VARIABLES
    providers,   \* the registry's current providers
    channelClosed,  \* the broker has closed the channel of the calls over its setup
    told, done,  \* see CallContract
    stage,       \* the await a request's handler is at
    path,        \* the path of a request
    success,     \* authData.success
    allowed,     \* what checkActions will come to
    status,      \* the status sent
    socket,      \* of the response: "open", "finished", "closed"
    admitted,    \* requests the cap let through
    released,    \* those that have given their slot back
    inFlight

Calls == INSTANCE CallContract WITH Call <- Req

outside == <<providers, channelClosed>>
call == <<told, done>>
gate == <<admitted, released, inFlight>>
vars == <<outside, call, stage, path, success, allowed, status, socket, gate>>

NoPath == [auth |-> NoProvider, actions |-> FALSE, anonymous |-> TRUE]

Init ==
    /\ providers \in SUBSET Provider
    /\ channelClosed = FALSE
    /\ Calls!Init
    /\ stage = [r \in Req |-> "none"]
    /\ path = [r \in Req |-> NoPath]
    /\ success = [r \in Req |-> FALSE]
    /\ allowed = [r \in Req |-> "no"]
    /\ status = [r \in Req |-> "none"]
    /\ socket = [r \in Req |-> "none"]
    /\ admitted = {} /\ released = {} /\ inFlight = 0

\* AuthProviderRegistry.reload swaps in what it has read from the database.
ReloadProviders(ps) ==
    /\ providers' = ps
    /\ UNCHANGED <<channelClosed, call, stage, path, success, allowed, status, socket, gate>>

\* The broker refuses a command of the channel's setup and closes it, or takes
\* the setup of the next connect (broken in BrokerProcess).
ChannelChanges ==
    /\ channelClosed' = ~channelClosed
    /\ UNCHANGED <<providers, call, stage, path, success, allowed, status, socket, gate>>

-----------------------------------------------------------------------------
(* The handler *)

Answer(r, s) ==
    /\ stage' = [stage EXCEPT ![r] = "over"]
    /\ status' = [status EXCEPT ![r] = s]

Shed(r, p) ==
    /\ inFlight >= Cap
    /\ Answer(r, "busy")
    /\ UNCHANGED <<success, gate>>

\* Whether the credentials are good is up to the provider, found at once.
processAuthData(p) == {good \in BOOLEAN : good => p.auth \in providers}

Admit(r, p) ==
    /\ inFlight < Cap
    /\ inFlight' = inFlight + 1
    /\ admitted' = admitted \cup {r}
    /\ stage' = [stage EXCEPT ![r] = "auth"]
    /\ \E good \in processAuthData(p) : success' = [success EXCEPT ![r] = good]
    /\ UNCHANGED <<status, released>>

Arrive(r, p) ==
    /\ stage[r] = "none"
    /\ path' = [path EXCEPT ![r] = p]
    /\ socket' = [socket EXCEPT ![r] = "open"]
    /\ Shed(r, p) \/ Admit(r, p)
    /\ UNCHANGED <<outside, call, allowed>>

Authenticated(r) ==
    /\ stage[r] = "auth"
    /\ IF ~path[r].anonymous /\ path[r].auth # NoProvider /\ ~success[r]
       THEN Answer(r, "unauthorized")
       ELSE stage' = [stage EXCEPT ![r] = "body"] /\ UNCHANGED status
    /\ UNCHANGED <<outside, call, path, success, allowed, socket, gate>>

\* checkActions looks the provider up again.
ActionsOf(r) ==
    IF ~path[r].actions THEN {"yes"}
    ELSE IF path[r].auth \notin providers \/ ~success[r] THEN {"no"}
    ELSE {"yes", "no", "error"}

\* publishMessage or requestData
Forward(r) ==
    /\ stage' = [stage EXCEPT ![r] = "call"]
    /\ Calls!Make(r)
    /\ UNCHANGED status

\* parseMultipart
BodyRead(r, good) ==
    /\ stage[r] = "body"
    /\ CASE ~good -> Answer(r, "rejected") /\ UNCHANGED <<call, allowed>>
         [] good /\ path[r].anonymous -> Forward(r) /\ UNCHANGED allowed
         [] OTHER -> /\ stage' = [stage EXCEPT ![r] = "acl"]
                     /\ \E a \in ActionsOf(r) : allowed' = [allowed EXCEPT ![r] = a]
                     /\ UNCHANGED <<status, call>>
    /\ UNCHANGED <<outside, path, success, socket, gate>>

\* Mutant: an ACL that cannot be asked leaves the handler without an answer.
Authorized_uncaught(r) ==
    /\ stage[r] = "acl"
    /\ CASE allowed[r] = "yes"   -> Forward(r)
         [] allowed[r] = "no"    -> Answer(r, "forbidden") /\ UNCHANGED call
         [] allowed[r] = "error" ->
              stage' = [stage EXCEPT ![r] = "over"] /\ UNCHANGED <<status, call>>
    /\ UNCHANGED <<outside, path, success, allowed, socket, gate>>

Authorized(r) ==
    /\ stage[r] = "acl"
    /\ IF allowed[r] = "yes" THEN Forward(r)
       ELSE /\ Answer(r, IF allowed[r] = "no" THEN "forbidden" ELSE "unavailable")
            /\ UNCHANGED call
    /\ UNCHANGED <<outside, path, success, allowed, socket, gate>>

\* What throws outside the handler's try blocks, in mapping the claims or in
\* putting the data together, rejects its promise: Express answers a 500.
Throws(r) ==
    /\ \/ stage[r] = "auth"
       \/ stage[r] = "body" /\ path[r].anonymous
       \/ stage[r] = "acl" /\ allowed[r] = "yes"
    /\ Answer(r, "error")
    /\ UNCHANGED <<outside, call, path, success, allowed, socket, gate>>

StatusOf(o) == CASE o = "done" -> "ok" [] o = "timeout" -> "timeout" [] o = "refused" -> "error"

\* Mutant: an event is acknowledged before the broker has it.
Returns_optimistic(r, o) ==
    /\ stage[r] = "call"
    /\ IF r \in Event THEN UNCHANGED call ELSE Calls!Tell(r, o)
    /\ Answer(r, IF r \in Event THEN "ok" ELSE StatusOf(o))
    /\ UNCHANGED <<outside, path, success, allowed, socket, gate>>

\* The call returns, and its outcome is the answer.
Returns(r, o) ==
    /\ stage[r] = "call"
    /\ Calls!Tell(r, o)
    /\ Answer(r, StatusOf(o))
    /\ UNCHANGED <<outside, path, success, allowed, socket, gate>>

\* A service works on the request, in time or not.
Executed(r) ==
    /\ Calls!Execute(r)
    /\ UNCHANGED <<outside, stage, path, success, allowed, status, socket, gate>>

-----------------------------------------------------------------------------
(* The response's socket *)

\* Mutant: both events give a slot back.
release_twice(r) ==
    IF r \in admitted
    THEN /\ inFlight' = inFlight - 1
         /\ released' = released \cup {r}
         /\ UNCHANGED admitted
    ELSE UNCHANGED gate

release(r) ==
    IF r \in admitted \ released
    THEN /\ inFlight' = inFlight - 1
         /\ released' = released \cup {r}
         /\ UNCHANGED admitted
    ELSE UNCHANGED gate

Finish(r) ==
    /\ socket[r] = "open" /\ status[r] # "none"
    /\ socket' = [socket EXCEPT ![r] = "finished"]
    /\ release(r)
    /\ UNCHANGED <<outside, call, stage, path, success, allowed, status>>

\* After the answer, or because the client has gone.
Close(r) ==
    /\ socket[r] \in {"open", "finished"}
    /\ socket' = [socket EXCEPT ![r] = "closed"]
    /\ release(r)
    /\ UNCHANGED <<outside, call, stage, path, success, allowed, status>>

-----------------------------------------------------------------------------
\* The stretches of the handler before the call, and the last one.
Prepare(r) ==
    \/ Authenticated(r) \/ Authorized(r) \/ Throws(r)
    \/ \E good \in BOOLEAN : BodyRead(r, good)

Conclude(r) == \E o \in {"done", "timeout", "refused"} : Returns(r, o)

Next ==
    \/ \E ps \in SUBSET Provider : ReloadProviders(ps)
    \/ ChannelChanges
    \/ \E r \in Req :
         \/ \E p \in Path : Arrive(r, p)
         \/ Prepare(r) \/ Conclude(r) \/ Executed(r) \/ Finish(r) \/ Close(r)

Spec == Init /\ [][Next]_vars

\* Providers, clients and the ACL answer or time out (AclCache, CallerAnswered).
\* Of a call only what CallReturns says of the real ones is assumed: it returns
\* if its channel does not stay closed for the time of the wait.
Fairness ==
    \A r \in Req :
      /\ WF_vars(Prepare(r))
      /\ WF_vars(~channelClosed /\ Conclude(r))

-----------------------------------------------------------------------------
(* Properties *)

\* A slot is held exactly as long as the response is neither finished nor
\* closed, whatever order the two events come in, and never more than the cap.
InFlightExact ==
    /\ inFlight = Cardinality({r \in admitted : socket[r] = "open"})
    /\ inFlight <= Cap

\* A 2xx is "not optimistic": the service has executed the request, or the
\* broker has taken charge of the event; and nothing was sent that the path
\* does not entitle the client to.
SuccessMeansDone ==
    \A r \in Req :
      /\ status[r] = "ok" => told[r] = "done" /\ r \in Event \cup done
      /\ told[r] # "idle" =>
           \/ path[r].anonymous
           \/ /\ path[r].auth # NoProvider => success[r]
              /\ path[r].actions => allowed[r] = "yes" /\ path[r].auth # NoProvider

\* The handler of an admitted request comes to an answer, or waits in its call
\* for a channel whose setup the broker has refused: whatever is denied, times
\* out or throws on the way is answered.
RequestsAnswered ==
    []<>(\A r \in admitted : status[r] # "none" \/ (stage[r] = "call" /\ channelClosed))
=============================================================================
