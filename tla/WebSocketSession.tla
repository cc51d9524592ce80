-------------------------- MODULE WebSocketSession --------------------------
(***************************************************************************)
(* One client of the WebSocket gateway: the handshake, the subscriptions,  *)
(* each authorized by the provider and the actions of its own event, the   *)
(* heartbeat, and the end of the session when the peer is gone or the      *)
(* token has expired.  Sessions share only the registry of providers.      *)
(*                                                                         *)
(* A subscription is in flight, in a slot, while a token is verified or an *)
(* ACL decision awaited; the rest of a handler runs at once.               *)
(***************************************************************************)
EXTENDS Naturals, FiniteSets

CONSTANTS
    Event,       \* events of type ws
    Remote,      \* those that come from the events source, not the YAML file
    Def,         \* [auth, required, actions] of each event
    Provider,
    NoProvider,
    MaxSubs,     \* maxSubscriptionsPerClient
    Slot         \* bounds the subscribe frames in flight

VARIABLES
    providers,   \* the registry's current providers
    wsEvents,    \* what the gateway has loaded
    token,       \* [verifies, exp]: who accepts it, and whether it expires
    granted,     \* the events whose actions the ACL allows the client
    conn,        \* "none", "open", "refused", "closing", "terminated", "closed"
    isAlive,
    dead,        \* the peer has vanished without a word
    expired,     \* the token's exp has passed
    tokenExp,    \* exp has been captured
    authByProvider,
    subs,        \* subscriptions[client.id]
    task,        \* the frame in each slot
    racing       \* the events in flight when the connection closed

connection == <<conn, isAlive, dead, expired>>
given == <<wsEvents, token, granted>>
vars == <<providers, given, connection, tokenExp, authByProvider, subs, task, racing>>

NoTask == [event |-> "none", at |-> "none"]
InFlight == {task[s].event : s \in {t \in Slot : task[t] # NoTask}}

\* The pull of the remote events is fail-soft.
Init ==
    /\ providers \in SUBSET Provider
    /\ wsEvents \in {Event, Event \ Remote}
    /\ token \in [verifies : SUBSET Provider, exp : BOOLEAN]
    /\ granted \in SUBSET {e \in Event : Def[e].actions}
    /\ conn = "none" /\ isAlive = TRUE /\ dead = FALSE /\ expired = FALSE
    /\ tokenExp = FALSE
    /\ authByProvider = [p \in Provider |-> "none"]
    /\ subs = {} /\ racing = {}
    /\ task = [s \in Slot |-> NoTask]

ReloadProviders(ps) ==
    /\ providers' = ps
    /\ UNCHANGED <<given, connection, tokenExp, authByProvider, subs, task, racing>>

\* A handshake from a foreign origin, or one too many, is refused.
handleConnection ==
    /\ conn = "none"
    /\ conn' \in {"open", "refused"}
    /\ UNCHANGED <<providers, given, isAlive, dead, expired, tokenExp, authByProvider,
                   subs, task, racing>>

isExpired == tokenExp /\ expired

handleDisconnect == subs' = {}

closeExpired ==
    /\ handleDisconnect
    /\ conn' = IF conn = "open" THEN "closing" ELSE conn

-----------------------------------------------------------------------------
(* Subscribing *)

\* The end of subscribeClient: the limit, then the subscription, unless there
\* is one already.  Nothing asks whether the client is still there.
Attach(e) ==
    subs' = IF Cardinality(subs) >= MaxSubs THEN subs ELSE subs \cup {e}

Drop(s) == task' = [task EXCEPT ![s] = NoTask]
Await(s, e, at) == task' = [task EXCEPT ![s] = [event |-> e, at |-> at]]

\* subscribeClient once the claims are known.
WithClaims(s, e, claims) ==
    LET d == Def[e]
        unauthorized == d.auth # NoProvider /\ d.required /\ claims # "good"
        identified == d.auth \in providers /\ claims = "good"
    IN  IF unauthorized \/ (d.actions /\ ~identified)
        THEN Drop(s) /\ UNCHANGED subs
        ELSE IF d.actions
        THEN Await(s, e, "check") /\ UNCHANGED subs
        ELSE Drop(s) /\ Attach(e)

\* Mutant: the memo is kept per connection.
Memo_shared(p) ==
    IF \E q \in Provider : authByProvider[q] = "good" THEN "good" ELSE authByProvider[p]

Memo(p) == authByProvider[p]

Subscribe(s, e) ==
    /\ task[s] = NoTask
    /\ LET p == Def[e].auth
       IN  CASE p = NoProvider ->
                  WithClaims(s, e, "none") /\ UNCHANGED authByProvider
             [] p # NoProvider /\ Memo(p) # "none" ->
                  WithClaims(s, e, Memo(p)) /\ UNCHANGED authByProvider
             [] p # NoProvider /\ Memo(p) = "none" /\ p \notin providers ->
                  /\ authByProvider' = [authByProvider EXCEPT ![p] = "bad"]
                  /\ WithClaims(s, e, "bad")
             [] OTHER ->
                  Await(s, e, "verify") /\ UNCHANGED <<authByProvider, subs>>

\* A key that cannot be fetched is a bad token too.
verifyToken(p) == {"bad"} \cup (IF p \in token.verifies THEN {"good"} ELSE {})

Verified(s) ==
    /\ task[s].at = "verify"
    /\ LET e == task[s].event
           p == Def[e].auth
       IN  \E claims \in verifyToken(p) :
             /\ tokenExp' = (tokenExp \/ (claims = "good" /\ token.exp))
             /\ authByProvider' = [authByProvider EXCEPT ![p] = claims]
             /\ WithClaims(s, e, claims)
    /\ UNCHANGED <<providers, given, connection, racing>>

\* checkActionsForClaims has answered, or failed.
Checked(s) ==
    /\ task[s].at = "check"
    /\ Drop(s)
    /\ \/ UNCHANGED subs
       \/ task[s].event \in granted /\ Attach(task[s].event)
    /\ UNCHANGED <<providers, given, connection, tokenExp, authByProvider, racing>>

\* Frames still arrive while the closing handshake goes on.
Reachable == conn \in {"open", "closing"} /\ ~dead

onClientMessage(e) ==
    /\ Reachable
    /\ IF isExpired
       THEN closeExpired /\ UNCHANGED <<authByProvider, task>>
       ELSE /\ e \in wsEvents
            /\ \/ \E s \in Slot : Subscribe(s, e)
               \/ subs' = subs \ {e} /\ UNCHANGED <<authByProvider, task>>
            /\ UNCHANGED conn
    /\ UNCHANGED <<providers, given, isAlive, dead, expired, tokenExp, racing>>

\* A message for a subscription: the first after the expiry ends the session.
Deliver(e) ==
    /\ e \in subs /\ isExpired
    /\ closeExpired
    /\ UNCHANGED <<providers, given, isAlive, dead, expired, tokenExp, authByProvider,
                   task, racing>>

-----------------------------------------------------------------------------
(* The connection *)

\* Mutant: the heartbeat pings, and forgets to expect the pong.
Unanswered_trusting == isAlive

\* isAlive after a ping.
Unanswered == FALSE

\* afterInit's timer, over the sockets of the server that are not closed.
Heartbeat ==
    /\ conn \in {"open", "refused", "closing"}
    /\ CASE isExpired -> closeExpired /\ UNCHANGED isAlive
         [] ~isExpired /\ ~isAlive ->
              handleDisconnect /\ conn' = "terminated" /\ UNCHANGED isAlive
         [] OTHER -> isAlive' = Unanswered /\ UNCHANGED <<conn, subs>>
    /\ UNCHANGED <<providers, given, dead, expired, tokenExp, authByProvider, task, racing>>

\* A refused client has no listener for its pongs.
Pong ==
    /\ Reachable /\ ~isAlive
    /\ isAlive' = TRUE
    /\ UNCHANGED <<providers, given, conn, dead, expired, tokenExp, authByProvider,
                   subs, task, racing>>

PeerDies ==
    /\ conn \in {"open", "refused", "closing"} /\ ~dead
    /\ dead' = TRUE
    /\ UNCHANGED <<providers, given, conn, isAlive, expired, tokenExp, authByProvider,
                   subs, task, racing>>

TokenExpires ==
    /\ token.exp /\ ~expired /\ conn # "none"
    /\ expired' = TRUE
    /\ UNCHANGED <<providers, given, conn, isAlive, dead, tokenExp, authByProvider,
                   subs, task, racing>>

\* The client leaves, or ws has closed or destroyed the socket.
CloseEvent ==
    /\ \/ conn \in {"refused", "closing", "terminated"}
       \/ conn = "open" /\ ~dead
    /\ handleDisconnect
    /\ conn' = "closed"
    /\ racing' = InFlight
    /\ UNCHANGED <<providers, given, isAlive, dead, expired, tokenExp, authByProvider, task>>

-----------------------------------------------------------------------------
Next ==
    \/ \E ps \in SUBSET Provider : ReloadProviders(ps)
    \/ handleConnection \/ Heartbeat \/ Pong \/ PeerDies \/ TokenExpires \/ CloseEvent
    \/ \E e \in Event : onClientMessage(e) \/ Deliver(e)
    \/ \E s \in Slot : Verified(s) \/ Checked(s)

Spec == Init /\ [][Next]_vars

\* The timer runs as long as the server does; ws destroys a socket whose
\* closing handshake gets no answer.
Sweep == Heartbeat \/ (conn # "open" /\ CloseEvent)

-----------------------------------------------------------------------------
(* Properties *)

\* A client is subscribed to an event only if the event's own provider has
\* accepted its token and the ACL grants it the event's actions, whatever
\* other events' providers made of the token and whenever the registry was
\* reloaded; and to no more events than the limit.
SubscriptionsEntitled ==
    /\ Cardinality(subs) <= MaxSubs
    /\ \A e \in subs :
         /\ Def[e].auth # NoProvider /\ Def[e].required => Def[e].auth \in token.verifies
         /\ Def[e].actions => Def[e].auth \in token.verifies /\ e \in granted

\* A session whose peer has vanished, or whose token is known to have expired,
\* is closed and loses its subscriptions, except those that were still being
\* authorized when the socket closed, which nobody takes back.
SessionsEnd ==
    []<>(dead \/ (isExpired /\ conn # "none") =>
            conn = "closed" /\ subs \subseteq racing)
=============================================================================
