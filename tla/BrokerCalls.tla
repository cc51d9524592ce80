---------------------------- MODULE BrokerCalls ----------------------------
(***************************************************************************)
(* The calls one process makes: BrokerService.requestData, which waits for *)
(* a reply, and publishMessage, which waits for the broker's confirm.      *)
(* AmqpConnection.request races the reply against a timer and waits for    *)
(* the publish as well; a publish waits, without a limit, for a connection *)
(* and for its confirm.                                                    *)
(*                                                                         *)
(* The broker, the services that execute the requests and the connection   *)
(* manager, which keeps what is not confirmed and publishes it again on    *)
(* the next connection, are external.  What becomes of an event after its  *)
(* confirm is left out: RetryConsumer follows it.                          *)
(***************************************************************************)
EXTENDS Naturals

CONSTANTS
    Call,         \* the calls, each with a correlation id of its own
    Event,        \* those made with publishMessage
    Foreign,      \* a request of another instance
    MaxLosses,    \* bound: lost connections
    MaxRuns       \* bound: executions of each request

ASSUME CallsAssumption ==
    /\ Event \subseteq Call
    /\ Foreign \notin Call
    /\ MaxLosses \in Nat /\ MaxRuns \in [Call -> Nat]

VARIABLES
    race,       \* response$ against timeout$
    answers,    \* the calls whose replies the race has taken
    publish,    \* the publish of each call
    outcome,    \* what the caller got
    queue,      \* requests on the service's queue
    executing,  \* requests a service works on
    replies,    \* replies under way
    shared,       \* replies come by a named queue other instances consume too
    connected,
    losses,     \* connections lost so far
    runs        \* executions of each request so far

callVars == <<race, answers, publish, outcome>>
serviceVars == <<queue, executing, replies, runs>>
linkVars == <<shared, connected, losses>>
vars == <<callVars, serviceVars, linkVars>>

\* A published request and the channel its direct reply goes to.
Copy == [call : Call \cup {Foreign}, channel : 0 .. MaxLosses]

Init ==
    /\ race = [c \in Call |-> "off"]
    /\ answers = [c \in Call |-> {}]
    /\ publish = [c \in Call |-> "off"]
    /\ outcome = [c \in Call |-> "none"]
    /\ queue = {} /\ executing = {} /\ replies = {}
    /\ shared \in BOOLEAN
    /\ connected = FALSE /\ losses = 0
    /\ runs = [c \in Call |-> 0]

-----------------------------------------------------------------------------
(* request and publishMessage *)

\* What Promise.all makes of the race and the publish.
Settled(c, r, p) ==
    IF p = "refused" THEN "refused"
    ELSE IF r = "expired" THEN "timeout"
    ELSE IF p = "confirmed" /\ (c \in Event \/ r = "answered") THEN "done" ELSE "none"

\* Mutant: a publish that fails late rejects a call that has returned.
Settle_again == outcome' = [c \in Call |-> Settled(c, race'[c], publish'[c])]

\* A caller is told once.
Settle ==
    outcome' = [c \in Call |-> IF outcome[c] # "none" THEN outcome[c]
                               ELSE Settled(c, race'[c], publish'[c])]

requestData(c) ==
    /\ c \notin Event /\ publish[c] = "off"
    /\ race' = [race EXCEPT ![c] = "listening"]
    /\ publish' = [publish EXCEPT ![c] = "buffered"]
    /\ UNCHANGED <<answers, outcome, serviceVars, linkVars>>

\* Either throws before anything is sent: the broker is detached, or the topic
\* is unknown or lacks an exchange or a routing key.
Reject(c) ==
    /\ publish[c] = "off"
    /\ publish' = [publish EXCEPT ![c] = "refused"]
    /\ UNCHANGED <<race, answers, serviceVars, linkVars>>
    /\ Settle

publishMessage(c) ==
    /\ c \in Event /\ publish[c] = "off"
    /\ publish' = [publish EXCEPT ![c] = "buffered"]
    /\ UNCHANGED <<race, answers, outcome, serviceVars, linkVars>>

\* Mutant: the timer watches the publish only.
Expire_unconfirmed(c) ==
    /\ race[c] = "listening"
    /\ publish[c] = "buffered" /\ ~connected
    /\ race' = [race EXCEPT ![c] = "expired"]
    /\ UNCHANGED <<answers, publish, serviceVars, linkVars>>
    /\ Settle

\* timeout$: a publish on a usable channel is written before the timer can fire.
Expire(c) ==
    /\ race[c] = "listening"
    /\ publish[c] = "buffered" => ~connected
    /\ race' = [race EXCEPT ![c] = "expired"]
    /\ UNCHANGED <<answers, publish, serviceVars, linkVars>>
    /\ Settle

\* Mutant: any reply will do.
Matches_any(c, m) == TRUE

Matches(c, m) == m.call = c

\* processDirectReplyToMessage: every race that listens looks at the reply.
ReplyArrives(m) ==
    LET takes(c) == race[c] = "listening" /\ Matches(c, m)
    IN  /\ connected
        /\ replies' = replies \ {m}
        /\ race' = [c \in Call |-> IF takes(c) THEN "answered" ELSE race[c]]
        /\ answers' = [c \in Call |-> IF takes(c) THEN answers[c] \cup {m.call} ELSE answers[c]]
        /\ UNCHANGED <<publish, queue, executing, runs, linkVars>>
        /\ Settle

-----------------------------------------------------------------------------
(* The connection manager and the broker *)

Write(c) ==
    /\ connected
    /\ publish[c] = "buffered"
    /\ publish' = [publish EXCEPT ![c] = "sent"]
    /\ queue' = IF c \in Event THEN queue
                ELSE queue \cup {[call |-> c, channel |-> losses]}
    /\ UNCHANGED <<race, answers, outcome, executing, replies, runs, linkVars>>

Confirm(c) ==
    /\ connected
    /\ publish[c] = "sent"
    /\ publish' = [publish EXCEPT ![c] = "confirmed"]
    /\ UNCHANGED <<race, answers, serviceVars, linkVars>>
    /\ Settle

\* The broker nacks the publish, and enqueues nothing.
Refuse(c) ==
    /\ connected
    /\ publish[c] = "buffered"
    /\ publish' = [publish EXCEPT ![c] = "refused"]
    /\ UNCHANGED <<race, answers, serviceVars, linkVars>>
    /\ Settle

\* What is not confirmed waits for the next connection; replies on their way to
\* the channel are gone.
Disconnect ==
    /\ losses < MaxLosses
    /\ connected' = FALSE
    /\ losses' = losses + 1
    /\ publish' = [c \in Call |-> IF publish[c] = "sent" THEN "buffered" ELSE publish[c]]
    /\ replies' = IF shared THEN replies ELSE {}
    /\ UNCHANGED <<shared, race, answers, outcome, queue, executing, runs>>

Reconnect ==
    /\ ~connected
    /\ connected' = TRUE
    /\ UNCHANGED <<shared, losses, callVars, serviceVars>>

\* The time to live of a request is its caller's timeout and starts later.
DropExpired(m) ==
    /\ race[m.call] # "listening"
    /\ queue' = queue \ {m}
    /\ UNCHANGED <<executing, replies, runs, callVars, linkVars>>

-----------------------------------------------------------------------------
(* The services and the other instances *)

Execute(m) ==
    /\ runs[m.call] < MaxRuns[m.call]
    /\ queue' = queue \ {m}
    /\ executing' = executing \cup {m}
    /\ runs' = [runs EXCEPT ![m.call] = @ + 1]
    /\ UNCHANGED <<replies, callVars, linkVars>>

\* A reply; a direct one to a channel that is gone is dropped.  The request is
\* delivered again if its ack is lost.
Respond(m, acked) ==
    /\ executing' = executing \ {m}
    /\ queue' = IF acked THEN queue ELSE queue \cup {m}
    /\ replies' = IF shared \/ (connected /\ m.channel = losses)
                  THEN replies \cup {m} ELSE replies
    /\ UNCHANGED <<runs, callVars, linkVars>>

\* Instances that share a reply queue get each other's replies.
ForeignReply ==
    /\ shared
    /\ replies' = replies \cup {[call |-> Foreign, channel |-> 0]}
    /\ UNCHANGED <<queue, executing, runs, callVars, linkVars>>

PeerTakes(m) ==
    /\ shared
    /\ replies' = replies \ {m}
    /\ UNCHANGED <<queue, executing, runs, callVars, linkVars>>

-----------------------------------------------------------------------------
Caller == \E c \in Call : requestData(c) \/ publishMessage(c) \/ Reject(c)

Services ==
    \/ \E m \in queue : DropExpired(m) \/ Execute(m)
    \/ \E m \in executing : \E acked \in BOOLEAN : Respond(m, acked)
    \/ ForeignReply
    \/ \E m \in replies : ReplyArrives(m) \/ PeerTakes(m)

Next ==
    \/ Caller
    \/ \E c \in Call : Expire(c) \/ Write(c) \/ Confirm(c) \/ Refuse(c)
    \/ Disconnect \/ Reconnect
    \/ Services

Spec == Init /\ [][Next]_vars

\* Timers fire; the manager publishes and the broker confirms.
CallFairness ==
    \A c \in Call : WF_vars(Expire(c)) /\ WF_vars(Write(c) \/ Refuse(c) \/ Confirm(c))

-----------------------------------------------------------------------------
(* Properties *)

\* The type invariant.
CallsTypeOK ==
    /\ race \in [Call -> {"off", "listening", "answered", "expired"}]
    /\ answers \in [Call -> SUBSET Call]
    /\ publish \in [Call -> {"off", "buffered", "sent", "confirmed", "refused"}]
    /\ outcome \in [Call -> {"none", "done", "timeout", "refused"}]
    /\ queue \subseteq Copy /\ executing \subseteq Copy /\ replies \subseteq Copy
    /\ shared \in BOOLEAN /\ connected \in BOOLEAN /\ losses \in 0 .. MaxLosses
    /\ runs \in [Call -> Nat] /\ \A c \in Call : runs[c] <= MaxRuns[c]

\* A caller gets the answer to its own request, once.
OwnAnswer ==
    \A c \in Call \ Event :
      /\ answers[c] \subseteq {c}
      /\ outcome[c] = "done" => answers[c] = {c} /\ runs[c] > 0

\* What the caller of c knows, in the words of CallContract.
Knows(c) == IF publish[c] = "off" THEN "idle"
            ELSE IF outcome[c] = "none" THEN "waiting" ELSE outcome[c]

Contract == INSTANCE CallContract
    WITH told <- [c \in Call |-> Knows(c)], done <- {c \in Call : runs[c] > 0}

\* Calls return once, and a request returns an answer only if it was executed,
\* whatever is lost, repeated or late.
ImplementsContract == Contract!Spec
=============================================================================
