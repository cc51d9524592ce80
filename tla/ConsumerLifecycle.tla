------------------------- MODULE ConsumerLifecycle -------------------------
(***************************************************************************)
(* How one process starts, keeps and stops consuming: BrokerService        *)
(* registers a handler per topic, AmqpConnection subscribes to the topic's *)
(* queue through a setup function that runs again on every reconnect, and  *)
(* a graceful shutdown cancels the consumers, clears the handlers, waits   *)
(* for the messages being processed and closes the connection.             *)
(*                                                                         *)
(* Actions are the stretches of JavaScript between two awaits.  What       *)
(* happens to a message whose handler fails is RetryConsumer's subject: a  *)
(* run that ends here acks its message.                                    *)
(***************************************************************************)
EXTENDS Naturals

CONSTANTS
    Topic,      \* topics a handler is registered for
    RpcTopic,   \* those registered with registerRpc
    Msg,        \* messages on the queues of the topics
    TopicOf,    \* the topic of a message
    MaxLosses   \* bound: connections lost

ASSUME LifecycleAssumption ==
    /\ RpcTopic \subseteq Topic
    /\ TopicOf \in [Msg -> Topic]
    /\ MaxLosses \in Nat

VARIABLES
    up,          \* the connection to the broker is open
    epoch,       \* number of the channel: one more after each reconnect
    installed,   \* topics whose setup function the channel wrapper runs
    setting,     \* the await a topic's setup function is at
    serving,     \* topics the broker has a consumer for on the present channel
    tags,        \* _consumers: topic and channel of each consumer tag
    registering, \* the topic's registerHandler or registerRpc call
    subscribed,  \* topics marked subscribed in handlersPool and rpcsPool
    registry,    \* topics with a handler in HandlerRegistryService
    canceled,    \* consumersCanceled, the latch of a graceful drain
    drain,       \* unregisterAll: "no", "canceling", "cleared"
    closing,     \* close: "no", "canceling", "waiting", "closed"
    canceling,   \* tags whose basic.cancel has no answer yet
    runs,        \* outstandingMessageProcessing
    awaited,     \* the part of it that close waits for
    msg,         \* history: what became of a message
    racing,      \* history: topics being set up when the latch was closed
    losses       \* connections lost so far

setups == <<installed, setting, serving, tags>>
handlers == <<registering, subscribed, registry>>
shutdown == <<canceled, drain, closing, canceling, awaited, racing>>
connection == <<up, epoch, losses>>
vars == <<setups, handlers, shutdown, connection, runs, msg>>

Epoch == 0 .. MaxLosses
Tag == [topic : Topic, epoch : Epoch]
Run == [m : Msg, epoch : Epoch, handled : BOOLEAN]

Init ==
    /\ up = TRUE /\ epoch = 0 /\ losses = 0
    /\ installed = {} /\ serving = {} /\ tags = {}
    /\ setting = [t \in Topic |-> "idle"]
    /\ registering = [t \in Topic |-> "no"]
    /\ subscribed = {} /\ registry = {}
    /\ canceled = FALSE /\ drain = "no" /\ closing = "no"
    /\ canceling = {} /\ awaited = {} /\ racing = {}
    /\ runs = {}
    /\ msg = [m \in Msg |-> "ready"]

-----------------------------------------------------------------------------
(* Subscribing *)

\* createSubscriber and createRpc refuse once the latch is closed.
\* registerHandler logs the refusal and registers its handler all the same,
\* registerRpc fails.
RegisterRefused(t) ==
    /\ canceled
    /\ registry' = IF t \in RpcTopic THEN registry ELSE registry \cup {t}
    /\ registering' = [registering EXCEPT ![t] = "refused"]
    /\ UNCHANGED <<setups, subscribed>>

\* addSetup: the setup function runs at once when there is a channel.
Subscribe(t) ==
    /\ ~canceled
    /\ installed' = installed \cup {t}
    /\ setting' = [setting EXCEPT ![t] = IF up THEN "declaring" ELSE "idle"]
    /\ registering' = [registering EXCEPT ![t] = "waiting"]
    /\ UNCHANGED <<serving, tags, subscribed, registry>>

\* registerHandler or registerRpc up to its await.
Register(t) ==
    /\ registering[t] = "no"
    /\ closing = "no"
    /\ RegisterRefused(t) \/ Subscribe(t)
    /\ UNCHANGED <<shutdown, connection, runs, msg>>

\* setupQueue is through and the broker has the consumer: messages flow from
\* now on, whether or not the code has seen the answer.
ConsumeAccepted(t) ==
    /\ setting[t] = "declaring"
    /\ setting' = [setting EXCEPT ![t] = "consuming"]
    /\ serving' = serving \cup {t}
    /\ UNCHANGED <<installed, tags, handlers, shutdown, connection, runs, msg>>

\* The rest of the setup function, and of the registration that waits for it.
ConsumeOk(t) ==
    /\ setting[t] = "consuming"
    /\ setting' = [setting EXCEPT ![t] = "idle"]
    /\ tags' = tags \cup {[topic |-> t, epoch |-> epoch]}
    /\ IF registering[t] = "waiting"
       THEN /\ registering' = [registering EXCEPT ![t] = "done"]
            /\ subscribed' = subscribed \cup {t}
            /\ registry' = registry \cup {t}
       ELSE UNCHANGED handlers
    /\ UNCHANGED <<installed, serving, shutdown, connection, runs, msg>>

-----------------------------------------------------------------------------
(* Messages and the connection *)

\* The callback looks its handler up at once, and without one does nothing
\* and succeeds.
Deliver(m) ==
    /\ msg[m] = "ready"
    /\ TopicOf[m] \in serving
    /\ msg' = [msg EXCEPT ![m] = "unacked"]
    /\ runs' = runs \cup {[m |-> m, epoch |-> epoch, handled |-> TopicOf[m] \in registry]}
    /\ UNCHANGED <<setups, handlers, shutdown, connection>>

\* A run ends and acks its message, on a channel that may be gone.
FinishRun(r) ==
    /\ runs' = runs \ {r}
    /\ awaited' = awaited \ {r}
    /\ msg' = IF up /\ r.epoch = epoch
              THEN [msg EXCEPT ![r.m] = IF r.handled THEN "handled" ELSE "lost"]
              ELSE msg
    /\ UNCHANGED <<setups, handlers, canceled, drain, closing, canceling, racing, connection>>

\* What the broker takes back when the channel is gone.
Requeued == [m \in Msg |-> IF msg[m] = "unacked" THEN "ready" ELSE msg[m]]

ConnectionLost ==
    /\ up
    /\ losses < MaxLosses
    /\ losses' = losses + 1
    /\ up' = FALSE
    /\ serving' = {}
    /\ setting' = [t \in Topic |-> "idle"]
    /\ msg' = Requeued
    /\ UNCHANGED <<installed, tags, handlers, shutdown, epoch, runs>>

\* Mutant: the setup functions do not look at the latch.
SetupsToRun_ignoreLatch == installed

\* Mutant: only established subscriptions are set up again.
SetupsToRun_established == IF canceled THEN {} ELSE installed \cap subscribed

\* The setup functions that subscribe: none after a graceful drain.
SetupsToRun == IF canceled THEN {} ELSE installed

Reconnect ==
    /\ ~up
    /\ closing # "closed"
    /\ up' = TRUE
    /\ epoch' = epoch + 1
    /\ setting' = [t \in Topic |-> IF t \in SetupsToRun THEN "declaring" ELSE "idle"]
    /\ UNCHANGED <<installed, serving, tags, handlers, shutdown, losses, runs, msg>>

-----------------------------------------------------------------------------
(* Graceful shutdown *)

\* cancelAllConsumers: the latch, and a basic.cancel for each known tag.
cancelAllConsumers ==
    /\ canceled' = TRUE
    /\ canceling' = tags
    /\ racing' = IF canceled THEN racing ELSE {t \in Topic : setting[t] # "idle"}

\* ShutdownStateService.onModuleDestroy calls unregisterAll.
UnregisterAll ==
    /\ drain = "no"
    /\ drain' = "canceling"
    /\ cancelAllConsumers
    /\ UNCHANGED <<setups, handlers, closing, awaited, connection, runs, msg>>

\* Mutant: the cancel goes through the channel wrapper and cancels nothing.
CancelConsumer_throughWrapper(x) ==
    /\ x \in canceling
    /\ canceling' = canceling \ {x}
    /\ tags' = tags \ {x}
    /\ UNCHANGED <<serving, installed, setting, handlers, canceled, drain, closing, awaited,
                   racing, connection, runs, msg>>

\* Mutant: the failed cancel on a channel that is gone is not caught.
CancelConsumer_uncaught(x) ==
    /\ x \in canceling
    /\ up /\ x.epoch = epoch
    /\ canceling' = canceling \ {x}
    /\ tags' = tags \ {x}
    /\ serving' = serving \ {x.topic}
    /\ UNCHANGED <<installed, setting, handlers, canceled, drain, closing, awaited, racing,
                   connection, runs, msg>>

\* cancelConsumer: on a channel that is gone the cancel fails and the entry is
\* dropped.
CancelConsumer(x) ==
    /\ x \in canceling
    /\ canceling' = canceling \ {x}
    /\ tags' = tags \ {x}
    /\ serving' = IF up /\ x.epoch = epoch THEN serving \ {x.topic} ELSE serving
    /\ UNCHANGED <<installed, setting, handlers, canceled, drain, closing, awaited, racing,
                   connection, runs, msg>>

\* The rest of unregisterAll.
Clear ==
    /\ drain = "canceling"
    /\ canceling = {}
    /\ drain' = "cleared"
    /\ subscribed' = {}
    /\ registry' = {}
    /\ UNCHANGED <<setups, registering, canceled, closing, canceling, awaited, racing,
                   connection, runs, msg>>

\* onApplicationShutdown calls close after every onModuleDestroy is through.
Close ==
    /\ drain = "cleared"
    /\ closing = "no"
    /\ closing' = "canceling"
    /\ cancelAllConsumers
    /\ UNCHANGED <<setups, handlers, drain, awaited, connection, runs, msg>>

\* Mutant: close does not wait for the messages being processed.
CloseWaits_notAtAll ==
    /\ closing = "canceling"
    /\ canceling = {}
    /\ closing' = "waiting"
    /\ awaited' = {}
    /\ UNCHANGED <<setups, handlers, canceled, drain, canceling, racing, connection, runs, msg>>

CloseWaits ==
    /\ closing = "canceling"
    /\ canceling = {}
    /\ closing' = "waiting"
    /\ awaited' = runs
    /\ UNCHANGED <<setups, handlers, canceled, drain, canceling, racing, connection, runs, msg>>

CloseConnection ==
    /\ closing = "waiting"
    /\ awaited = {}
    /\ closing' = "closed"
    /\ up' = FALSE
    /\ serving' = {}
    /\ setting' = [t \in Topic |-> "idle"]
    /\ msg' = Requeued
    /\ UNCHANGED <<installed, tags, handlers, canceled, drain, canceling, awaited, racing,
                   epoch, losses, runs>>

-----------------------------------------------------------------------------
Setup(t) == ConsumeAccepted(t) \/ ConsumeOk(t)

Next ==
    \/ \E t \in Topic : Register(t) \/ Setup(t)
    \/ \E m \in Msg : Deliver(m)
    \/ \E r \in runs : FinishRun(r)
    \/ ConnectionLost \/ Reconnect
    \/ UnregisterAll \/ Clear \/ Close \/ CloseWaits \/ CloseConnection
    \/ \E x \in tags : CancelConsumer(x)

Spec == Init /\ [][Next]_vars

\* Handlers return, the broker answers and can be reached again.
Fairness ==
    /\ \A t \in Topic : WF_vars(Setup(t))
    /\ WF_vars(\E r \in runs : FinishRun(r))
    /\ WF_vars(\E x \in tags : CancelConsumer(x))
    /\ WF_vars(Reconnect)
    /\ WF_vars(Clear \/ Close \/ CloseWaits \/ CloseConnection)

FairSpec == Spec /\ Fairness

-----------------------------------------------------------------------------
(* Properties *)

\* A topic the broker delivers to this process has its handler in the
\* registry, through reconnects and during the drain, except while its first
\* subscription is under way and for a subscription the drain overtook: an
\* instance does not consume what it has no handler for.
ServedByHandler ==
    \A t \in serving \ racing : t \in registry \/ registering[t] = "waiting"

\* Once unregisterAll has returned, nothing is consumed any more, whatever
\* reconnects follow, except by a subscription the drain overtook.
OnlyRacingSetupsSurvive == drain = "cleared" => serving \subseteq racing

\* No message is acked without its handler having run ("messages would be
\* consumed by an instance whose handlers are already unregistered - and
\* silently lost").
NoSilentLoss == \A m \in Msg : msg[m] # "lost"

\* The connection is not closed under a handler that is still working on a
\* message of its channel: close cancels before it waits.
CloseIsClean ==
    [][closing = "waiting" /\ closing' = "closed" =>
         \A r \in runs : r.epoch = epoch => TopicOf[r.m] \in racing]_vars

\* A graceful shutdown comes to its end.
ShutdownCompletes == drain = "canceling" ~> closing = "closed"

\* A registration returns, unless the process is shut down meanwhile.
RegistrationReturns ==
    \A t \in Topic : registering[t] = "waiting" ~> registering[t] # "waiting" \/ canceled
=============================================================================
