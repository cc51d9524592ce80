----------------------- MODULE ConsumerLifecycleProofs -----------------------
(***************************************************************************)
(* Subscriptions through reconnects and a graceful shutdown, for any       *)
(* topics, messages and number of connections lost: what is served has its *)
(* handler, what survives the drain had been overtaken by it, and close    *)
(* waits for what is still being processed.                                *)
(***************************************************************************)
EXTENDS ConsumerLifecycle, TLAPS

SettingState == {"idle", "declaring", "consuming"}

LifecycleTypes ==
    /\ epoch \in Nat
    /\ installed \subseteq Topic /\ serving \subseteq Topic
    /\ setting \in [Topic -> SettingState]
    /\ registering \in [Topic -> {"no", "waiting", "refused", "done"}]
    /\ runs \subseteq [m : Msg, epoch : Nat, handled : BOOLEAN]

\* What a subscription has come to, the code or the broker knows: a topic is
\* served while its setup function waits for the broker's answer, and then by
\* the tag it left on the present channel.
Subscriptions ==
    /\ ~up => serving = {} /\ \A t \in Topic : setting[t] = "idle"
    /\ serving \subseteq installed
    /\ \A t \in installed : registering[t] \in {"waiting", "done"}
    /\ \A t \in Topic : setting[t] # "idle" => t \in installed
    /\ \A t \in serving : setting[t] = "consuming" \/ [topic |-> t, epoch |-> epoch] \in tags

\* What the drain has not overtaken it cancels, and no other setup runs on.
Drained ==
    /\ canceled <=> drain # "no"
    /\ canceled => \A t \in Topic : setting[t] # "idle" => t \in racing
    /\ drain = "canceling" =>
         \A t \in serving \ racing : [topic |-> t, epoch |-> epoch] \in canceling
    /\ drain = "cleared" => serving \subseteq racing
    /\ closing # "no" => drain = "cleared"

\* A subscription has its handler until the handlers are cleared.
Handled ==
    \A t \in installed : registering[t] = "waiting" \/ t \in registry \/ drain = "cleared"

\* Whatever started after close had begun to wait was overtaken by the drain.
Waited ==
    /\ \A r \in runs : r.epoch <= epoch
    /\ closing = "waiting" =>
         \A r \in runs : r.epoch = epoch => r \in awaited \/ TopicOf[r.m] \in racing

\* The inductive invariant.
LifecycleInv == LifecycleTypes /\ Subscriptions /\ Drained /\ Handled /\ Waited

-----------------------------------------------------------------------------
LEMMA InitLifecycle == Init => LifecycleInv
BY DEF Init, LifecycleInv, LifecycleTypes, Subscriptions, Drained, Handled, Waited, SettingState

LEMMA NextLifecycle == LifecycleInv /\ [Next]_vars => LifecycleInv'
<1> SUFFICES ASSUME LifecycleInv, [Next]_vars PROVE LifecycleInv'
  OBVIOUS
<1> USE LifecycleAssumption DEF LifecycleInv, setups, handlers, shutdown, connection
<1>1. ASSUME NEW t \in Topic, Register(t) PROVE LifecycleInv'
  <2>1. LifecycleTypes'
    BY <1>1 DEF Register, RegisterRefused, Subscribe, LifecycleTypes, SettingState
  <2>2. Subscriptions'
    BY <1>1 DEF Register, RegisterRefused, Subscribe, LifecycleTypes, SettingState, Subscriptions
  <2>3. Drained'
    BY <1>1 DEF Register, RegisterRefused, Subscribe, LifecycleTypes, SettingState, Subscriptions, Drained
  <2>4. Handled'
    BY <1>1 DEF Register, RegisterRefused, Subscribe, LifecycleTypes, SettingState, Handled
  <2>5. Waited'
    BY <1>1 DEF Register, RegisterRefused, Subscribe, LifecycleTypes, SettingState, Subscriptions, Drained, Waited
  <2> QED BY <2>1, <2>2, <2>3, <2>4, <2>5
<1>2. ASSUME NEW t \in Topic, ConsumeAccepted(t) PROVE LifecycleInv'
  <2>1. LifecycleTypes'
    BY <1>2 DEF ConsumeAccepted, LifecycleTypes, SettingState
  <2>2. Subscriptions'
    BY <1>2 DEF ConsumeAccepted, LifecycleTypes, SettingState, Subscriptions
  <2>3. Drained'
    BY <1>2 DEF ConsumeAccepted, LifecycleTypes, SettingState, Subscriptions, Drained
  <2>4. Handled'
    BY <1>2 DEF ConsumeAccepted, LifecycleTypes, SettingState, Handled
  <2>5. Waited'
    BY <1>2 DEF ConsumeAccepted, LifecycleTypes, SettingState, Subscriptions, Drained, Waited
  <2> QED BY <2>1, <2>2, <2>3, <2>4, <2>5
<1>3. ASSUME NEW t \in Topic, ConsumeOk(t) PROVE LifecycleInv'
  <2>1. LifecycleTypes'
    BY <1>3 DEF ConsumeOk, LifecycleTypes, SettingState
  <2>2. Subscriptions'
    BY <1>3 DEF ConsumeOk, LifecycleTypes, SettingState, Subscriptions
  <2>3. Drained'
    BY <1>3 DEF ConsumeOk, LifecycleTypes, SettingState, Subscriptions, Drained
  <2>4. Handled'
    BY <1>3 DEF ConsumeOk, LifecycleTypes, SettingState, Handled
  <2>5. Waited'
    BY <1>3 DEF ConsumeOk, LifecycleTypes, SettingState, Subscriptions, Drained, Waited
  <2> QED BY <2>1, <2>2, <2>3, <2>4, <2>5
<1>4. ASSUME NEW m \in Msg, Deliver(m) PROVE LifecycleInv'
  <2>1. LifecycleTypes'
    <3>1. [m |-> m, epoch |-> epoch, handled |-> TopicOf[m] \in registry]
            \in [m : Msg, epoch : Nat, handled : BOOLEAN]
      BY DEF LifecycleTypes
    <3> QED BY <1>4, <3>1 DEF Deliver, LifecycleTypes
  <2>2. Subscriptions'
    BY <1>4 DEF Deliver, LifecycleTypes, SettingState, Subscriptions
  <2>3. Drained'
    BY <1>4 DEF Deliver, LifecycleTypes, SettingState, Subscriptions, Drained
  <2>4. Handled'
    BY <1>4 DEF Deliver, LifecycleTypes, SettingState, Handled
  <2>5. Waited'
    BY <1>4 DEF Deliver, LifecycleTypes, SettingState, Subscriptions, Drained, Waited
  <2> QED BY <2>1, <2>2, <2>3, <2>4, <2>5
<1>5. ASSUME NEW r \in runs, FinishRun(r) PROVE LifecycleInv'
  <2>1. LifecycleTypes'
    BY <1>5 DEF FinishRun, LifecycleTypes, SettingState
  <2>2. Subscriptions'
    BY <1>5 DEF FinishRun, LifecycleTypes, SettingState, Subscriptions
  <2>3. Drained'
    BY <1>5 DEF FinishRun, LifecycleTypes, SettingState, Subscriptions, Drained
  <2>4. Handled'
    BY <1>5 DEF FinishRun, LifecycleTypes, SettingState, Handled
  <2>5. Waited'
    BY <1>5 DEF FinishRun, LifecycleTypes, SettingState, Subscriptions, Drained, Waited
  <2> QED BY <2>1, <2>2, <2>3, <2>4, <2>5
<1>6. CASE ConnectionLost
  <2>1. LifecycleTypes'
    BY <1>6 DEF ConnectionLost, LifecycleTypes, SettingState
  <2>2. Subscriptions'
    BY <1>6 DEF ConnectionLost, LifecycleTypes, SettingState, Subscriptions
  <2>3. Drained'
    BY <1>6 DEF ConnectionLost, LifecycleTypes, SettingState, Subscriptions, Drained
  <2>4. Handled'
    BY <1>6 DEF ConnectionLost, LifecycleTypes, SettingState, Handled
  <2>5. Waited'
    BY <1>6 DEF ConnectionLost, LifecycleTypes, SettingState, Subscriptions, Drained, Waited
  <2> QED BY <2>1, <2>2, <2>3, <2>4, <2>5
<1>7. CASE Reconnect
  <2>1. LifecycleTypes'
    BY <1>7 DEF Reconnect, SetupsToRun, LifecycleTypes, SettingState
  <2>2. Subscriptions'
    BY <1>7 DEF Reconnect, SetupsToRun, LifecycleTypes, SettingState, Subscriptions
  <2>3. Drained'
    BY <1>7 DEF Reconnect, SetupsToRun, LifecycleTypes, SettingState, Subscriptions, Drained
  <2>4. Handled'
    BY <1>7 DEF Reconnect, SetupsToRun, LifecycleTypes, SettingState, Handled
  <2>5. Waited'
    BY <1>7 DEF Reconnect, SetupsToRun, LifecycleTypes, SettingState, Subscriptions, Drained, Waited
  <2> QED BY <2>1, <2>2, <2>3, <2>4, <2>5
<1>8. CASE UnregisterAll
  <2>1. LifecycleTypes'
    BY <1>8 DEF UnregisterAll, cancelAllConsumers, LifecycleTypes, SettingState
  <2>2. Subscriptions'
    BY <1>8 DEF UnregisterAll, cancelAllConsumers, LifecycleTypes, SettingState, Subscriptions
  <2>3. Drained'
    BY <1>8 DEF UnregisterAll, cancelAllConsumers, LifecycleTypes, SettingState, Subscriptions, Drained
  <2>4. Handled'
    BY <1>8 DEF UnregisterAll, cancelAllConsumers, LifecycleTypes, SettingState, Handled
  <2>5. Waited'
    BY <1>8 DEF UnregisterAll, cancelAllConsumers, LifecycleTypes, SettingState, Subscriptions, Drained, Waited
  <2> QED BY <2>1, <2>2, <2>3, <2>4, <2>5
<1>9. CASE Clear
  <2>1. LifecycleTypes'
    BY <1>9 DEF Clear, LifecycleTypes, SettingState
  <2>2. Subscriptions'
    BY <1>9 DEF Clear, LifecycleTypes, SettingState, Subscriptions
  <2>3. Drained'
    BY <1>9 DEF Clear, LifecycleTypes, SettingState, Subscriptions, Drained
  <2>4. Handled'
    BY <1>9 DEF Clear, LifecycleTypes, SettingState, Handled
  <2>5. Waited'
    BY <1>9 DEF Clear, LifecycleTypes, SettingState, Subscriptions, Drained, Waited
  <2> QED BY <2>1, <2>2, <2>3, <2>4, <2>5
<1>10. CASE Close
  <2>1. LifecycleTypes'
    BY <1>10 DEF Close, cancelAllConsumers, LifecycleTypes, SettingState
  <2>2. Subscriptions'
    BY <1>10 DEF Close, cancelAllConsumers, LifecycleTypes, SettingState, Subscriptions
  <2>3. Drained'
    BY <1>10 DEF Close, cancelAllConsumers, LifecycleTypes, SettingState, Subscriptions, Drained
  <2>4. Handled'
    BY <1>10 DEF Close, cancelAllConsumers, LifecycleTypes, SettingState, Handled
  <2>5. Waited'
    BY <1>10 DEF Close, cancelAllConsumers, LifecycleTypes, SettingState, Subscriptions, Drained, Waited
  <2> QED BY <2>1, <2>2, <2>3, <2>4, <2>5
<1>11. CASE CloseWaits
  <2>1. LifecycleTypes'
    BY <1>11 DEF CloseWaits, LifecycleTypes, SettingState
  <2>2. Subscriptions'
    BY <1>11 DEF CloseWaits, LifecycleTypes, SettingState, Subscriptions
  <2>3. Drained'
    BY <1>11 DEF CloseWaits, LifecycleTypes, SettingState, Subscriptions, Drained
  <2>4. Handled'
    BY <1>11 DEF CloseWaits, LifecycleTypes, SettingState, Handled
  <2>5. Waited'
    BY <1>11 DEF CloseWaits, LifecycleTypes, SettingState, Subscriptions, Drained, Waited
  <2> QED BY <2>1, <2>2, <2>3, <2>4, <2>5
<1>12. CASE CloseConnection
  <2>1. LifecycleTypes'
    BY <1>12 DEF CloseConnection, LifecycleTypes, SettingState
  <2>2. Subscriptions'
    BY <1>12 DEF CloseConnection, LifecycleTypes, SettingState, Subscriptions
  <2>3. Drained'
    BY <1>12 DEF CloseConnection, LifecycleTypes, SettingState, Subscriptions, Drained
  <2>4. Handled'
    BY <1>12 DEF CloseConnection, LifecycleTypes, SettingState, Handled
  <2>5. Waited'
    BY <1>12 DEF CloseConnection, LifecycleTypes, SettingState, Subscriptions, Drained, Waited
  <2> QED BY <2>1, <2>2, <2>3, <2>4, <2>5
<1>13. ASSUME NEW x \in tags, CancelConsumer(x) PROVE LifecycleInv'
  <2>1. LifecycleTypes'
    BY <1>13 DEF CancelConsumer, LifecycleTypes, SettingState
  <2>2. Subscriptions'
    BY <1>13 DEF CancelConsumer, LifecycleTypes, SettingState, Subscriptions
  <2>3. Drained'
    BY <1>13 DEF CancelConsumer, LifecycleTypes, SettingState, Subscriptions, Drained
  <2>4. Handled'
    BY <1>13 DEF CancelConsumer, LifecycleTypes, SettingState, Handled
  <2>5. Waited'
    BY <1>13 DEF CancelConsumer, LifecycleTypes, SettingState, Subscriptions, Drained, Waited
  <2> QED BY <2>1, <2>2, <2>3, <2>4, <2>5
<1>14. CASE UNCHANGED vars
  BY <1>14 DEF vars, LifecycleTypes, Subscriptions, Drained, Handled, Waited
<1> QED BY <1>1, <1>2, <1>3, <1>4, <1>5, <1>6, <1>7, <1>8, <1>9, <1>10, <1>11, <1>12, <1>13, <1>14
     DEF Next, Setup

-----------------------------------------------------------------------------
\* An instance does not consume what it has no handler for: neither after a
\* reconnect nor while it drains (broker.service.ts: unregisterAll cancels the
\* consumers before it clears the registry).
THEOREM HandlersServe == Spec => []ServedByHandler
<1>1. Init => LifecycleInv
  BY InitLifecycle
<1>2. LifecycleInv /\ [Next]_vars => LifecycleInv'
  BY NextLifecycle
<1>3. LifecycleInv => ServedByHandler
  BY DEF LifecycleInv, Subscriptions, Drained, Handled, ServedByHandler
<1> QED BY <1>1, <1>2, <1>3, PTL DEF Spec

\* Once unregisterAll has returned, a topic is consumed only if its setup was
\* under way when the latch was closed, however often the connection is lost.
THEOREM DrainStopsTheRest == Spec => []OnlyRacingSetupsSurvive
<1>1. Init => LifecycleInv
  BY InitLifecycle
<1>2. LifecycleInv /\ [Next]_vars => LifecycleInv'
  BY NextLifecycle
<1>3. LifecycleInv => OnlyRacingSetupsSurvive
  BY DEF LifecycleInv, Drained, OnlyRacingSetupsSurvive
<1> QED BY <1>1, <1>2, <1>3, PTL DEF Spec

\* close cancels, then waits for the messages being processed, then closes: no
\* handler is cut off but those of a subscription the drain overtook.
THEOREM CloseWaitsForHandlers == Spec => CloseIsClean
<1>1. Init => LifecycleInv
  BY InitLifecycle
<1>2. LifecycleInv /\ [Next]_vars => LifecycleInv'
  BY NextLifecycle
<1>3. LifecycleInv /\ [Next]_vars =>
        [closing = "waiting" /\ closing' = "closed" =>
           \A r \in runs : r.epoch = epoch => TopicOf[r.m] \in racing]_vars
  <2> SUFFICES ASSUME LifecycleInv, Next, closing = "waiting", closing' = "closed"
               PROVE  \A r \in runs : r.epoch = epoch => TopicOf[r.m] \in racing
    OBVIOUS
  <2>1. awaited = {}
    BY DEF Next, Register, Setup, ConsumeAccepted, ConsumeOk, Deliver, FinishRun, ConnectionLost,
           Reconnect, UnregisterAll, Clear, Close, CloseWaits, CloseConnection, CancelConsumer,
           shutdown
  <2> QED BY <2>1 DEF LifecycleInv, Waited
<1> QED BY <1>1, <1>2, <1>3, PTL DEF Spec, CloseIsClean

=============================================================================
