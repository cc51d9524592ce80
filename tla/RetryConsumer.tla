--------------------------- MODULE RetryConsumer ---------------------------
(***************************************************************************)
(* One work queue, the consume callback that serves it and the error       *)
(* handler that callback ends in: the bounded retry policy of              *)
(* amqp/retry-policy.ts or a legacy behaviour of amqp/errorBehaviors.ts.   *)
(*                                                                         *)
(* The callback is JavaScript: it runs to its next await without           *)
(* interruption, so an action below is the code between two awaits.  Runs  *)
(* of the callback overlap (prefetch), and a run outlives the channel its  *)
(* message came from: the broker requeues the message when the channel     *)
(* dies, while the run goes on and finds out only when it acks.            *)
(*                                                                         *)
(* RabbitMQ and amqp-connection-manager are external.  Taken from how the  *)
(* code uses them: publish resolves on the broker's confirm, an            *)
(* unconfirmed publish is sent again after a reconnect, setup functions    *)
(* run again on every reconnect, a publish the default exchange cannot     *)
(* route is confirmed and forgotten.                                       *)
(***************************************************************************)
EXTENDS Naturals

CONSTANTS
    Msg,              \* messages that producers publish to the work queue
    Copy,             \* names for the instances of them the broker holds at a time
    Slot,             \* runs of the consume callback in progress at a time
    NoCopy,           \* the copy of an idle slot
    NoMsg,            \* the message of an idle slot or of a free copy name
    Policy,           \* "retry", or a legacy behaviour "ACK", "NACK", "REQUEUE"
    MaxAttempts,      \* policy.maxAttempts
    Delayed,          \* policy.delayMs > 0
    DeadLetter,       \* onExhausted = 'dead-letter' with a deadLetter.exchange
    DlxDeclared,      \* that exchange exists on the broker
    Rpc,              \* the consumer was made by createRpc, not createSubscriber
    QueueNameMatches, \* the name of the queue matches the consumer's routing key
    Misaddressed,     \* messages that came under another key the queue is bound to
    WantsReply,       \* messages with replyTo and correlationId
    Malformed,        \* messages whose content does not deserialize
    Expiring,         \* messages published with an expiration (RPC requests)
    Outcomes,         \* what a handler may do: "ok", "throw", "requeue", "reject"
    QueueMayExpire,   \* the run is longer than the wait-queue's expires argument
    MaxLosses,        \* bound: connections lost
    MaxRefusals       \* bound: publishes that the broker refuses

ASSUME ConstantsAssumption ==
    /\ NoCopy \notin Copy /\ NoMsg \notin Msg
    /\ Policy \in {"retry", "ACK", "NACK", "REQUEUE"}
    /\ MaxAttempts \in Nat \ {0} /\ MaxLosses \in Nat /\ MaxRefusals \in Nat
    /\ {Delayed, DeadLetter, DlxDeclared, Rpc, QueueNameMatches, QueueMayExpire}
         \subseteq BOOLEAN
    /\ Misaddressed \subseteq Msg
    /\ WantsReply \subseteq Msg /\ Malformed \subseteq Msg /\ Expiring \subseteq Msg
    /\ Outcomes \subseteq {"ok", "throw", "requeue", "reject"}

VARIABLES
    place,      \* where the broker keeps a copy
    body,       \* what it is a copy of: message, x-retry-count, routing key
    waitq,      \* the TTL wait-queue exists on the broker
    asserted,   \* assertedRetryWaitQueues holds its name
    pc,         \* the await a run of the callback is at
    live,       \* the channel of the run's message is still open
    on,         \* the copy it was handed
    work,       \* the content of that copy
    accepted,   \* history: messages producers had confirmed
    fate,       \* history: how the copies of a message were settled
    reply,      \* history: the first reply sent for a message
    runs,       \* history: handler executions, counted up to MaxAttempts
    losses,     \* connections lost so far
    refusals    \* publishes refused so far

broker == <<place, body, waitq>>
tasks == <<pc, live, on, work>>
history == <<accepted, fate, reply, runs>>
faults == <<losses, refusals>>
vars == <<broker, asserted, tasks, history, faults>>

Place == {"free", "ready", "unacked", "wait"}
Await == {"idle", "received", "handling", "replying", "asserting", "republishing",
          "republished", "errorReplying", "deadLettering", "deadLettered"}
\* "own" is the key the producer used, "queue" the name of the work queue.
Body == [m : Msg \cup {NoMsg}, n : 0 .. MaxAttempts - 1, key : {"own", "queue"}]
Fate == {"handled", "rejected", "misrouted", "dropped", "dead", "expired", "discarded"}
Blank == [m |-> NoMsg, n |-> 0, key |-> "own"]

Init ==
    /\ place = [c \in Copy |-> "free"]
    /\ body = [c \in Copy |-> Blank]
    /\ waitq = FALSE
    /\ asserted = FALSE
    /\ pc = [s \in Slot |-> "idle"]
    /\ live = [s \in Slot |-> FALSE]
    /\ on = [s \in Slot |-> NoCopy]
    /\ work = [s \in Slot |-> Blank]
    /\ accepted = {}
    /\ fate = [m \in Msg |-> {}]
    /\ reply = [m \in Msg |-> "none"]
    /\ runs = [m \in Msg |-> 0]
    /\ losses = 0
    /\ refusals = 0

-----------------------------------------------------------------------------
(* Pieces of the consume callback. *)

\* The run of slot s ends.
Finish(s) ==
    /\ pc' = [pc EXCEPT ![s] = "idle"]
    /\ live' = [live EXCEPT ![s] = FALSE]
    /\ on' = [on EXCEPT ![s] = NoCopy]
    /\ work' = [work EXCEPT ![s] = Blank]

\* It goes on to its next await.
GoTo(s, await) ==
    /\ pc' = [pc EXCEPT ![s] = await]
    /\ UNCHANGED <<live, on, work>>

\* The run's last call is an ack, or a nack without requeue, that settles the
\* message as f.  On a dead channel the call throws and is logged, or is
\* written to a socket nobody reads: the broker has requeued the message.
Settle(s, f) ==
    /\ Finish(s)
    /\ IF live[s]
       THEN /\ place' = [place EXCEPT ![on[s]] = "free"]
            /\ body' = [body EXCEPT ![on[s]] = Blank]
            /\ fate' = [fate EXCEPT ![work[s].m] = @ \cup f]
       ELSE UNCHANGED <<place, body, fate>>

\* channel.nack(msg, false, true)
NackRequeue(s) ==
    /\ Finish(s)
    /\ IF live[s] THEN place' = [place EXCEPT ![on[s]] = "ready"] ELSE UNCHANGED place
    /\ UNCHANGED <<body, fate>>

\* Mutant: the counter is compared without the attempt that just failed.
Exhausted_offByOne(b, retriable) == ~(retriable /\ b.n + 2 < MaxAttempts)

\* Mutant: maxAttempts is not looked at.
Exhausted_never(b, retriable) == ~retriable

\* Attempt n + 1 has failed: is there none left for the message?
Exhausted(b, retriable) == ~(retriable /\ b.n + 1 < MaxAttempts)

\* Mutant: the copy keeps the counter of the original.
retryProperties_keepsCount(b) == [m |-> b.m, n |-> b.n, key |-> "queue"]

\* The copy a failed message is re-published as: one more attempt on its
\* counter, and the default exchange's routing key, the name of the queue.
retryProperties(b) == [m |-> b.m, n |-> b.n + 1, key |-> "queue"]

\* A copy keeps the expiration of the request unless it goes through the
\* wait-queue.
HasExpiration(b) == b.m \in Expiring /\ (b.n = 0 \/ ~Delayed)

\* Up to the first await: the wait-queue's declaration for the first caller
\* of assertRetryWaitQueue, the publish for every other one.  The broker takes
\* the declaration before any later publish of the same channel, and gets it
\* again first thing after a reconnect.
scheduleRetry(s) ==
    /\ IF Delayed /\ ~asserted
       THEN GoTo(s, "asserting") /\ asserted' = TRUE /\ waitq' = TRUE
       ELSE GoTo(s, "republishing") /\ UNCHANGED <<asserted, waitq>>
    /\ UNCHANGED <<place, body, fate>>

exhaust(s) ==
    /\ IF DeadLetter
       THEN GoTo(s, "deadLettering") /\ UNCHANGED <<place, body, fate>>
       ELSE Settle(s, {"dropped"})
    /\ UNCHANGED <<asserted, waitq>>

\* Mutant: an exhausted request is given up without telling its caller.
replyErrorToRpcCaller_silent(s) == exhaust(s)

replyErrorToRpcCaller(s) ==
    IF work[s].m \in WantsReply
    THEN GoTo(s, "errorReplying") /\ UNCHANGED <<place, body, fate, asserted, waitq>>
    ELSE exhaust(s)

\* createRetryErrorHandler, up to its first await
retryErrorHandler(s, retriable) ==
    IF Exhausted(work[s], retriable) THEN replyErrorToRpcCaller(s) ELSE scheduleRetry(s)

legacyErrorHandler(s) ==
    /\ CASE Policy = "ACK"     -> Settle(s, {"discarded"})
         [] Policy = "REQUEUE" -> NackRequeue(s)
         [] OTHER              -> Settle(s, {"rejected"})
    /\ UNCHANGED <<asserted, waitq>>

errorHandler(s, retriable) ==
    IF Policy = "retry" THEN retryErrorHandler(s, retriable) ELSE legacyErrorHandler(s)

\* channel.ack(msg) at the end of the callback proper.  On a dead channel it
\* may throw, and the throw is caught as if the handler had failed.
AckHandled(s) ==
    \/ Settle(s, {"handled"}) /\ UNCHANGED <<asserted, waitq>>
    \/ ~live[s] /\ errorHandler(s, TRUE)

-----------------------------------------------------------------------------
(* The broker and the producers. *)

\* A producer's publish is confirmed.
Publish(m) ==
    /\ m \notin accepted
    /\ \E c \in Copy :
         /\ place[c] = "free"
         /\ place' = [place EXCEPT ![c] = "ready"]
         /\ body' = [body EXCEPT ![c] = [m |-> m, n |-> 0, key |-> "own"]]
    /\ accepted' = accepted \cup {m}
    /\ UNCHANGED <<waitq, asserted, tasks, fate, reply, runs, faults>>

Deliver(s, c) ==
    /\ pc[s] = "idle"
    /\ place[c] = "ready"
    /\ place' = [place EXCEPT ![c] = "unacked"]
    /\ pc' = [pc EXCEPT ![s] = "received"]
    /\ live' = [live EXCEPT ![s] = TRUE]
    /\ on' = [on EXCEPT ![s] = c]
    /\ work' = [work EXCEPT ![s] = body[c]]
    /\ UNCHANGED <<body, waitq, asserted, history, faults>>

\* The TTL of the wait-queue dead-letters a copy back to the work queue.
DelayElapses(c) ==
    /\ place[c] = "wait"
    /\ place' = [place EXCEPT ![c] = "ready"]
    /\ UNCHANGED <<body, waitq, asserted, tasks, history, faults>>

\* The broker drops a request that is older than its expiration.
MessageExpires(c) ==
    /\ place[c] = "ready"
    /\ HasExpiration(body[c])
    /\ place' = [place EXCEPT ![c] = "free"]
    /\ body' = [body EXCEPT ![c] = Blank]
    /\ fate' = [fate EXCEPT ![body[c].m] = @ \cup {"expired"}]
    /\ UNCHANGED <<waitq, asserted, tasks, accepted, reply, runs, faults>>

\* The wait-queue has no consumer and is declared once per connection, so it
\* goes unused for delayMs + 60 s however many copies pass through it: the
\* broker deletes it with the copies in it.
WaitQueueExpires ==
    /\ QueueMayExpire
    /\ waitq
    /\ waitq' = FALSE
    /\ place' = [c \in Copy |-> IF place[c] = "wait" THEN "free" ELSE place[c]]
    /\ body' = [c \in Copy |-> IF place[c] = "wait" THEN Blank ELSE body[c]]
    /\ UNCHANGED <<asserted, tasks, history, faults>>

\* The connection is lost and made again.  Unacked messages are requeued, the
\* wait-queue is declared again, publishes without a confirm are sent again,
\* runs that had not begun never begin.
ConnectionLost ==
    /\ losses < MaxLosses
    /\ losses' = losses + 1
    /\ place' = [c \in Copy |-> IF place[c] = "unacked" THEN "ready" ELSE place[c]]
    /\ waitq' = (waitq \/ asserted)
    /\ pc' = [s \in Slot |-> CASE pc[s] = "received"     -> "idle"
                               [] pc[s] = "republished"  -> "republishing"
                               [] pc[s] = "deadLettered" -> "deadLettering"
                               [] OTHER                  -> pc[s]]
    /\ live' = [s \in Slot |-> FALSE]
    /\ on' = [s \in Slot |-> IF pc[s] = "received" THEN NoCopy ELSE on[s]]
    /\ work' = [s \in Slot |-> IF pc[s] = "received" THEN Blank ELSE work[s]]
    /\ UNCHANGED <<body, asserted, history, refusals>>

-----------------------------------------------------------------------------
(* The consume callback, one action for each stretch between awaits. *)

\* setupRpcChannel nacks a message whose routing key is not the consumer's.
MatchesRoutingKey(b) ==
    Rpc => IF b.key = "own" THEN b.m \notin Misaddressed ELSE QueueNameMatches

RejectMisrouted(s) ==
    /\ pc[s] = "received"
    /\ ~MatchesRoutingKey(work[s])
    /\ Settle(s, {"misrouted"})
    /\ UNCHANGED <<waitq, asserted, accepted, reply, runs, faults>>

\* tryDeserializeMessage throws: no attempt can succeed.
RejectMalformed(s) ==
    /\ pc[s] = "received"
    /\ MatchesRoutingKey(work[s])
    /\ work[s].m \in Malformed
    /\ errorHandler(s, FALSE)
    /\ UNCHANGED <<accepted, reply, runs, faults>>

CallHandler(s) ==
    /\ pc[s] = "received"
    /\ MatchesRoutingKey(work[s])
    /\ work[s].m \notin Malformed
    /\ GoTo(s, "handling")
    /\ runs' = [runs EXCEPT ![work[s].m] = IF @ < MaxAttempts THEN @ + 1 ELSE @]
    /\ UNCHANGED <<broker, asserted, accepted, fate, reply, faults>>

HandlerSucceeds(s) ==
    /\ pc[s] = "handling"
    /\ "ok" \in Outcomes
    /\ IF Rpc /\ work[s].m \in WantsReply
       THEN GoTo(s, "replying") /\ UNCHANGED <<place, body, fate, asserted, waitq>>
       ELSE AckHandled(s)
    /\ UNCHANGED <<accepted, reply, runs, faults>>

HandlerThrows(s) ==
    /\ pc[s] = "handling"
    /\ "throw" \in Outcomes
    /\ errorHandler(s, TRUE)
    /\ UNCHANGED <<accepted, reply, runs, faults>>

\* The handler returns a Nack; the nack throws on a dead channel that is known
\* to be dead, and the throw is caught as a failed attempt.
HandlerNacks(s) ==
    /\ pc[s] = "handling"
    /\ \/ "requeue" \in Outcomes /\ NackRequeue(s) /\ UNCHANGED <<asserted, waitq>>
       \/ "reject" \in Outcomes /\ Settle(s, {"rejected"}) /\ UNCHANGED <<asserted, waitq>>
       \/ Outcomes \cap {"requeue", "reject"} # {} /\ ~live[s] /\ errorHandler(s, TRUE)
    /\ UNCHANGED <<accepted, reply, runs, faults>>

\* The requester takes the first reply with its correlation id.
Answer(m, r) == reply' = [reply EXCEPT ![m] = IF @ = "none" THEN r ELSE @]

ReplyConfirmed(s) ==
    /\ pc[s] = "replying"
    /\ Answer(work[s].m, "result")
    /\ AckHandled(s)
    /\ UNCHANGED <<accepted, runs, faults>>

Refused ==
    /\ refusals < MaxRefusals
    /\ refusals' = refusals + 1
    /\ UNCHANGED losses

ReplyRefused(s) ==
    /\ pc[s] = "replying"
    /\ Refused
    /\ errorHandler(s, TRUE)
    /\ UNCHANGED <<accepted, reply, runs>>

WaitQueueAsserted(s) ==
    /\ pc[s] = "asserting"
    /\ GoTo(s, "republishing")
    /\ UNCHANGED <<broker, asserted, history, faults>>

\* The declaration was on its way when the connection was lost.
AssertFails(s) ==
    /\ pc[s] = "asserting"
    /\ ~live[s]
    /\ NackRequeue(s)
    /\ UNCHANGED <<waitq, asserted, accepted, reply, runs, faults>>

\* The broker takes the copy: to the wait-queue if it exists, else nowhere.
RepublishLands(s) ==
    /\ pc[s] = "republishing"
    /\ IF Delayed /\ ~waitq
       THEN UNCHANGED <<place, body>>
       ELSE \E c \in Copy :
              /\ place[c] = "free"
              /\ place' = [place EXCEPT ![c] = IF Delayed THEN "wait" ELSE "ready"]
              /\ body' = [body EXCEPT ![c] = retryProperties(work[s])]
    /\ GoTo(s, "republished")
    /\ UNCHANGED <<waitq, asserted, history, faults>>

\* Mutant: the original is nacked back to the queue although its copy is there.
RepublishConfirmed_requeues(s) ==
    /\ pc[s] = "republished"
    /\ NackRequeue(s)
    /\ UNCHANGED <<waitq, asserted, accepted, reply, runs, faults>>

\* The confirm arrives and the original is acked.
RepublishConfirmed(s) ==
    /\ pc[s] = "republished"
    /\ Settle(s, {})
    /\ UNCHANGED <<waitq, asserted, accepted, reply, runs, faults>>

\* Mutant: the fallback gives the message up instead of requeueing it.
RepublishRefused_acks(s) ==
    /\ pc[s] = "republishing"
    /\ Refused
    /\ Settle(s, {})
    /\ UNCHANGED <<waitq, asserted, accepted, reply, runs>>

\* The publish rejects: a single nack-requeue.
RepublishRefused(s) ==
    /\ pc[s] = "republishing"
    /\ Refused
    /\ NackRequeue(s)
    /\ UNCHANGED <<waitq, asserted, accepted, reply, runs>>

\* The error reply is confirmed, or refused and logged; the rest is the same.
ErrorReplyConfirmed(s) ==
    /\ pc[s] = "errorReplying"
    /\ Answer(work[s].m, "exhausted")
    /\ exhaust(s)
    /\ UNCHANGED <<accepted, runs, faults>>

ErrorReplyRefused(s) ==
    /\ pc[s] = "errorReplying"
    /\ Refused
    /\ exhaust(s)
    /\ UNCHANGED <<accepted, reply, runs>>

DeadLetterLands(s) ==
    /\ pc[s] = "deadLettering"
    /\ DlxDeclared
    /\ fate' = [fate EXCEPT ![work[s].m] = @ \cup {"dead"}]
    /\ GoTo(s, "deadLettered")
    /\ UNCHANGED <<broker, asserted, accepted, reply, runs, faults>>

DeadLetterConfirmed(s) ==
    /\ pc[s] = "deadLettered"
    /\ Settle(s, {})
    /\ UNCHANGED <<waitq, asserted, accepted, reply, runs, faults>>

\* Refused, or every time when the exchange was never declared.
DeadLetterRefused(s) ==
    /\ pc[s] = "deadLettering"
    /\ IF DlxDeclared THEN Refused ELSE UNCHANGED faults
    /\ NackRequeue(s)
    /\ UNCHANGED <<waitq, asserted, accepted, reply, runs>>

-----------------------------------------------------------------------------
SlotStep(s) ==
    \/ RejectMisrouted(s) \/ RejectMalformed(s) \/ CallHandler(s)
    \/ HandlerSucceeds(s) \/ HandlerThrows(s) \/ HandlerNacks(s)
    \/ ReplyConfirmed(s)
    \/ WaitQueueAsserted(s) \/ AssertFails(s)
    \/ RepublishLands(s) \/ RepublishConfirmed(s)
    \/ ErrorReplyConfirmed(s)
    \/ DeadLetterLands(s) \/ DeadLetterConfirmed(s) \/ DeadLetterRefused(s)

Fault ==
    \/ ConnectionLost
    \/ WaitQueueExpires
    \/ \E s \in Slot : ReplyRefused(s) \/ RepublishRefused(s) \/ ErrorReplyRefused(s)

Next ==
    \/ \E m \in Msg : Publish(m)
    \/ \E s \in Slot, c \in Copy : Deliver(s, c)
    \/ \E c \in Copy : DelayElapses(c) \/ MessageExpires(c)
    \/ \E s \in Slot : SlotStep(s)
    \/ Fault

Spec == Init /\ [][Next]_vars

\* Handlers return, the broker answers and delivers; nothing fails for ever.
Fairness ==
    /\ \A s \in Slot : WF_vars(SlotStep(s))
    /\ \A c \in Copy : SF_vars(\E s \in Slot : Deliver(s, c))
    /\ \A c \in Copy : WF_vars(DelayElapses(c))

FairSpec == Spec /\ Fairness

-----------------------------------------------------------------------------
(* Properties *)

\* The type invariant, with the bound that keeps the retry counter below
\* maxAttempts.
TypeOK ==
    /\ place \in [Copy -> Place]
    /\ body \in [Copy -> Body]
    /\ waitq \in BOOLEAN /\ asserted \in BOOLEAN
    /\ pc \in [Slot -> Await]
    /\ live \in [Slot -> BOOLEAN]
    /\ on \in [Slot -> Copy \cup {NoCopy}]
    /\ work \in [Slot -> Body]
    /\ accepted \subseteq Msg
    /\ fate \in [Msg -> SUBSET Fate]
    /\ reply \in [Msg -> {"none", "result", "exhausted"}]
    /\ runs \in [Msg -> 0 .. MaxAttempts]
    /\ losses \in 0 .. MaxLosses /\ refusals \in 0 .. MaxRefusals

\* How a message may legitimately leave the system: handled, rejected by its
\* handler, or given up by the error handler that was configured for it.
Delivered(m) == fate[m] \ {"misrouted"} # {}

OnBroker(m) == \E c \in Copy : place[c] # "free" /\ body[c].m = m

\* At-least-once delivery.  Whatever is lost, refused or redelivered on the
\* way, a message a producer had confirmed has been settled by its handler or
\* by the policy, or the broker still holds a copy of it ("so the message
\* survives on the broker rather than being lost").
NoLoss == \A m \in accepted : Delivered(m) \/ OnBroker(m)

\* The policy gives a message up, or tells its caller that attempts are
\* exhausted, only after maxAttempts runs of the handler; a message that does
\* not deserialize is never run and never retried.
AttemptsRespected ==
    /\ \A m \in Msg \ Malformed :
         fate[m] \cap {"dropped", "dead"} # {} \/ reply[m] = "exhausted"
           => runs[m] = MaxAttempts
    /\ \A m \in Malformed :
         runs[m] = 0 /\ \A c \in Copy : body[c].m = m => body[c].n = 0

\* While no connection is lost, a message ends in one way only: the copy that
\* supersedes a failed message and the message itself are never both settled.
OneFate ==
    losses = 0 => \A m \in Msg : \A f, g \in fate[m] : f = g

\* Nothing of the message is left: no copy on the broker, no run at work on it.
Settled(m) ==
    /\ \A c \in Copy : body[c].m # m
    /\ \A s \in Slot : work[s].m # m

\* A request that was dealt with has been answered, unless its handler
\* rejected it, its expiration passed, or the broker refused a publish: the
\* caller of a request that exhausts its attempts fails fast.
RpcAnswered ==
    \A m \in accepted \cap WantsReply :
      Settled(m) /\ refusals = 0
        => reply[m] # "none" \/ fate[m] \cap {"rejected", "expired"} # {}

\* A poison message cannot occupy the consumer for ever: every message a
\* producer had confirmed is settled in the end.
EventuallySettled == \A m \in Msg : m \in accepted ~> Settled(m)

-----------------------------------------------------------------------------
(* The inductive invariant behind NoLoss. *)

\* A run whose channel is open works on an unacked copy, and has its content.
LiveRunsOwn ==
    \A s \in Slot : live[s] =>
        /\ pc[s] # "idle"
        /\ on[s] \in Copy
        /\ place[on[s]] = "unacked"
        /\ body[on[s]] = work[s]

\* No two of them work on the same copy.
LiveRunsDiffer ==
    \A s, t \in Slot : live[s] /\ live[t] /\ s # t => on[s] # on[t]

\* Copies and runs are copies and runs of messages.
Contentful ==
    /\ \A c \in Copy : place[c] # "free" => body[c].m \in Msg
    /\ \A s \in Slot : pc[s] # "idle" => work[s].m \in Msg

\* A run on its way to a retry has attempts left.
AttemptsLeft ==
    \A s \in Slot : pc[s] \in {"asserting", "republishing", "republished"} =>
        work[s].n + 1 < MaxAttempts

\* The wait-queue exists when a run publishes to it.
WaitQueueReady ==
    /\ asserted => waitq
    /\ \A s \in Slot : Delayed /\ pc[s] \in {"asserting", "republishing", "republished"}
                        => asserted

\* A copy that is to be acked because it was superseded is outlived by a copy
\* with a larger counter: were the counters not ordered, two runs could each
\* ack the copy the other one relies on.
Superseded ==
    \A s \in Slot : pc[s] = "republished" =>
        \/ Delivered(work[s].m)
        \/ \E c \in Copy : /\ place[c] # "free"
                           /\ body[c].m = work[s].m
                           /\ body[c].n > work[s].n

\* A message is in the dead-letter exchange before its original is acked.
DeadIsKept ==
    \A s \in Slot : pc[s] = "deadLettered" => "dead" \in fate[work[s].m]

\* What holds whatever the broker does, and what holds while it keeps the
\* wait-queue and the consumer accepts its own copies.
TInv == TypeOK /\ LiveRunsOwn /\ LiveRunsDiffer /\ Contentful /\ AttemptsLeft
LInv == WaitQueueReady /\ Superseded /\ DeadIsKept /\ NoLoss

-----------------------------------------------------------------------------
(* The inductive invariants behind the other safety properties.            *)

\* The counter on a copy never runs ahead of the runs of the handler, and has
\* fallen behind by one when an attempt has failed: a copy on its way to be
\* given up has had them all.
CountsRuns ==
    /\ \A c \in Copy : body[c].m \in Msg => body[c].n <= runs[body[c].m]
    /\ \A s \in Slot : work[s].m \in Msg =>
         /\ work[s].n <= runs[work[s].m]
         /\ pc[s] \in {"handling", "replying", "asserting", "republishing", "republished"}
              => work[s].m \notin Malformed /\ work[s].n < runs[work[s].m]
         /\ pc[s] \in {"errorReplying", "deadLettering", "deadLettered"}
              => work[s].m \in Malformed \/ runs[work[s].m] = MaxAttempts

\* A run whose last call will settle a copy that something else has replaced.
Replaced(c) == \E s \in Slot : live[s] /\ on[s] = c /\ pc[s] \in {"republished", "deadLettered"}

\* A copy that can still decide what becomes of its message.
Open(c) == place[c] # "free" /\ ~Replaced(c)

\* Before a connection is lost, every run has its channel, a message has one
\* open copy at most, and none once it has a fate.
OneOpenCopy ==
    losses = 0 =>
        /\ \A s \in Slot : pc[s] # "idle" => live[s]
        /\ \A c \in Copy : place[c] # "free" => body[c].m \in accepted
        /\ \A m \in Msg \ accepted : fate[m] = {}
        /\ \A c \in Copy : Open(c) => fate[body[c].m] = {}
        /\ \A c, d \in Copy : Open(c) /\ Open(d) /\ body[c].m = body[d].m => c = d

\* A retrying RPC consumer has answered before it lets go of a request, unless
\* the handler rejected it or the broker dropped it.
AnsweredFirst ==
    refusals = 0 =>
        /\ \A m \in Msg : "discarded" \notin fate[m]
        /\ \A m \in WantsReply :
             fate[m] \cap {"handled", "dropped", "dead"} # {} => reply[m] # "none"
        /\ \A s \in Slot : pc[s] \in {"deadLettering", "deadLettered"} /\ work[s].m \in WantsReply
             => reply[work[s].m] # "none"
=============================================================================
