------------------------ MODULE RetryConsumerProofs ------------------------
(***************************************************************************)
(* Proofs about RetryConsumer, for every set of messages, copies and       *)
(* callback runs, every policy and every number of faults.                 *)
(***************************************************************************)
EXTENDS RetryConsumer, TLAPS

USE ConstantsAssumption

\* The variables the pieces of the callback change, and those they do not.
TypeCore ==
    /\ place \in [Copy -> Place]
    /\ body \in [Copy -> Body]
    /\ waitq \in BOOLEAN /\ asserted \in BOOLEAN
    /\ pc \in [Slot -> Await]
    /\ live \in [Slot -> BOOLEAN]
    /\ on \in [Slot -> Copy \cup {NoCopy}]
    /\ work \in [Slot -> Body]
    /\ accepted \subseteq Msg
    /\ fate \in [Msg -> SUBSET Fate]

TypeHistory ==
    /\ reply \in [Msg -> {"none", "result", "exhausted"}]
    /\ runs \in [Msg -> 0 .. MaxAttempts]
    /\ losses \in 0 .. MaxLosses /\ refusals \in 0 .. MaxRefusals

TCore == TypeCore /\ LiveRunsOwn /\ LiveRunsDiffer /\ Contentful /\ AttemptsLeft

LEMMA TInvSplits == TInv <=> TCore /\ TypeHistory
BY DEF TInv, TCore, TypeOK, TypeCore, TypeHistory

LEMMA BlankIsBody == Blank \in Body
BY DEF Blank, Body

LEMMA RetryCopyIsBody ==
    ASSUME NEW b \in Body, b.n + 1 < MaxAttempts
    PROVE  /\ retryProperties(b) \in Body
           /\ retryProperties(b).m = b.m
           /\ retryProperties(b).n = b.n + 1
<1>1. b.n + 1 \in 0 .. MaxAttempts - 1
  BY DEF Body
<1> QED BY <1>1 DEF Body, retryProperties

LEMMA SettleKeepsTCore ==
    ASSUME TCore, NEW s \in Slot, pc[s] # "idle", NEW f \in SUBSET Fate, Settle(s, f),
           UNCHANGED <<waitq, asserted, accepted>>
    PROVE  TCore'
<1>1. TypeCore'
  BY BlankIsBody DEF TCore, TypeCore, Settle, Finish, LiveRunsOwn, Contentful, Place, Await
<1>2. LiveRunsOwn'
  BY DEF TCore, TypeCore, Settle, Finish, LiveRunsOwn, LiveRunsDiffer
<1>3. LiveRunsDiffer'
  BY DEF TCore, TypeCore, Settle, Finish, LiveRunsDiffer
<1>4. Contentful'
  BY DEF TCore, TypeCore, Settle, Finish, Contentful, LiveRunsOwn
<1>5. AttemptsLeft'
  BY DEF TCore, TypeCore, Settle, Finish, AttemptsLeft
<1> QED BY <1>1, <1>2, <1>3, <1>4, <1>5 DEF TCore

LEMMA NackRequeueKeepsTCore ==
    ASSUME TCore, NEW s \in Slot, pc[s] # "idle", NackRequeue(s),
           UNCHANGED <<waitq, asserted, accepted>>
    PROVE  TCore'
<1>1. TypeCore'
  BY BlankIsBody DEF TCore, TypeCore, NackRequeue, Finish, LiveRunsOwn, Place, Await
<1>2. LiveRunsOwn'
  BY DEF TCore, TypeCore, NackRequeue, Finish, LiveRunsOwn, LiveRunsDiffer
<1>3. LiveRunsDiffer'
  BY DEF TCore, TypeCore, NackRequeue, Finish, LiveRunsDiffer
<1>4. Contentful'
  BY DEF TCore, TypeCore, NackRequeue, Finish, Contentful, LiveRunsOwn
<1>5. AttemptsLeft'
  BY DEF TCore, TypeCore, NackRequeue, Finish, AttemptsLeft
<1> QED BY <1>1, <1>2, <1>3, <1>4, <1>5 DEF TCore

LEMMA GoToKeepsTCore ==
    ASSUME TCore, NEW s \in Slot, pc[s] # "idle", NEW a \in Await \ {"idle"}, GoTo(s, a),
           a \in {"asserting", "republishing", "republished"} => work[s].n + 1 < MaxAttempts,
           UNCHANGED <<place, body, accepted, fate>>, waitq' \in BOOLEAN, asserted' \in BOOLEAN
    PROVE  TCore'
<1>1. TypeCore'
  BY DEF TCore, TypeCore, GoTo
<1>2. LiveRunsOwn' /\ LiveRunsDiffer' /\ Contentful'
  BY DEF TCore, TypeCore, GoTo, LiveRunsOwn, LiveRunsDiffer, Contentful
<1>3. AttemptsLeft'
  BY DEF TCore, TypeCore, GoTo, AttemptsLeft
<1> QED BY <1>1, <1>2, <1>3 DEF TCore

LEMMA ScheduleRetryKeepsTCore ==
    ASSUME TCore, NEW s \in Slot, pc[s] # "idle", scheduleRetry(s),
           work[s].n + 1 < MaxAttempts, UNCHANGED accepted
    PROVE  TCore'
<1>1. CASE Delayed /\ ~asserted
  <2>1. GoTo(s, "asserting") /\ asserted' \in BOOLEAN /\ waitq' \in BOOLEAN
    BY <1>1 DEF scheduleRetry
  <2> QED BY <2>1, GoToKeepsTCore DEF scheduleRetry, Await
<1>2. CASE ~(Delayed /\ ~asserted)
  <2>1. GoTo(s, "republishing") /\ asserted' \in BOOLEAN /\ waitq' \in BOOLEAN
    BY <1>2 DEF scheduleRetry, TCore, TypeCore
  <2> QED BY <2>1, GoToKeepsTCore DEF scheduleRetry, Await
<1> QED BY <1>1, <1>2

LEMMA ExhaustKeepsTCore ==
    ASSUME TCore, NEW s \in Slot, pc[s] # "idle", exhaust(s), UNCHANGED accepted
    PROVE  TCore'
<1>1. CASE DeadLetter
  <2>1. GoTo(s, "deadLettering") /\ asserted' \in BOOLEAN /\ waitq' \in BOOLEAN
    BY <1>1 DEF exhaust, TCore, TypeCore
  <2> QED BY <1>1, <2>1, GoToKeepsTCore DEF exhaust, Await
<1>2. CASE ~DeadLetter
  BY <1>2, SettleKeepsTCore DEF exhaust, Fate
<1> QED BY <1>1, <1>2

LEMMA ErrorHandlerKeepsTCore ==
    ASSUME TCore, NEW s \in Slot, pc[s] # "idle", NEW r \in BOOLEAN, errorHandler(s, r),
           UNCHANGED accepted
    PROVE  TCore'
<1>1. CASE Policy = "retry" /\ ~Exhausted(work[s], r)
  BY <1>1, ScheduleRetryKeepsTCore DEF errorHandler, retryErrorHandler, Exhausted
<1>2. CASE Policy = "retry" /\ Exhausted(work[s], r)
  <2>1. CASE work[s].m \in WantsReply
    <3>1. GoTo(s, "errorReplying") /\ asserted' \in BOOLEAN /\ waitq' \in BOOLEAN
      BY <1>2, <2>1 DEF errorHandler, retryErrorHandler, replyErrorToRpcCaller, TCore, TypeCore
    <3> QED
      BY <1>2, <2>1, <3>1, GoToKeepsTCore
      DEF errorHandler, retryErrorHandler, replyErrorToRpcCaller, Await
  <2>2. CASE work[s].m \notin WantsReply
    BY <1>2, <2>2, ExhaustKeepsTCore DEF errorHandler, retryErrorHandler, replyErrorToRpcCaller
  <2> QED BY <2>1, <2>2
<1>3. CASE Policy # "retry"
  BY <1>3, SettleKeepsTCore, NackRequeueKeepsTCore DEF errorHandler, legacyErrorHandler, Fate
<1> QED BY <1>1, <1>2, <1>3

LEMMA AckHandledKeepsTCore ==
    ASSUME TCore, NEW s \in Slot, pc[s] # "idle", AckHandled(s), UNCHANGED accepted
    PROVE  TCore'
BY SettleKeepsTCore, ErrorHandlerKeepsTCore DEF AckHandled, Fate

LEMMA SlotStepKeepsTCore ==
    ASSUME TCore, NEW s \in Slot,
           SlotStep(s) \/ ReplyRefused(s) \/ RepublishRefused(s) \/ ErrorReplyRefused(s)
    PROVE  TCore'
<1>1. CASE RejectMisrouted(s)
  BY <1>1, SettleKeepsTCore DEF RejectMisrouted, Fate
<1>2. CASE RejectMalformed(s)
  BY <1>2, ErrorHandlerKeepsTCore DEF RejectMalformed
<1>3. CASE CallHandler(s)
  <2>1. waitq' \in BOOLEAN /\ asserted' \in BOOLEAN
    BY <1>3 DEF CallHandler, broker, TCore, TypeCore
  <2> QED BY <1>3, <2>1, GoToKeepsTCore DEF CallHandler, broker, Await
<1>4. CASE HandlerSucceeds(s)
  <2>1. CASE Rpc /\ work[s].m \in WantsReply
    <3>1. GoTo(s, "replying") /\ waitq' \in BOOLEAN /\ asserted' \in BOOLEAN
      BY <1>4, <2>1 DEF HandlerSucceeds, TCore, TypeCore
    <3> QED BY <1>4, <2>1, <3>1, GoToKeepsTCore DEF HandlerSucceeds, Await
  <2>2. CASE ~(Rpc /\ work[s].m \in WantsReply)
    BY <1>4, <2>2, AckHandledKeepsTCore DEF HandlerSucceeds
  <2> QED BY <2>1, <2>2
<1>5. CASE HandlerThrows(s)
  BY <1>5, ErrorHandlerKeepsTCore DEF HandlerThrows
<1>6. CASE HandlerNacks(s)
  BY <1>6, NackRequeueKeepsTCore, SettleKeepsTCore, ErrorHandlerKeepsTCore
  DEF HandlerNacks, Fate
<1>7. CASE ReplyConfirmed(s)
  BY <1>7, AckHandledKeepsTCore DEF ReplyConfirmed
<1>8. CASE WaitQueueAsserted(s)
  <2>1. waitq' \in BOOLEAN /\ asserted' \in BOOLEAN /\ work[s].n + 1 < MaxAttempts
    BY <1>8 DEF WaitQueueAsserted, broker, TCore, TypeCore, AttemptsLeft
  <2> QED BY <1>8, <2>1, GoToKeepsTCore DEF WaitQueueAsserted, broker, history, Await
<1>9. CASE AssertFails(s)
  BY <1>9, NackRequeueKeepsTCore DEF AssertFails
<1>10. CASE RepublishLands(s)
  <2> USE <1>10 DEF RepublishLands, GoTo, TCore
  <2>1. retryProperties(work[s]) \in Body /\ retryProperties(work[s]).m = work[s].m
    BY RetryCopyIsBody DEF TypeCore, AttemptsLeft
  <2>2. work[s].m \in Msg
    BY DEF Contentful
  <2>3. TypeCore'
    BY <2>1 DEF TypeCore, Place, Await, history
  <2>4. LiveRunsOwn' /\ LiveRunsDiffer'
    BY DEF LiveRunsOwn, LiveRunsDiffer, TypeCore
  <2>5. Contentful'
    BY <2>1, <2>2 DEF Contentful, TypeCore
  <2>6. AttemptsLeft'
    BY DEF AttemptsLeft, TypeCore
  <2> QED BY <2>3, <2>4, <2>5, <2>6
<1>11. CASE RepublishConfirmed(s)
  BY <1>11, SettleKeepsTCore DEF RepublishConfirmed, Fate
<1>12. CASE ErrorReplyConfirmed(s)
  BY <1>12, ExhaustKeepsTCore DEF ErrorReplyConfirmed
<1>13. CASE DeadLetterLands(s)
  <2> USE <1>13 DEF DeadLetterLands, GoTo, TCore, broker
  <2>1. TypeCore'
    BY DEF TypeCore, Contentful, Fate, Await
  <2>2. LiveRunsOwn' /\ LiveRunsDiffer' /\ Contentful' /\ AttemptsLeft'
    BY DEF LiveRunsOwn, LiveRunsDiffer, Contentful, AttemptsLeft, TypeCore
  <2> QED BY <2>1, <2>2
<1>14. CASE DeadLetterConfirmed(s)
  BY <1>14, SettleKeepsTCore DEF DeadLetterConfirmed, Fate
<1>15. CASE DeadLetterRefused(s)
  BY <1>15, NackRequeueKeepsTCore DEF DeadLetterRefused
<1>16. CASE ReplyRefused(s)
  BY <1>16, ErrorHandlerKeepsTCore DEF ReplyRefused
<1>17. CASE RepublishRefused(s)
  BY <1>17, NackRequeueKeepsTCore DEF RepublishRefused
<1>18. CASE ErrorReplyRefused(s)
  BY <1>18, ExhaustKeepsTCore DEF ErrorReplyRefused
<1> QED
  BY <1>1, <1>2, <1>3, <1>4, <1>5, <1>6, <1>7, <1>8, <1>9, <1>10, <1>11, <1>12, <1>13,
     <1>14, <1>15, <1>16, <1>17, <1>18 DEF SlotStep

\* The callback and the broker keep the history in its type.
LEMMA NextKeepsHistory ==
    ASSUME TInv, [Next]_vars
    PROVE  TypeHistory'
<1> USE DEF TInv, TypeOK, TypeHistory
<1>1. CASE UNCHANGED history /\ UNCHANGED faults
  BY <1>1 DEF history, faults
<1>2. ASSUME NEW m \in Msg, Publish(m) PROVE TypeHistory'
  BY <1>2 DEF Publish, faults
<1>3. ASSUME NEW c \in Copy, MessageExpires(c) PROVE TypeHistory'
  BY <1>3 DEF MessageExpires, faults
<1>4. CASE ConnectionLost
  BY <1>4 DEF ConnectionLost, history
<1>5. ASSUME NEW s \in Slot,
             \/ RejectMisrouted(s) \/ RejectMalformed(s) \/ HandlerSucceeds(s)
             \/ HandlerThrows(s) \/ HandlerNacks(s) \/ AssertFails(s)
             \/ RepublishConfirmed(s) \/ DeadLetterConfirmed(s)
      PROVE  TypeHistory'
  BY <1>5 DEF RejectMisrouted, RejectMalformed, HandlerSucceeds, HandlerThrows, HandlerNacks,
              AssertFails, RepublishConfirmed, DeadLetterConfirmed, faults
<1>6. ASSUME NEW s \in Slot, CallHandler(s) PROVE TypeHistory'
  <2>1. work[s].m \in Msg
    BY <1>6 DEF CallHandler, Contentful
  <2>2. runs[work[s].m] < MaxAttempts => runs[work[s].m] + 1 \in 0 .. MaxAttempts
    BY <2>1
  <2>3. runs' \in [Msg -> 0 .. MaxAttempts]
    BY <1>6, <2>1, <2>2 DEF CallHandler
  <2> QED BY <1>6, <2>3 DEF CallHandler, faults
<1>7. ASSUME NEW s \in Slot, ReplyConfirmed(s) \/ ErrorReplyConfirmed(s) PROVE TypeHistory'
  BY <1>7 DEF ReplyConfirmed, ErrorReplyConfirmed, Answer, faults
<1>8. ASSUME NEW s \in Slot, DeadLetterLands(s) PROVE TypeHistory'
  <2>1. work[s].key \in {"own", "queue"} /\ work[s].m \in Msg
    BY <1>8 DEF DeadLetterLands, Body, Contentful
  <2> QED BY <1>8, <2>1 DEF DeadLetterLands, faults
<1>9. ASSUME NEW s \in Slot,
             \/ DeadLetterRefused(s) \/ ReplyRefused(s) \/ RepublishRefused(s)
             \/ ErrorReplyRefused(s)
      PROVE  TypeHistory'
  <2>1. Refused => losses' \in 0 .. MaxLosses /\ refusals' \in 0 .. MaxRefusals
    BY DEF Refused
  <2>2. losses' \in 0 .. MaxLosses /\ refusals' \in 0 .. MaxRefusals
    BY <1>9, <2>1
    DEF DeadLetterRefused, ReplyRefused, RepublishRefused, ErrorReplyRefused, faults
  <2> QED
    BY <1>9, <2>2 DEF DeadLetterRefused, ReplyRefused, RepublishRefused, ErrorReplyRefused
<1>10. CASE UNCHANGED vars
  BY <1>1, <1>10 DEF vars
<1> QED
  BY <1>1, <1>2, <1>3, <1>4, <1>5, <1>6, <1>7, <1>8, <1>9, <1>10
  DEF Next, SlotStep, Fault, Deliver, DelayElapses, WaitQueueExpires, WaitQueueAsserted,
      RepublishLands

LEMMA BrokerKeepsTCore ==
    ASSUME TCore,
           \/ \E m \in Msg : Publish(m)
           \/ \E s \in Slot, c \in Copy : Deliver(s, c)
           \/ \E c \in Copy : DelayElapses(c) \/ MessageExpires(c)
           \/ WaitQueueExpires
           \/ ConnectionLost
    PROVE  TCore'
<1> USE DEF TCore
<1>1. ASSUME NEW m \in Msg, Publish(m) PROVE TCore'
  <2> USE <1>1 DEF Publish, tasks
  <2>1. [m |-> m, n |-> 0, key |-> "own"] \in Body
    BY DEF Body
  <2>2. TypeCore'
    BY <2>1 DEF TypeCore, Place
  <2>3. LiveRunsOwn' /\ LiveRunsDiffer' /\ Contentful' /\ AttemptsLeft'
    BY DEF TypeCore, LiveRunsOwn, LiveRunsDiffer, Contentful, AttemptsLeft
  <2> QED BY <2>2, <2>3
<1>2. ASSUME NEW s \in Slot, NEW c \in Copy, Deliver(s, c) PROVE TCore'
  <2> USE <1>2 DEF Deliver, history
  <2>1. TypeCore'
    BY DEF TypeCore, Place, Await
  <2>2. LiveRunsOwn' /\ LiveRunsDiffer'
    BY DEF TypeCore, LiveRunsOwn, LiveRunsDiffer
  <2>3. Contentful' /\ AttemptsLeft'
    BY DEF TypeCore, Contentful, AttemptsLeft
  <2> QED BY <2>1, <2>2, <2>3
<1>3. ASSUME NEW c \in Copy, DelayElapses(c) PROVE TCore'
  <2> USE <1>3 DEF DelayElapses, tasks, history
  <2>1. TypeCore'
    BY DEF TypeCore, Place
  <2>2. LiveRunsOwn' /\ LiveRunsDiffer' /\ Contentful' /\ AttemptsLeft'
    BY DEF TypeCore, LiveRunsOwn, LiveRunsDiffer, Contentful, AttemptsLeft
  <2> QED BY <2>1, <2>2
<1>4. ASSUME NEW c \in Copy, MessageExpires(c) PROVE TCore'
  <2> USE <1>4 DEF MessageExpires, tasks
  <2>1. TypeCore'
    BY BlankIsBody DEF TypeCore, Place, Fate, Contentful
  <2>2. LiveRunsOwn' /\ LiveRunsDiffer' /\ Contentful' /\ AttemptsLeft'
    BY DEF TypeCore, LiveRunsOwn, LiveRunsDiffer, Contentful, AttemptsLeft
  <2> QED BY <2>1, <2>2
<1>5. CASE WaitQueueExpires
  <2> USE <1>5 DEF WaitQueueExpires, tasks, history
  <2>1. TypeCore'
    BY BlankIsBody DEF TypeCore, Place
  <2>2. LiveRunsOwn' /\ LiveRunsDiffer' /\ Contentful' /\ AttemptsLeft'
    BY DEF TypeCore, LiveRunsOwn, LiveRunsDiffer, Contentful, AttemptsLeft
  <2> QED BY <2>1, <2>2
<1>6. CASE ConnectionLost
  <2> USE <1>6 DEF ConnectionLost, history
  <2>1. TypeCore'
    BY BlankIsBody DEF TypeCore, Place, Await
  <2>2. LiveRunsOwn' /\ LiveRunsDiffer'
    BY DEF LiveRunsOwn, LiveRunsDiffer
  <2>3. Contentful' /\ AttemptsLeft'
    BY DEF TypeCore, Contentful, AttemptsLeft
  <2> QED BY <2>1, <2>2, <2>3
<1> QED BY <1>1, <1>2, <1>3, <1>4, <1>5, <1>6

LEMMA InitTInv == Init => TInv
<1> SUFFICES ASSUME Init PROVE TInv
  OBVIOUS
<1>1. TypeCore
  BY BlankIsBody DEF Init, TypeCore, Place, Await
<1>3. TypeHistory
  BY DEF Init, TypeHistory
<1>2. LiveRunsOwn /\ LiveRunsDiffer /\ Contentful /\ AttemptsLeft
  BY DEF Init, LiveRunsOwn, LiveRunsDiffer, Contentful, AttemptsLeft
<1> QED BY <1>1, <1>2, <1>3 DEF TInv, TypeOK, TypeCore, TypeHistory

LEMMA NextTInv == TInv /\ [Next]_vars => TInv'
<1> SUFFICES ASSUME TInv, [Next]_vars PROVE TInv'
  OBVIOUS
<1>1. TypeHistory'
  BY NextKeepsHistory
<1>2. TCore
  BY TInvSplits
<1>3. UNCHANGED vars => TCore'
  BY <1>2
  DEF vars, broker, tasks, history, TCore, TypeCore, LiveRunsOwn, LiveRunsDiffer, Contentful,
      AttemptsLeft
<1>4. Next => TCore'
  BY <1>2, SlotStepKeepsTCore, BrokerKeepsTCore DEF Next, Fault
<1>5. TCore'
  BY <1>3, <1>4
<1> QED BY <1>1, <1>5 DEF TInv, TCore, TypeOK, TypeCore, TypeHistory

\* Type correctness: whatever is lost, refused or expires, every variable
\* keeps its type, and with it the retry counter stays below maxAttempts
\* (retry-policy.ts: attempts < maxAttempts guards every re-publish).
THEOREM TypeCorrect == Spec => []TypeOK
<1>1. TInv => TypeOK
  BY DEF TInv
<1> QED BY InitTInv, NextTInv, <1>1, PTL DEF Spec

-----------------------------------------------------------------------------
(* No message is lost. *)

\* The broker keeps the wait-queue for as long as it is used, and the
\* consumer accepts the copies that the policy publishes.
Dependable == ~QueueMayExpire /\ (Rpc => QueueNameMatches /\ Misaddressed = {})

\* A settled copy was delivered, or is outlived by a larger one.
LEMMA SettleKeepsLInv ==
    ASSUME TCore, LInv, NEW s \in Slot, pc[s] # "idle", NEW f \in SUBSET Fate, Settle(s, f),
           f \ {"misrouted"} # {} \/ pc[s] \in {"republished", "deadLettered"},
           UNCHANGED <<waitq, asserted, accepted>>
    PROVE  LInv'
<1> USE DEF TCore, TypeCore, Settle, Finish
<1>1. work[s].m \in Msg
  BY DEF Contentful
<1>2. \A m \in Msg : fate[m] \subseteq fate'[m]
  BY <1>1
<1>3. \A m \in Msg : Delivered(m) => Delivered(m)'
  BY <1>2 DEF Delivered
<1>4. CASE ~live[s]
  <2>1. Superseded'
    BY <1>4 DEF LInv, Superseded, Delivered
  <2>2. DeadIsKept' /\ NoLoss' /\ WaitQueueReady'
    BY <1>4 DEF LInv, DeadIsKept, NoLoss, Delivered, OnBroker, WaitQueueReady
  <2> QED BY <2>1, <2>2 DEF LInv
<1>5. CASE live[s]
  <2>1. on[s] \in Copy /\ body[on[s]] = work[s]
    BY <1>5 DEF LiveRunsOwn
  <2>2. \A c \in Copy \ {on[s]} : place'[c] = place[c] /\ body'[c] = body[c]
    BY <1>5
  <2>3. \/ fate'[work[s].m] \ {"misrouted"} # {}
        \/ \E d \in Copy \ {on[s]} : /\ place[d] # "free"
                                     /\ body[d].m = work[s].m
                                     /\ body[d].n > work[s].n
    <3>1. CASE f \ {"misrouted"} # {}
      BY <1>1, <1>5, <3>1 DEF Delivered
    <3>2. CASE pc[s] = "deadLettered"
      BY <1>1, <1>2, <3>2 DEF LInv, DeadIsKept, Delivered
    <3>3. CASE pc[s] = "republished"
      <4>1. CASE Delivered(work[s].m)
        BY <1>1, <1>2, <4>1 DEF Delivered
      <4>2. CASE ~Delivered(work[s].m)
        <5>1. PICK d \in Copy : /\ place[d] # "free"
                                /\ body[d].m = work[s].m
                                /\ body[d].n > work[s].n
          BY <3>3, <4>2 DEF LInv, Superseded
        <5>2. d # on[s]
          BY <2>1, <5>1 DEF Body
        <5> QED BY <5>1, <5>2
      <4> QED BY <4>1, <4>2
    <3> QED BY <3>1, <3>2, <3>3
  <2>4. Superseded'
    <3> SUFFICES ASSUME NEW t \in Slot, pc'[t] = "republished", ~Delivered(work[t].m)'
                 PROVE  \E c \in Copy : /\ place'[c] # "free"
                                        /\ body'[c].m = work'[t].m
                                        /\ body'[c].n > work'[t].n
      BY DEF Superseded, Delivered
    <3>1. t # s /\ pc[t] = "republished" /\ work'[t] = work[t] /\ work[t].m \in Msg
      BY DEF Contentful
    <3>2. ~Delivered(work[t].m)
      BY <1>3, <3>1
    <3>3. PICK c \in Copy : /\ place[c] # "free"
                            /\ body[c].m = work[t].m
                            /\ body[c].n > work[t].n
      BY <3>1, <3>2 DEF LInv, Superseded
    <3>4. CASE c # on[s]
      BY <2>2, <3>1, <3>3, <3>4
    <3>5. CASE c = on[s]
      <4>1. work[s].m = work[t].m /\ work[s].n > work[t].n
        BY <2>1, <3>3, <3>5
      <4>2. PICK d \in Copy \ {on[s]} : /\ place[d] # "free"
                                        /\ body[d].m = work[s].m
                                        /\ body[d].n > work[s].n
        BY <2>3, <3>1, <4>1 DEF Delivered
      <4>3. body[d].n > work[t].n
        BY <4>1, <4>2 DEF Body
      <4> QED BY <2>2, <3>1, <4>1, <4>2, <4>3
    <3> QED BY <3>4, <3>5
  <2>5. NoLoss'
    <3> SUFFICES ASSUME NEW m \in accepted, ~Delivered(m)'
                 PROVE  OnBroker(m)'
      BY DEF NoLoss
    <3>1. ~Delivered(m) /\ m \in Msg
      BY <1>3
    <3>2. PICK c \in Copy : place[c] # "free" /\ body[c].m = m
      BY <3>1 DEF LInv, NoLoss, OnBroker
    <3>3. CASE c # on[s]
      BY <2>2, <3>2, <3>3 DEF OnBroker
    <3>4. CASE c = on[s]
      BY <2>1, <2>2, <2>3, <3>2, <3>4 DEF OnBroker, Delivered
    <3> QED BY <3>3, <3>4
  <2>6. DeadIsKept'
    BY <1>2 DEF LInv, DeadIsKept, Contentful
  <2>7. WaitQueueReady'
    BY DEF LInv, WaitQueueReady
  <2> QED BY <2>4, <2>5, <2>6, <2>7 DEF LInv
<1> QED BY <1>4, <1>5

LEMMA NackRequeueKeepsLInv ==
    ASSUME TCore, LInv, NEW s \in Slot, pc[s] # "idle", NackRequeue(s),
           UNCHANGED <<waitq, asserted, accepted>>
    PROVE  LInv'
<1> USE DEF TCore, TypeCore, NackRequeue, Finish, LInv
<1>1. \A c \in Copy : place[c] # "free" => place'[c] # "free"
  BY DEF LiveRunsOwn
<1>2. Superseded'
  BY <1>1 DEF Superseded, Delivered
<1>3. DeadIsKept' /\ WaitQueueReady'
  BY DEF DeadIsKept, WaitQueueReady
<1>4. NoLoss'
  BY <1>1 DEF NoLoss, Delivered, OnBroker
<1> QED BY <1>2, <1>3, <1>4

LEMMA GoToKeepsLInv ==
    ASSUME TCore, LInv, NEW s \in Slot, pc[s] # "idle",
           NEW a \in Await \ {"idle", "republished", "deadLettered"}, GoTo(s, a),
           a \in {"asserting", "republishing"} /\ Delayed => asserted',
           asserted => asserted', asserted' => waitq',
           UNCHANGED <<place, body, accepted, fate>>
    PROVE  LInv'
<1> USE DEF TCore, TypeCore, GoTo, LInv
<1>1. Superseded' /\ DeadIsKept'
  BY DEF Superseded, Delivered, DeadIsKept
<1>2. NoLoss'
  BY DEF NoLoss, Delivered, OnBroker
<1>3. WaitQueueReady'
  BY DEF WaitQueueReady
<1> QED BY <1>1, <1>2, <1>3

LEMMA ScheduleRetryKeepsLInv ==
    ASSUME TCore, LInv, NEW s \in Slot, pc[s] # "idle", scheduleRetry(s), UNCHANGED accepted
    PROVE  LInv'
<1>1. CASE Delayed /\ ~asserted
  BY <1>1, GoToKeepsLInv DEF scheduleRetry, Await
<1>2. CASE ~(Delayed /\ ~asserted)
  BY <1>2, GoToKeepsLInv DEF scheduleRetry, Await, LInv, WaitQueueReady
<1> QED BY <1>1, <1>2

LEMMA ExhaustKeepsLInv ==
    ASSUME TCore, LInv, NEW s \in Slot, pc[s] # "idle", exhaust(s), UNCHANGED accepted
    PROVE  LInv'
<1>1. CASE DeadLetter
  BY <1>1, GoToKeepsLInv DEF exhaust, Await, LInv, WaitQueueReady
<1>2. CASE ~DeadLetter
  BY <1>2, SettleKeepsLInv DEF exhaust, Fate
<1> QED BY <1>1, <1>2

LEMMA ErrorHandlerKeepsLInv ==
    ASSUME TCore, LInv, NEW s \in Slot, pc[s] # "idle", NEW r \in BOOLEAN, errorHandler(s, r),
           UNCHANGED accepted
    PROVE  LInv'
<1>1. CASE Policy = "retry" /\ ~Exhausted(work[s], r)
  BY <1>1, ScheduleRetryKeepsLInv DEF errorHandler, retryErrorHandler
<1>2. CASE Policy = "retry" /\ Exhausted(work[s], r)
  <2>1. CASE work[s].m \in WantsReply
    BY <1>2, <2>1, GoToKeepsLInv
    DEF errorHandler, retryErrorHandler, replyErrorToRpcCaller, Await, LInv, WaitQueueReady
  <2>2. CASE work[s].m \notin WantsReply
    BY <1>2, <2>2, ExhaustKeepsLInv DEF errorHandler, retryErrorHandler, replyErrorToRpcCaller
  <2> QED BY <2>1, <2>2
<1>3. CASE Policy # "retry"
  BY <1>3, SettleKeepsLInv, NackRequeueKeepsLInv DEF errorHandler, legacyErrorHandler, Fate
<1> QED BY <1>1, <1>2, <1>3

LEMMA AckHandledKeepsLInv ==
    ASSUME TCore, LInv, NEW s \in Slot, pc[s] # "idle", AckHandled(s), UNCHANGED accepted
    PROVE  LInv'
<1>1. {"handled"} \in SUBSET Fate /\ {"handled"} \ {"misrouted"} # {}
  BY DEF Fate
<1>2. Settle(s, {"handled"}) /\ UNCHANGED <<asserted, waitq>> => LInv'
  BY <1>1, SettleKeepsLInv
<1>3. errorHandler(s, TRUE) => LInv'
  BY ErrorHandlerKeepsLInv
<1> QED BY <1>2, <1>3 DEF AckHandled

LEMMA SlotStepKeepsLInv ==
    ASSUME Dependable, TCore, LInv, NEW s \in Slot,
           SlotStep(s) \/ ReplyRefused(s) \/ RepublishRefused(s) \/ ErrorReplyRefused(s)
    PROVE  LInv'
<1>1. CASE RejectMisrouted(s)
  BY <1>1 DEF RejectMisrouted, MatchesRoutingKey, Dependable
<1>2. CASE RejectMalformed(s)
  BY <1>2, ErrorHandlerKeepsLInv DEF RejectMalformed
<1>3. CASE CallHandler(s)
  BY <1>3, GoToKeepsLInv DEF CallHandler, broker, Await, LInv, WaitQueueReady
<1>4. CASE HandlerSucceeds(s)
  <2>1. CASE Rpc /\ work[s].m \in WantsReply
    BY <1>4, <2>1, GoToKeepsLInv DEF HandlerSucceeds, Await, LInv, WaitQueueReady
  <2>2. CASE ~(Rpc /\ work[s].m \in WantsReply)
    BY <1>4, <2>2, AckHandledKeepsLInv DEF HandlerSucceeds
  <2> QED BY <2>1, <2>2
<1>5. CASE HandlerThrows(s)
  BY <1>5, ErrorHandlerKeepsLInv DEF HandlerThrows
<1>6. CASE HandlerNacks(s)
  <2>1. {"rejected"} \in SUBSET Fate /\ {"rejected"} \ {"misrouted"} # {}
    BY DEF Fate
  <2>2. pc[s] # "idle" /\ UNCHANGED accepted
    BY <1>6 DEF HandlerNacks
  <2>3. NackRequeue(s) /\ UNCHANGED <<asserted, waitq>> => LInv'
    BY <2>2, NackRequeueKeepsLInv
  <2>4. Settle(s, {"rejected"}) /\ UNCHANGED <<asserted, waitq>> => LInv'
    BY <2>1, <2>2, SettleKeepsLInv
  <2>5. errorHandler(s, TRUE) => LInv'
    BY <2>2, ErrorHandlerKeepsLInv
  <2> QED BY <1>6, <2>3, <2>4, <2>5 DEF HandlerNacks
<1>7. CASE ReplyConfirmed(s)
  BY <1>7, AckHandledKeepsLInv DEF ReplyConfirmed
<1>8. CASE WaitQueueAsserted(s)
  BY <1>8, GoToKeepsLInv
  DEF WaitQueueAsserted, broker, history, Await, LInv, WaitQueueReady
<1>9. CASE AssertFails(s)
  BY <1>9, NackRequeueKeepsLInv DEF AssertFails
<1>10. CASE RepublishLands(s)
  <2> USE <1>10 DEF RepublishLands, GoTo, TCore, LInv
  <2>1. /\ retryProperties(work[s]).m = work[s].m
        /\ retryProperties(work[s]).n = work[s].n + 1
    BY RetryCopyIsBody DEF TypeCore, AttemptsLeft
  <2>2. ~(Delayed /\ ~waitq)
    BY DEF WaitQueueReady
  <2>3. PICK c \in Copy :
          /\ place[c] = "free"
          /\ place' = [place EXCEPT ![c] = IF Delayed THEN "wait" ELSE "ready"]
          /\ body' = [body EXCEPT ![c] = retryProperties(work[s])]
    BY <2>2
  <2>4. place'[c] # "free" /\ body'[c].m = work[s].m /\ body'[c].n > work[s].n
    BY <2>1, <2>3 DEF TypeCore, Body
  <2>5. \A d \in Copy : place[d] # "free" => place'[d] # "free" /\ body'[d] = body[d]
    BY <2>3 DEF TypeCore
  <2>6. Superseded'
    BY <2>4, <2>5 DEF Superseded, Delivered, TypeCore, history
  <2>7. DeadIsKept' /\ WaitQueueReady'
    BY DEF DeadIsKept, WaitQueueReady, TypeCore, history
  <2>8. NoLoss'
    BY <2>5 DEF NoLoss, Delivered, OnBroker, history
  <2> QED BY <2>6, <2>7, <2>8
<1>11. CASE RepublishConfirmed(s)
  BY <1>11, SettleKeepsLInv DEF RepublishConfirmed, Fate
<1>12. CASE ErrorReplyConfirmed(s)
  BY <1>12, ExhaustKeepsLInv DEF ErrorReplyConfirmed
<1>13. CASE DeadLetterLands(s)
  <2> USE <1>13 DEF DeadLetterLands, GoTo, TCore, TypeCore, LInv, broker
  <2>1. work[s].m \in Msg
    BY DEF Contentful
  <2>2. \A m \in Msg : fate[m] \subseteq fate'[m]
    BY <2>1
  <2>3. Superseded'
    BY <2>2 DEF Superseded, Delivered, Contentful
  <2>4. DeadIsKept'
    BY <2>1, <2>2 DEF DeadIsKept, Contentful
  <2>5. NoLoss' /\ WaitQueueReady'
    BY <2>2 DEF NoLoss, Delivered, OnBroker, WaitQueueReady
  <2> QED BY <2>3, <2>4, <2>5
<1>14. CASE DeadLetterConfirmed(s)
  BY <1>14, SettleKeepsLInv DEF DeadLetterConfirmed, Fate
<1>15. CASE DeadLetterRefused(s)
  BY <1>15, NackRequeueKeepsLInv DEF DeadLetterRefused
<1>16. CASE ReplyRefused(s)
  BY <1>16, ErrorHandlerKeepsLInv DEF ReplyRefused
<1>17. CASE RepublishRefused(s)
  BY <1>17, NackRequeueKeepsLInv DEF RepublishRefused
<1>18. CASE ErrorReplyRefused(s)
  BY <1>18, ExhaustKeepsLInv DEF ErrorReplyRefused
<1> QED
  BY <1>1, <1>2, <1>3, <1>4, <1>5, <1>6, <1>7, <1>8, <1>9, <1>10, <1>11, <1>12, <1>13,
     <1>14, <1>15, <1>16, <1>17, <1>18 DEF SlotStep

LEMMA BrokerKeepsLInv ==
    ASSUME Dependable, TCore, LInv,
           \/ \E m \in Msg : Publish(m)
           \/ \E s \in Slot, c \in Copy : Deliver(s, c)
           \/ \E c \in Copy : DelayElapses(c) \/ MessageExpires(c)
           \/ WaitQueueExpires
           \/ ConnectionLost
    PROVE  LInv'
<1> USE DEF TCore, TypeCore, LInv
<1>1. ASSUME NEW m \in Msg, Publish(m) PROVE LInv'
  <2> USE <1>1 DEF Publish, tasks
  <2>1. PICK c \in Copy :
          /\ place[c] = "free"
          /\ place' = [place EXCEPT ![c] = "ready"]
          /\ body' = [body EXCEPT ![c] = [m |-> m, n |-> 0, key |-> "own"]]
    OBVIOUS
  <2>2. \A d \in Copy : place[d] # "free" => place'[d] # "free" /\ body'[d] = body[d]
    BY <2>1
  <2>3. OnBroker(m)'
    BY <2>1 DEF OnBroker
  <2>4. Superseded' /\ DeadIsKept' /\ WaitQueueReady'
    BY <2>2 DEF Superseded, Delivered, DeadIsKept, WaitQueueReady
  <2>5. NoLoss'
    BY <2>2, <2>3 DEF NoLoss, Delivered, OnBroker
  <2> QED BY <2>4, <2>5
<1>2. ASSUME NEW s \in Slot, NEW c \in Copy, Deliver(s, c) PROVE LInv'
  <2> USE <1>2 DEF Deliver, history
  <2>1. \A d \in Copy : place[d] # "free" => place'[d] # "free" /\ body'[d] = body[d]
    OBVIOUS
  <2>2. Superseded' /\ DeadIsKept' /\ WaitQueueReady'
    BY <2>1 DEF Superseded, Delivered, DeadIsKept, WaitQueueReady
  <2>3. NoLoss'
    BY <2>1 DEF NoLoss, Delivered, OnBroker
  <2> QED BY <2>2, <2>3
<1>3. ASSUME NEW c \in Copy, DelayElapses(c) PROVE LInv'
  <2> USE <1>3 DEF DelayElapses, tasks, history
  <2>1. \A d \in Copy : place[d] # "free" => place'[d] # "free" /\ body'[d] = body[d]
    OBVIOUS
  <2>2. Superseded' /\ DeadIsKept' /\ WaitQueueReady'
    BY <2>1 DEF Superseded, Delivered, DeadIsKept, WaitQueueReady
  <2>3. NoLoss'
    BY <2>1 DEF NoLoss, Delivered, OnBroker
  <2> QED BY <2>2, <2>3
<1>4. ASSUME NEW c \in Copy, MessageExpires(c) PROVE LInv'
  <2> USE <1>4 DEF MessageExpires, tasks
  <2>1. body[c].m \in Msg
    BY DEF Contentful
  <2>2. \A m \in Msg : fate[m] \subseteq fate'[m]
    BY <2>1
  <2>3. fate'[body[c].m] \ {"misrouted"} # {}
    <3>1. "expired" \in fate'[body[c].m] \ {"misrouted"}
      BY <2>1
    <3> QED BY <3>1
  <2>4. \A d \in Copy \ {c} : place'[d] = place[d] /\ body'[d] = body[d]
    OBVIOUS
  <2>5. Superseded'
    <3> SUFFICES ASSUME NEW s \in Slot, pc[s] = "republished", ~Delivered(work[s].m)'
                 PROVE  \E d \in Copy : /\ place'[d] # "free"
                                        /\ body'[d].m = work[s].m
                                        /\ body'[d].n > work[s].n
      BY DEF Superseded, Delivered
    <3>1. work[s].m \in Msg
      BY DEF Contentful
    <3>2. ~Delivered(work[s].m)
      BY <2>2, <3>1 DEF Delivered
    <3>3. PICK d \in Copy : /\ place[d] # "free"
                            /\ body[d].m = work[s].m
                            /\ body[d].n > work[s].n
      BY <3>2 DEF Superseded
    <3>4. d # c
      BY ONLY <2>3, <3>3, work' = work, ~Delivered(work[s].m)' DEF Delivered
    <3> QED BY <2>4, <3>3, <3>4
  <2>6. DeadIsKept' /\ WaitQueueReady'
    BY <2>2 DEF DeadIsKept, WaitQueueReady, Contentful
  <2>7. NoLoss'
    <3> SUFFICES ASSUME NEW m \in accepted, ~Delivered(m)'
                 PROVE  OnBroker(m)'
      BY DEF NoLoss
    <3>1. ~Delivered(m)
      BY <2>2 DEF Delivered
    <3>2. PICK d \in Copy : place[d] # "free" /\ body[d].m = m
      BY <3>1 DEF NoLoss, OnBroker
    <3>3. d # c
      BY <2>3, <3>2 DEF Delivered
    <3> QED BY <2>4, <3>2, <3>3 DEF OnBroker
  <2> QED BY <2>5, <2>6, <2>7
<1>5. CASE WaitQueueExpires
  BY <1>5 DEF WaitQueueExpires, Dependable
<1>6. CASE ConnectionLost
  <2> USE <1>6 DEF ConnectionLost, history
  <2>1. \A d \in Copy : place[d] # "free" => place'[d] # "free" /\ body'[d] = body[d]
    OBVIOUS
  <2>2. Superseded' /\ DeadIsKept'
    BY DEF Superseded, DeadIsKept
  <2>3. WaitQueueReady'
    BY DEF WaitQueueReady
  <2>4. NoLoss'
    BY <2>1 DEF NoLoss, Delivered, OnBroker
  <2> QED BY <2>2, <2>3, <2>4
<1> QED BY <1>1, <1>2, <1>3, <1>4, <1>5, <1>6

LEMMA InitLInv == Init => LInv
BY DEF Init, LInv, WaitQueueReady, Superseded, DeadIsKept, NoLoss

LEMMA NextLInv ==
    ASSUME Dependable
    PROVE  TInv /\ LInv /\ [Next]_vars => LInv'
<1> SUFFICES ASSUME TInv, LInv, [Next]_vars PROVE LInv'
  OBVIOUS
<1>1. TCore
  BY TInvSplits
<1>2. UNCHANGED vars => LInv'
  BY DEF vars, broker, tasks, history, LInv, WaitQueueReady, Superseded, DeadIsKept, NoLoss,
         Delivered, OnBroker
<1>3. Next => LInv'
  BY <1>1, SlotStepKeepsLInv, BrokerKeepsLInv DEF Next, Fault
<1> QED BY <1>2, <1>3

\* At-least-once delivery: on a broker that keeps the wait-queue, with a
\* consumer whose routing key accepts the queue's name, no sequence of handler
\* failures, lost connections, refused publishes and redeliveries loses a
\* confirmed message, for any policy (retry-policy.ts: the original is acked
\* only after its copy is confirmed, and requeued when it is not).
THEOREM NothingIsLost ==
    ASSUME Dependable
    PROVE  Spec => []NoLoss
<1>1. TInv /\ LInv => NoLoss
  BY DEF LInv
<1>2. Init => TInv /\ LInv
  BY InitTInv, InitLInv
<1>3. TInv /\ LInv /\ [Next]_vars => (TInv /\ LInv)'
  BY NextTInv, NextLInv
<1> QED BY <1>1, <1>2, <1>3, PTL DEF Spec

-----------------------------------------------------------------------------
(* Attempts are counted. *)

CountInv == CountsRuns /\ AttemptsRespected

\* All runs of the handler a message may have are over.
NoAttemptLeft(m) == m \in Malformed \/ runs[m] = MaxAttempts

\* No caller is told too early that attempts are exhausted.
RepliesJustified ==
    \A m \in Msg : reply'[m] = "exhausted" => reply[m] = "exhausted" \/ NoAttemptLeft(m)

LEMMA SettleKeepsCounts ==
    ASSUME TInv, CountInv, NEW s \in Slot, pc[s] # "idle", NEW f \in SUBSET Fate, Settle(s, f),
           f \cap {"dropped", "dead"} # {} => NoAttemptLeft(work[s].m),
           RepliesJustified, UNCHANGED runs
    PROVE  CountInv'
<1> USE DEF TInv, TypeOK, Settle, Finish, CountInv, NoAttemptLeft
<1>1. work[s].m \in Msg
  BY DEF Contentful
<1>2. CountsRuns'
  BY <1>1 DEF CountsRuns, Blank
<1>3. \A m \in Msg \ Malformed :
         fate'[m] \cap {"dropped", "dead"} # {} \/ reply'[m] = "exhausted"
           => runs[m] = MaxAttempts
  BY <1>1 DEF AttemptsRespected, RepliesJustified
<1>4. \A m \in Malformed : runs[m] = 0 /\ \A c \in Copy : body'[c].m = m => body'[c].n = 0
  BY DEF AttemptsRespected, Blank
<1> QED BY <1>2, <1>3, <1>4 DEF AttemptsRespected

LEMMA NackRequeueKeepsCounts ==
    ASSUME TInv, CountInv, NEW s \in Slot, NackRequeue(s), RepliesJustified, UNCHANGED runs
    PROVE  CountInv'
<1> USE DEF TInv, TypeOK, NackRequeue, Finish, CountInv
<1>1. CountsRuns'
  BY DEF CountsRuns, Blank
<1> QED BY <1>1 DEF AttemptsRespected, RepliesJustified, NoAttemptLeft

LEMMA GoToKeepsCounts ==
    ASSUME TInv, CountInv, NEW s \in Slot, pc[s] # "idle", NEW a \in Await, GoTo(s, a),
           a \in {"handling", "replying", "asserting", "republishing", "republished"}
             => work[s].m \notin Malformed /\ work[s].n < runs[work[s].m],
           a \in {"errorReplying", "deadLettering", "deadLettered"} => NoAttemptLeft(work[s].m),
           RepliesJustified, UNCHANGED <<body, fate, runs>>
    PROVE  CountInv'
<1> USE DEF TInv, TypeOK, GoTo, CountInv, NoAttemptLeft
<1>1. CountsRuns'
  BY DEF CountsRuns
<1> QED BY <1>1 DEF AttemptsRespected, RepliesJustified

LEMMA ExhaustKeepsCounts ==
    ASSUME TInv, CountInv, NEW s \in Slot, pc[s] # "idle", exhaust(s),
           NoAttemptLeft(work[s].m), RepliesJustified, UNCHANGED runs
    PROVE  CountInv'
<1>1. CASE DeadLetter
  BY <1>1, GoToKeepsCounts DEF exhaust, Await
<1>2. CASE ~DeadLetter
  BY <1>2, SettleKeepsCounts DEF exhaust, Fate
<1> QED BY <1>1, <1>2

\* The error handler is called for an attempt that was counted, or for a
\* message that will never be run.
LEMMA ErrorHandlerKeepsCounts ==
    ASSUME TInv, CountInv, NEW s \in Slot, pc[s] # "idle", NEW r \in BOOLEAN, errorHandler(s, r),
           \/ r /\ work[s].m \notin Malformed /\ work[s].n < runs[work[s].m]
           \/ ~r /\ work[s].m \in Malformed,
           RepliesJustified, UNCHANGED runs
    PROVE  CountInv'
<1>1. CASE Policy = "retry" /\ ~Exhausted(work[s], r)
  <2>1. work[s].m \notin Malformed /\ work[s].n < runs[work[s].m] /\ UNCHANGED <<body, fate>>
    BY <1>1 DEF errorHandler, retryErrorHandler, scheduleRetry, Exhausted
  <2>2. GoTo(s, "asserting") \/ GoTo(s, "republishing")
    BY <1>1 DEF errorHandler, retryErrorHandler, scheduleRetry
  <2> QED BY <2>1, <2>2, GoToKeepsCounts DEF Await
<1>2. CASE Policy = "retry" /\ Exhausted(work[s], r)
  <2>1. NoAttemptLeft(work[s].m)
    <3>1. CASE work[s].m \notin Malformed
      <4>1. work[s].m \in Msg /\ work[s].n \in 0 .. MaxAttempts - 1 /\ ~(work[s].n + 1 < MaxAttempts)
        BY <1>2, <3>1 DEF TInv, TypeOK, Contentful, Exhausted, Body
      <4>2. runs[work[s].m] \in 0 .. MaxAttempts /\ work[s].n < runs[work[s].m]
        BY <3>1, <4>1 DEF TInv, TypeOK
      <4>3. runs[work[s].m] = MaxAttempts
        BY ONLY <4>1, <4>2, ConstantsAssumption
      <4> QED BY <4>3 DEF NoAttemptLeft
    <3> QED BY <3>1 DEF NoAttemptLeft
  <2>2. CASE work[s].m \in WantsReply
    BY <1>2, <2>1, <2>2, GoToKeepsCounts
    DEF errorHandler, retryErrorHandler, replyErrorToRpcCaller, Await
  <2>3. CASE work[s].m \notin WantsReply
    BY <1>2, <2>1, <2>3, ExhaustKeepsCounts
    DEF errorHandler, retryErrorHandler, replyErrorToRpcCaller
  <2> QED BY <2>2, <2>3
<1>3. CASE Policy # "retry"
  <2>1. NackRequeue(s) \/ Settle(s, {"discarded"}) \/ Settle(s, {"rejected"})
    BY <1>3 DEF errorHandler, legacyErrorHandler
  <2> QED BY <2>1, SettleKeepsCounts, NackRequeueKeepsCounts DEF Fate
<1> QED BY <1>1, <1>2, <1>3

LEMMA AckHandledKeepsCounts ==
    ASSUME TInv, CountInv, NEW s \in Slot, pc[s] \in {"handling", "replying"}, AckHandled(s),
           RepliesJustified, UNCHANGED runs
    PROVE  CountInv'
<1>1. work[s].m \notin Malformed /\ work[s].n < runs[work[s].m]
  BY DEF TInv, Contentful, CountInv, CountsRuns
<1> QED BY <1>1, SettleKeepsCounts, ErrorHandlerKeepsCounts DEF AckHandled, Fate
LEMMA SlotStepKeepsCounts ==
    ASSUME TInv, CountInv, NEW s \in Slot,
           SlotStep(s) \/ ReplyRefused(s) \/ RepublishRefused(s) \/ ErrorReplyRefused(s)
    PROVE  CountInv'
<1>1. work[s].m \in Msg \/ pc[s] = "idle"
  BY DEF TInv, Contentful
<1>2. pc[s] \in {"handling", "replying", "asserting", "republishing", "republished"}
       => work[s].m \notin Malformed /\ work[s].n < runs[work[s].m]
  BY <1>1 DEF CountInv, CountsRuns
<1>3. pc[s] \in {"errorReplying", "deadLettering", "deadLettered"} => NoAttemptLeft(work[s].m)
  BY <1>1 DEF CountInv, CountsRuns, NoAttemptLeft
<1>4. UNCHANGED reply => RepliesJustified
  BY DEF RepliesJustified
<1>5. CASE RejectMisrouted(s)
  BY <1>4, <1>5, SettleKeepsCounts DEF RejectMisrouted, Fate
<1>6. CASE RejectMalformed(s)
  BY <1>4, <1>6, ErrorHandlerKeepsCounts DEF RejectMalformed
<1>7. CASE CallHandler(s)
  <2> USE <1>7 DEF CallHandler, GoTo, TInv, TypeOK, CountInv, broker
  <2>1. work[s].m \in Msg \ Malformed /\ work[s].n \in 0 .. MaxAttempts - 1
    BY <1>1 DEF Body
  <2>2. \A m \in Msg : runs'[m] = IF m = work[s].m /\ runs[m] < MaxAttempts
                                  THEN runs[m] + 1 ELSE runs[m]
    BY <2>1
  <2>3. \A m \in Msg : runs[m] \in 0 .. MaxAttempts
    OBVIOUS
  <2>4. work[s].n <= runs[work[s].m]
    BY <2>1 DEF CountsRuns
  <2>5. /\ \A m \in Msg : runs'[m] \in 0 .. MaxAttempts /\ runs[m] <= runs'[m]
        /\ \A m \in Msg \ {work[s].m} : runs'[m] = runs[m]
        /\ work[s].n < runs'[work[s].m]
        /\ runs[work[s].m] = MaxAttempts => runs'[work[s].m] = MaxAttempts
    <3>1. \A m \in Msg : runs'[m] \in 0 .. MaxAttempts /\ runs[m] <= runs'[m]
      BY ONLY <2>2, <2>3, ConstantsAssumption
    <3>2. work[s].n < runs'[work[s].m] /\ (runs[work[s].m] = MaxAttempts => runs'[work[s].m] = MaxAttempts)
      BY ONLY <2>1, <2>2, <2>3, <2>4, ConstantsAssumption
    <3> QED BY <2>2, <3>1, <3>2
  <2>6. CountsRuns'
    <3>1. \A c \in Copy : body[c].m \in Msg => body[c].n <= runs'[body[c].m]
      BY <2>5 DEF CountsRuns, Body
    <3>2. \A t \in Slot : work[t].m \in Msg => work[t].n <= runs'[work[t].m]
      BY <2>5 DEF CountsRuns, Body
    <3>3. \A t \in Slot : work[t].m \in Msg /\ pc'[t] \in {"handling", "replying",
             "asserting", "republishing", "republished"}
             => work[t].m \notin Malformed /\ work[t].n < runs'[work[t].m]
      BY <2>1, <2>5 DEF CountsRuns, Body
    <3>4. \A t \in Slot : work[t].m \in Msg /\ pc'[t] \in {"errorReplying",
             "deadLettering", "deadLettered"}
             => work[t].m \in Malformed \/ runs'[work[t].m] = MaxAttempts
      BY <2>1, <2>5 DEF CountsRuns
    <3> QED BY <3>1, <3>2, <3>3, <3>4 DEF CountsRuns
  <2>7. AttemptsRespected'
    BY <2>1, <2>5 DEF AttemptsRespected
  <2> QED BY <2>6, <2>7
<1>8. CASE HandlerSucceeds(s)
  <2>1. CASE Rpc /\ work[s].m \in WantsReply
    BY <1>2, <1>4, <1>8, <2>1, GoToKeepsCounts DEF HandlerSucceeds, Await
  <2>2. CASE ~(Rpc /\ work[s].m \in WantsReply)
    BY <1>4, <1>8, <2>2, AckHandledKeepsCounts DEF HandlerSucceeds
  <2> QED BY <2>1, <2>2
<1>9. CASE HandlerThrows(s)
  BY <1>2, <1>4, <1>9, ErrorHandlerKeepsCounts DEF HandlerThrows
<1>10. CASE HandlerNacks(s)
  <2>1. NackRequeue(s) \/ Settle(s, {"rejected"}) \/ errorHandler(s, TRUE)
    BY <1>10 DEF HandlerNacks
  <2>2. pc[s] = "handling" /\ RepliesJustified /\ UNCHANGED runs
    BY <1>4, <1>10 DEF HandlerNacks
  <2> QED
    BY <1>2, <2>1, <2>2, NackRequeueKeepsCounts, SettleKeepsCounts, ErrorHandlerKeepsCounts DEF Fate
<1>11. CASE ReplyConfirmed(s)
  <2>1. RepliesJustified
    BY <1>11 DEF ReplyConfirmed, Answer, RepliesJustified, TInv, TypeOK
  <2> QED BY <1>11, <2>1, AckHandledKeepsCounts DEF ReplyConfirmed
<1>12. CASE WaitQueueAsserted(s)
  BY <1>2, <1>4, <1>12, GoToKeepsCounts DEF WaitQueueAsserted, broker, history, Await
<1>13. CASE AssertFails(s)
  BY <1>4, <1>13, NackRequeueKeepsCounts DEF AssertFails
<1>14. CASE RepublishLands(s)
  <2> USE <1>14 DEF RepublishLands, GoTo, TInv, TypeOK, CountInv, history
  <2>1. work[s].m \in Msg \ Malformed /\ work[s].n < runs[work[s].m]
    BY <1>1, <1>2
  <2>2. /\ retryProperties(work[s]).m = work[s].m
        /\ retryProperties(work[s]).n = work[s].n + 1
    BY RetryCopyIsBody DEF AttemptsLeft
  <2>3. \A c \in Copy : body'[c] = body[c] \/ body'[c] = retryProperties(work[s])
    OBVIOUS
  <2>4. \A c \in Copy : body'[c].m \in Msg => body'[c].n <= runs[body'[c].m]
    <3> TAKE c \in Copy
    <3>1. CASE body'[c] = body[c]
      BY <3>1 DEF CountsRuns
    <3>2. CASE body'[c] = retryProperties(work[s])
      BY <2>1, <2>2, <3>2 DEF Body
    <3> QED BY <2>3, <3>1, <3>2
  <2>5. CountsRuns'
    BY <2>1, <2>4 DEF CountsRuns
  <2>6. AttemptsRespected'
    BY <2>1, <2>2, <2>3 DEF AttemptsRespected
  <2> QED BY <2>5, <2>6
<1>15. CASE RepublishConfirmed(s)
  BY <1>4, <1>15, SettleKeepsCounts DEF RepublishConfirmed, Fate
<1>16. CASE ErrorReplyConfirmed(s)
  <2>1. RepliesJustified
    BY <1>3, <1>16 DEF ErrorReplyConfirmed, Answer, RepliesJustified, NoAttemptLeft, TInv, TypeOK
  <2> QED BY <1>3, <1>16, <2>1, ExhaustKeepsCounts DEF ErrorReplyConfirmed
<1>17. CASE DeadLetterLands(s)
  <2> USE <1>17 DEF DeadLetterLands, GoTo, TInv, TypeOK, CountInv, broker
  <2>1. CountsRuns'
    BY DEF CountsRuns
  <2>2. AttemptsRespected'
    BY <1>1, <1>3 DEF AttemptsRespected, NoAttemptLeft
  <2> QED BY <2>1, <2>2
<1>18. CASE DeadLetterConfirmed(s)
  BY <1>4, <1>18, SettleKeepsCounts DEF DeadLetterConfirmed, Fate
<1>19. CASE DeadLetterRefused(s)
  BY <1>4, <1>19, NackRequeueKeepsCounts DEF DeadLetterRefused
<1>20. CASE ReplyRefused(s)
  BY <1>2, <1>4, <1>20, ErrorHandlerKeepsCounts DEF ReplyRefused
<1>21. CASE RepublishRefused(s)
  BY <1>4, <1>21, NackRequeueKeepsCounts DEF RepublishRefused
<1>22. CASE ErrorReplyRefused(s)
  BY <1>3, <1>4, <1>22, ExhaustKeepsCounts DEF ErrorReplyRefused
<1> QED
  BY <1>5, <1>6, <1>7, <1>8, <1>9, <1>10, <1>11, <1>12, <1>13, <1>14, <1>15, <1>16, <1>17,
     <1>18, <1>19, <1>20, <1>21, <1>22 DEF SlotStep

LEMMA BrokerKeepsCounts ==
    ASSUME TInv, CountInv,
           \/ \E m \in Msg : Publish(m)
           \/ \E s \in Slot, c \in Copy : Deliver(s, c)
           \/ \E c \in Copy : DelayElapses(c) \/ MessageExpires(c)
           \/ WaitQueueExpires
           \/ ConnectionLost
    PROVE  CountInv'
<1> USE DEF TInv, TypeOK, CountInv
<1>1. ASSUME NEW m \in Msg, Publish(m) PROVE CountInv'
  <2>1. CountsRuns'
    BY <1>1 DEF Publish, tasks, CountsRuns
  <2>2. AttemptsRespected'
    BY <1>1 DEF Publish, AttemptsRespected
  <2> QED BY <2>1, <2>2
<1>2. ASSUME NEW s \in Slot, NEW c \in Copy, Deliver(s, c) PROVE CountInv'
  <2>1. CountsRuns'
    BY <1>2 DEF Deliver, history, CountsRuns
  <2>2. AttemptsRespected'
    BY <1>2 DEF Deliver, history, AttemptsRespected
  <2> QED BY <2>1, <2>2
<1>3. ASSUME NEW c \in Copy, DelayElapses(c) PROVE CountInv'
  BY <1>3 DEF DelayElapses, tasks, history, CountsRuns, AttemptsRespected
<1>4. ASSUME NEW c \in Copy, MessageExpires(c) PROVE CountInv'
  <2>1. CountsRuns'
    BY <1>4 DEF MessageExpires, tasks, CountsRuns, Blank
  <2>2. AttemptsRespected'
    BY <1>4 DEF MessageExpires, AttemptsRespected, Contentful, Blank
  <2> QED BY <2>1, <2>2
<1>5. CASE WaitQueueExpires
  <2>1. CountsRuns'
    BY <1>5 DEF WaitQueueExpires, tasks, history, CountsRuns, Blank
  <2>2. \A c \in Copy : body'[c] = body[c] \/ body'[c] = Blank
    BY <1>5 DEF WaitQueueExpires
  <2>3. AttemptsRespected'
    BY <1>5, <2>2 DEF WaitQueueExpires, history, AttemptsRespected, Blank
  <2> QED BY <2>1, <2>3
<1>6. CASE ConnectionLost
  <2>1. CountsRuns'
    BY <1>6 DEF ConnectionLost, history, CountsRuns, Blank
  <2>2. AttemptsRespected'
    BY <1>6 DEF ConnectionLost, history, AttemptsRespected
  <2> QED BY <2>1, <2>2
<1> QED BY <1>1, <1>2, <1>3, <1>4, <1>5, <1>6

\* Attempts are respected: the policy drops or dead-letters a message, or tells
\* its caller that attempts are exhausted, only after maxAttempts runs of the
\* handler, and neither runs nor retries what does not deserialize, whatever is
\* lost, refused or expires (retry-policy.ts: the counter travels in the header
\* of the copy, and the copy is all a later run knows).
THEOREM AttemptsAreRespected == Spec => []AttemptsRespected
<1>1. Init => CountInv
  <2> SUFFICES ASSUME Init PROVE CountInv
    OBVIOUS
  <2>1. CountsRuns
    BY DEF Init, CountsRuns, Blank
  <2>2. AttemptsRespected
    <3>1. \A m \in Msg : fate[m] \cap {"dropped", "dead"} = {} /\ reply[m] # "exhausted" /\ runs[m] = 0
      BY DEF Init
    <3>2. \A c \in Copy : body[c].n = 0
      BY DEF Init, Blank
    <3> QED BY <3>1, <3>2 DEF AttemptsRespected
  <2> QED BY <2>1, <2>2 DEF CountInv
<1>2. TInv /\ CountInv /\ [Next]_vars => CountInv'
  <2> SUFFICES ASSUME TInv, CountInv, [Next]_vars PROVE CountInv'
    OBVIOUS
  <2>1. UNCHANGED vars => CountInv'
    BY DEF vars, broker, tasks, history, CountInv, CountsRuns, AttemptsRespected
  <2>2. Next => CountInv'
    BY SlotStepKeepsCounts, BrokerKeepsCounts DEF Next, Fault
  <2> QED BY <2>1, <2>2
<1>3. CountInv => AttemptsRespected
  BY DEF CountInv
<1> QED BY InitTInv, NextTInv, <1>1, <1>2, <1>3, PTL DEF Spec

-----------------------------------------------------------------------------
(* Requests are answered. *)

\* A reply that was sent is not taken back, and a refusal not forgotten.
AnswersStay ==
    /\ \A m \in Msg : reply[m] # "none" => reply'[m] # "none"
    /\ refusals' = 0 => refusals = 0

\* The caller of m, if it has one, has its answer after the step.
Told(m) == m \in WantsReply /\ refusals' = 0 => reply'[m] # "none"

LEMMA SettleKeepsAnswered ==
    ASSUME TInv, AnsweredFirst, NEW s \in Slot, pc[s] # "idle",
           NEW f \in SUBSET (Fate \ {"discarded"}), Settle(s, f),
           f \cap {"handled", "dropped", "dead"} # {} => Told(work[s].m), AnswersStay
    PROVE  AnsweredFirst'
<1> SUFFICES ASSUME refusals' = 0
             PROVE  /\ \A m \in Msg : "discarded" \notin fate'[m]
                    /\ \A m \in WantsReply :
                         fate'[m] \cap {"handled", "dropped", "dead"} # {} => reply'[m] # "none"
                    /\ \A t \in Slot : pc'[t] \in {"deadLettering", "deadLettered"}
                                       /\ work'[t].m \in WantsReply
                         => reply'[work'[t].m] # "none"
  BY DEF AnsweredFirst
<1> USE DEF TInv, TypeOK, AnsweredFirst, AnswersStay, Settle, Finish
<1>1. \A m \in Msg : fate'[m] = fate[m] \/ (m = work[s].m /\ fate'[m] = fate[m] \cup f)
  OBVIOUS
<1>2. \A m \in Msg : "discarded" \notin fate'[m]
  BY <1>1
<1>3. \A m \in WantsReply :
         fate'[m] \cap {"handled", "dropped", "dead"} # {} => reply'[m] # "none"
  BY <1>1 DEF Told
<1>4. \A t \in Slot : pc'[t] \in {"deadLettering", "deadLettered"} /\ work'[t].m \in WantsReply
         => reply'[work'[t].m] # "none"
  OBVIOUS
<1> QED BY <1>2, <1>3, <1>4

LEMMA NackRequeueKeepsAnswered ==
    ASSUME TInv, AnsweredFirst, NEW s \in Slot, NackRequeue(s), AnswersStay
    PROVE  AnsweredFirst'
BY DEF TInv, TypeOK, AnsweredFirst, AnswersStay, NackRequeue, Finish

LEMMA GoToKeepsAnswered ==
    ASSUME TInv, AnsweredFirst, NEW s \in Slot, NEW a \in Await, GoTo(s, a),
           a \in {"deadLettering", "deadLettered"} => Told(work[s].m), AnswersStay,
           UNCHANGED fate
    PROVE  AnsweredFirst'
BY DEF TInv, TypeOK, AnsweredFirst, AnswersStay, Told, GoTo

LEMMA ExhaustKeepsAnswered ==
    ASSUME TInv, AnsweredFirst, NEW s \in Slot, pc[s] # "idle", exhaust(s), Told(work[s].m),
           AnswersStay
    PROVE  AnsweredFirst'
<1>1. CASE DeadLetter
  BY <1>1, GoToKeepsAnswered DEF exhaust, Await
<1>2. CASE ~DeadLetter
  <2>1. {"dropped"} \in SUBSET (Fate \ {"discarded"})
    BY DEF Fate
  <2> QED BY <1>2, <2>1, SettleKeepsAnswered DEF exhaust
<1> QED BY <1>1, <1>2

\* The retry policy tells the caller of a request before it gives it up.
LEMMA ErrorHandlerKeepsAnswered ==
    ASSUME Policy = "retry", TInv, AnsweredFirst, NEW s \in Slot, pc[s] # "idle",
           NEW r \in BOOLEAN, errorHandler(s, r), AnswersStay
    PROVE  AnsweredFirst'
<1>1. CASE ~Exhausted(work[s], r)
  <2>1. (GoTo(s, "asserting") \/ GoTo(s, "republishing")) /\ UNCHANGED fate
    BY <1>1 DEF errorHandler, retryErrorHandler, scheduleRetry
  <2> QED BY <2>1, GoToKeepsAnswered DEF Await
<1>2. CASE Exhausted(work[s], r) /\ work[s].m \in WantsReply
  BY <1>2, GoToKeepsAnswered
  DEF errorHandler, retryErrorHandler, replyErrorToRpcCaller, Await
<1>3. CASE Exhausted(work[s], r) /\ work[s].m \notin WantsReply
  BY <1>3, ExhaustKeepsAnswered
  DEF errorHandler, retryErrorHandler, replyErrorToRpcCaller, Told
<1> QED BY <1>1, <1>2, <1>3

LEMMA AckHandledKeepsAnswered ==
    ASSUME Policy = "retry", TInv, AnsweredFirst, NEW s \in Slot, pc[s] # "idle",
           AckHandled(s), Told(work[s].m), AnswersStay
    PROVE  AnsweredFirst'
<1>1. {"handled"} \in SUBSET (Fate \ {"discarded"})
  BY DEF Fate
<1> QED BY <1>1, SettleKeepsAnswered, ErrorHandlerKeepsAnswered DEF AckHandled

LEMMA SlotStepKeepsAnswered ==
    ASSUME Policy = "retry", Rpc, TInv, AnsweredFirst, NEW s \in Slot,
           SlotStep(s) \/ ReplyRefused(s) \/ RepublishRefused(s) \/ ErrorReplyRefused(s)
    PROVE  AnsweredFirst'
<1>1. UNCHANGED <<reply, faults>> => AnswersStay
  BY DEF AnswersStay, faults
<1>2. Refused => refusals' # 0
  BY DEF Refused, TInv, TypeOK
<1>3. pc[s] # "idle" => work[s].m \in Msg
  BY DEF TInv, Contentful
<1>4. pc[s] \in {"deadLettering", "deadLettered"} /\ AnswersStay => Told(work[s].m)
  BY <1>3 DEF AnsweredFirst, Told, AnswersStay
<1>5. CASE RejectMisrouted(s)
  BY <1>1, <1>5, SettleKeepsAnswered DEF RejectMisrouted, Fate
<1>6. CASE RejectMalformed(s)
  BY <1>1, <1>6, ErrorHandlerKeepsAnswered DEF RejectMalformed
<1>7. CASE CallHandler(s)
  BY <1>1, <1>7, GoToKeepsAnswered DEF CallHandler, Await
<1>8. CASE HandlerSucceeds(s)
  <2>1. CASE work[s].m \in WantsReply
    BY <1>1, <1>8, <2>1, GoToKeepsAnswered DEF HandlerSucceeds, Await
  <2>2. CASE work[s].m \notin WantsReply
    BY <1>1, <1>8, <2>2, AckHandledKeepsAnswered DEF HandlerSucceeds, Told
  <2> QED BY <2>1, <2>2
<1>9. CASE HandlerThrows(s)
  BY <1>1, <1>9, ErrorHandlerKeepsAnswered DEF HandlerThrows
<1>10. CASE HandlerNacks(s)
  <2>1. NackRequeue(s) \/ Settle(s, {"rejected"}) \/ errorHandler(s, TRUE)
    BY <1>10 DEF HandlerNacks
  <2>2. pc[s] = "handling" /\ AnswersStay
    BY <1>1, <1>10 DEF HandlerNacks
  <2> QED
    BY <2>1, <2>2, NackRequeueKeepsAnswered, SettleKeepsAnswered, ErrorHandlerKeepsAnswered DEF Fate
<1>11. CASE ReplyConfirmed(s)
  <2>1. AnswersStay /\ Told(work[s].m)
    BY <1>3, <1>11 DEF ReplyConfirmed, Answer, AnswersStay, Told, faults, TInv, TypeOK
  <2> QED BY <1>11, <2>1, AckHandledKeepsAnswered DEF ReplyConfirmed
<1>12. CASE WaitQueueAsserted(s)
  BY <1>1, <1>12, GoToKeepsAnswered DEF WaitQueueAsserted, history, Await
<1>13. CASE AssertFails(s)
  BY <1>1, <1>13, NackRequeueKeepsAnswered DEF AssertFails
<1>14. CASE RepublishLands(s)
  BY <1>1, <1>14, GoToKeepsAnswered DEF RepublishLands, history, Await
<1>15. CASE RepublishConfirmed(s)
  BY <1>1, <1>15, SettleKeepsAnswered DEF RepublishConfirmed, Fate
<1>16. CASE ErrorReplyConfirmed(s)
  <2>1. AnswersStay /\ Told(work[s].m)
    BY <1>3, <1>16 DEF ErrorReplyConfirmed, Answer, AnswersStay, Told, faults, TInv, TypeOK
  <2> QED BY <1>16, <2>1, ExhaustKeepsAnswered DEF ErrorReplyConfirmed
<1>17. CASE DeadLetterLands(s)
  BY <1>1, <1>3, <1>4, <1>17
  DEF DeadLetterLands, GoTo, AnsweredFirst, AnswersStay, Told, TInv, TypeOK
<1>18. CASE DeadLetterConfirmed(s)
  BY <1>1, <1>18, SettleKeepsAnswered DEF DeadLetterConfirmed, Fate
<1>19. CASE DeadLetterRefused(s)
  <2>1. AnswersStay
    BY <1>1, <1>2, <1>19 DEF DeadLetterRefused, AnswersStay
  <2> QED BY <1>19, <2>1, NackRequeueKeepsAnswered DEF DeadLetterRefused
<1>20. CASE ReplyRefused(s) \/ RepublishRefused(s) \/ ErrorReplyRefused(s)
  BY <1>2, <1>20 DEF ReplyRefused, RepublishRefused, ErrorReplyRefused, AnsweredFirst
<1> QED
  BY <1>5, <1>6, <1>7, <1>8, <1>9, <1>10, <1>11, <1>12, <1>13, <1>14, <1>15, <1>16, <1>17,
     <1>18, <1>19, <1>20 DEF SlotStep

LEMMA BrokerKeepsAnswered ==
    ASSUME TInv, AnsweredFirst,
           \/ \E m \in Msg : Publish(m)
           \/ \E s \in Slot, c \in Copy : Deliver(s, c)
           \/ \E c \in Copy : DelayElapses(c) \/ MessageExpires(c)
           \/ WaitQueueExpires
           \/ ConnectionLost
    PROVE  AnsweredFirst'
<1> USE DEF TInv, TypeOK, AnsweredFirst
<1>1. ASSUME NEW m \in Msg, Publish(m) PROVE AnsweredFirst'
  BY <1>1 DEF Publish, tasks, faults
<1>2. ASSUME NEW s \in Slot, NEW c \in Copy, Deliver(s, c) PROVE AnsweredFirst'
  BY <1>2 DEF Deliver, history, faults
<1>3. ASSUME NEW c \in Copy, DelayElapses(c) PROVE AnsweredFirst'
  BY <1>3 DEF DelayElapses, tasks, history, faults
<1>4. ASSUME NEW c \in Copy, MessageExpires(c) PROVE AnsweredFirst'
  BY <1>4 DEF MessageExpires, tasks, faults, Contentful
<1>5. CASE WaitQueueExpires
  BY <1>5 DEF WaitQueueExpires, tasks, history, faults
<1>6. CASE ConnectionLost
  BY <1>6 DEF ConnectionLost, history
<1> QED BY <1>1, <1>2, <1>3, <1>4, <1>5, <1>6

\* Requests are answered: an RPC consumer that retries tells the caller of
\* every request it has dealt with the result or that attempts are exhausted,
\* unless the handler rejected the request, its expiration passed or the
\* broker refused a publish (retry-policy.ts: replyErrorToRpcCaller runs before
\* the message is dead-lettered or dropped; rabbitmq consumers reply before
\* they ack).
THEOREM RequestsAreAnswered ==
    ASSUME Policy = "retry", Rpc, Dependable
    PROVE  Spec => []RpcAnswered
<1>1. Init => AnsweredFirst
  BY DEF Init, AnsweredFirst
<1>2. TInv /\ AnsweredFirst /\ [Next]_vars => AnsweredFirst'
  <2> SUFFICES ASSUME TInv, AnsweredFirst, [Next]_vars PROVE AnsweredFirst'
    OBVIOUS
  <2>1. UNCHANGED vars => AnsweredFirst'
    BY DEF vars, tasks, history, faults, AnsweredFirst
  <2>2. Next => AnsweredFirst'
    BY SlotStepKeepsAnswered, BrokerKeepsAnswered DEF Next, Fault
  <2> QED BY <2>1, <2>2
<1>3. TInv /\ NoLoss /\ AnsweredFirst => RpcAnswered
  <2> SUFFICES ASSUME TInv, NoLoss, AnsweredFirst, refusals = 0,
                      NEW m \in accepted \cap WantsReply, Settled(m), reply[m] = "none"
               PROVE  fate[m] \cap {"rejected", "expired"} # {}
    BY DEF RpcAnswered
  <2>1. ~OnBroker(m)
    BY DEF OnBroker, Settled
  <2>2. PICK f \in fate[m] : f # "misrouted"
    BY <2>1 DEF NoLoss, Delivered
  <2>3. f \in Fate /\ f \notin {"handled", "dropped", "dead", "discarded"}
    BY <2>2 DEF AnsweredFirst, TInv, TypeOK
  <2> QED BY <2>2, <2>3 DEF Fate
<1> QED BY InitTInv, NextTInv, NothingIsLost, <1>1, <1>2, <1>3, PTL DEF Spec

-----------------------------------------------------------------------------
(* A message ends in one way. *)

FateInv == OneOpenCopy /\ OneFate

Closing == {"republished", "deadLettered"}

\* The copy of a run is open until something else has taken its place.
LEMMA RunsCopyIsOpen ==
    ASSUME TInv, NEW s \in Slot, live[s], pc[s] \notin Closing
    PROVE  Open(on[s])
<1>1. place[on[s]] # "free"
  BY DEF TInv, LiveRunsOwn
<1>2. ~Replaced(on[s])
  BY DEF TInv, LiveRunsDiffer, Replaced, Closing
<1> QED BY <1>1, <1>2 DEF Open

\* A run that ends closes its copy, and no other.
LEMMA SettleClosesOwn ==
    ASSUME TInv, NEW s \in Slot, NEW f \in SUBSET Fate, live[s], Settle(s, f),
           NEW c \in Copy, Open(c)'
    PROVE  c # on[s] /\ Open(c) /\ body'[c] = body[c]
<1> USE DEF TInv, TypeOK, Settle, Finish, LiveRunsOwn
<1>1. c # on[s] /\ place'[c] = place[c] /\ body'[c] = body[c]
  BY DEF Open
<1>2. Replaced(c) => Replaced(c)'
  BY <1>1 DEF Replaced
<1> QED BY <1>1, <1>2 DEF Open

LEMMA SettleKeepsOneFate ==
    ASSUME TInv, FateInv, NEW s \in Slot, pc[s] # "idle", NEW f \in SUBSET Fate, Settle(s, f),
           f = {} \/ (pc[s] \notin Closing /\ \E x \in Fate : f = {x}),
           UNCHANGED <<accepted, losses>>
    PROVE  FateInv'
<1> SUFFICES ASSUME losses = 0
             PROVE  /\ \A t \in Slot : pc'[t] # "idle" => live'[t]
                    /\ \A c \in Copy : place'[c] # "free" => body'[c].m \in accepted
                    /\ \A m \in Msg \ accepted : fate'[m] = {}
                    /\ \A c \in Copy : Open(c)' => fate'[body'[c].m] = {}
                    /\ \A c, d \in Copy : Open(c)' /\ Open(d)' /\ body'[c].m = body'[d].m => c = d
                    /\ \A m \in Msg : \A x, y \in fate'[m] : x = y
  BY DEF FateInv, OneOpenCopy, OneFate
<1> DEFINE m0 == work[s].m
<1>1. /\ live[s] /\ on[s] \in Copy /\ place[on[s]] # "free" /\ body[on[s]].m = m0 /\ m0 \in Msg
      /\ m0 \in accepted
  BY DEF FateInv, OneOpenCopy, TInv, LiveRunsOwn, Contentful
<1>2. \A m \in Msg : fate'[m] = IF m = m0 THEN fate[m] \cup f ELSE fate[m]
  BY <1>1 DEF Settle, TInv, TypeOK
<1>3. f # {} => fate[m0] = {} /\ \A c \in Copy : Open(c) /\ body[c].m = m0 => c = on[s]
  BY <1>1, RunsCopyIsOpen DEF FateInv, OneOpenCopy
<1>4. \A c \in Copy : Open(c)' => c # on[s] /\ Open(c) /\ body'[c] = body[c] /\ body[c].m \in Msg
  BY <1>1, SettleClosesOwn DEF Open, TInv, Contentful
<1>5. \A t \in Slot : pc'[t] # "idle" => live'[t]
  BY DEF Settle, Finish, TInv, TypeOK, FateInv, OneOpenCopy
<1>6. \A c \in Copy : place'[c] # "free" => body'[c].m \in accepted
  BY <1>1 DEF Settle, TInv, TypeOK, FateInv, OneOpenCopy
<1>7. \A m \in Msg \ accepted : fate'[m] = {}
  BY <1>1, <1>2 DEF FateInv, OneOpenCopy
<1>8. \A m \in Msg : \/ fate'[m] = fate[m]
                     \/ f # {} /\ m = m0 /\ \E x \in Fate : fate'[m] = {x}
  <2> SUFFICES ASSUME NEW m \in Msg, fate'[m] # fate[m]
               PROVE  f # {} /\ m = m0 /\ \E x \in Fate : fate'[m] = {x}
    OBVIOUS
  <2>1. f # {} /\ m = m0 /\ fate[m0] = {} /\ fate'[m] = fate[m0] \cup f
    BY <1>2, <1>3
  <2> QED BY <2>1
<1>9. \A c \in Copy : Open(c)' => fate'[body'[c].m] = {}
  <2> SUFFICES ASSUME NEW c \in Copy, Open(c)' PROVE fate'[body[c].m] = {}
    BY <1>4
  <2>1. fate[body[c].m] = {} /\ body[c].m \in Msg
    BY <1>4 DEF FateInv, OneOpenCopy
  <2>2. f # {} => body[c].m # m0
    BY <1>3, <1>4
  <2> QED BY <1>8, <2>1, <2>2
<1>10. \A c, d \in Copy : Open(c)' /\ Open(d)' /\ body'[c].m = body'[d].m => c = d
  BY <1>4 DEF FateInv, OneOpenCopy
<1>11. \A m \in Msg : \A x, y \in fate'[m] : x = y
  <2> SUFFICES ASSUME NEW m \in Msg, NEW x \in fate'[m], NEW y \in fate'[m] PROVE x = y
    OBVIOUS
  <2> QED BY <1>8 DEF FateInv, OneFate
<1> QED BY <1>5, <1>6, <1>7, <1>9, <1>10, <1>11

LEMMA NackRequeueKeepsOneFate ==
    ASSUME TInv, FateInv, NEW s \in Slot, pc[s] # "idle", pc[s] \notin Closing, NackRequeue(s),
           UNCHANGED <<accepted, losses>>
    PROVE  FateInv'
<1> SUFFICES ASSUME losses = 0
             PROVE  OneOpenCopy'
  BY DEF FateInv, OneOpenCopy, OneFate, NackRequeue
<1> USE DEF TInv, TypeOK, NackRequeue, Finish
<1>1. live[s] /\ on[s] \in Copy /\ Open(on[s])
  BY RunsCopyIsOpen DEF FateInv, OneOpenCopy, LiveRunsOwn
<1>2. \A c \in Copy : (place'[c] # "free" => place[c] # "free") /\ body'[c] = body[c]
  BY <1>1 DEF Open
<1>3. \A c \in Copy : Open(c)' => Open(c)
  <2> SUFFICES ASSUME NEW c \in Copy, Open(c)' PROVE Open(c)
    OBVIOUS
  <2>1. Replaced(c) => Replaced(c)'
    BY DEF Replaced, Closing
  <2> QED BY <1>2, <2>1 DEF Open
<1> QED BY <1>2, <1>3 DEF FateInv, OneOpenCopy

LEMMA GoToKeepsOneFate ==
    ASSUME TInv, FateInv, NEW s \in Slot, pc[s] # "idle", pc[s] \notin Closing,
           NEW a \in Await, GoTo(s, a), UNCHANGED <<place, body, fate, accepted, losses>>
    PROVE  FateInv'
<1> USE DEF TInv, TypeOK, GoTo
<1>1. \A c \in Copy : Open(c)' => Open(c)
  <2> SUFFICES ASSUME NEW c \in Copy, Open(c)' PROVE Open(c)
    OBVIOUS
  <2>1. Replaced(c) => Replaced(c)'
    BY DEF Replaced, Closing
  <2> QED BY <2>1 DEF Open
<1>2. OneOpenCopy'
  BY <1>1 DEF FateInv, OneOpenCopy
<1> QED BY <1>2 DEF FateInv, OneFate

LEMMA ExhaustKeepsOneFate ==
    ASSUME TInv, FateInv, NEW s \in Slot, pc[s] # "idle", pc[s] \notin Closing, exhaust(s),
           UNCHANGED <<accepted, losses>>
    PROVE  FateInv'
<1>1. CASE DeadLetter
  BY <1>1, GoToKeepsOneFate DEF exhaust, Await
<1>2. CASE ~DeadLetter
  BY <1>2, SettleKeepsOneFate DEF exhaust, Fate
<1> QED BY <1>1, <1>2

LEMMA ErrorHandlerKeepsOneFate ==
    ASSUME TInv, FateInv, NEW s \in Slot, pc[s] # "idle", pc[s] \notin Closing,
           NEW r \in BOOLEAN, errorHandler(s, r), UNCHANGED <<accepted, losses>>
    PROVE  FateInv'
<1>1. CASE Policy = "retry" /\ ~Exhausted(work[s], r)
  <2>1. (GoTo(s, "asserting") \/ GoTo(s, "republishing")) /\ UNCHANGED <<place, body, fate>>
    BY <1>1 DEF errorHandler, retryErrorHandler, scheduleRetry
  <2> QED BY <2>1, GoToKeepsOneFate DEF Await
<1>2. CASE Policy = "retry" /\ Exhausted(work[s], r) /\ work[s].m \in WantsReply
  BY <1>2, GoToKeepsOneFate DEF errorHandler, retryErrorHandler, replyErrorToRpcCaller, Await
<1>3. CASE Policy = "retry" /\ Exhausted(work[s], r) /\ work[s].m \notin WantsReply
  BY <1>3, ExhaustKeepsOneFate DEF errorHandler, retryErrorHandler, replyErrorToRpcCaller
<1>4. CASE Policy # "retry"
  <2>1. NackRequeue(s) \/ Settle(s, {"discarded"}) \/ Settle(s, {"rejected"})
    BY <1>4 DEF errorHandler, legacyErrorHandler
  <2> QED BY <2>1, SettleKeepsOneFate, NackRequeueKeepsOneFate DEF Fate
<1> QED BY <1>1, <1>2, <1>3, <1>4

LEMMA AckHandledKeepsOneFate ==
    ASSUME TInv, FateInv, NEW s \in Slot, pc[s] # "idle", pc[s] \notin Closing, AckHandled(s),
           UNCHANGED <<accepted, losses>>
    PROVE  FateInv'
BY SettleKeepsOneFate, ErrorHandlerKeepsOneFate DEF AckHandled, Fate

\* The copy that is published takes the place of the one that is to be acked.
LEMMA RepublishKeepsOneFate ==
    ASSUME TInv, FateInv, NEW s \in Slot, RepublishLands(s)
    PROVE  FateInv'
<1> SUFFICES ASSUME losses = 0 PROVE OneOpenCopy'
  BY DEF FateInv, OneOpenCopy, OneFate, RepublishLands, history, faults
<1> USE DEF TInv, TypeOK, RepublishLands, GoTo, history, faults
<1> DEFINE m0 == work[s].m
<1>1. /\ live[s] /\ on[s] \in Copy /\ Open(on[s]) /\ body[on[s]].m = m0
      /\ place[on[s]] = "unacked" /\ m0 \in accepted
  BY RunsCopyIsOpen DEF FateInv, OneOpenCopy, LiveRunsOwn, Closing
<1>2. ~Open(on[s])'
  BY <1>1 DEF Open, Replaced
<1>3. retryProperties(work[s]).m = m0
  BY DEF retryProperties
<1>4. \A c \in Copy : Replaced(c) => Replaced(c)'
  BY DEF Replaced
<1>5. PICK c0 \in Copy :
        \A c \in Copy :
          \/ place'[c] = place[c] /\ body'[c] = body[c]
          \/ c = c0 /\ place[c] = "free" /\ body'[c] = retryProperties(work[s])
  BY <1>1
<1>6. \A c \in Copy : Open(c)' => \/ Open(c) /\ c # on[s] /\ body'[c] = body[c]
                                  \/ c = c0 /\ body'[c].m = m0
  BY <1>2, <1>3, <1>4, <1>5 DEF Open
<1>7. \A c \in Copy : Open(c) /\ body[c].m = m0 => c = on[s]
  BY <1>1 DEF FateInv, OneOpenCopy
<1>8. \A c, d \in Copy : Open(c)' /\ Open(d)' /\ body'[c].m = body'[d].m => c = d
  BY <1>6, <1>7 DEF FateInv, OneOpenCopy
<1>9. \A c \in Copy : Open(c)' => fate'[body'[c].m] = {}
  <2>1. \A c \in Copy : Open(c) => fate[body[c].m] = {}
    BY DEF FateInv, OneOpenCopy
  <2>2. fate[m0] = {}
    BY <1>1, <2>1
  <2>3. fate' = fate
    OBVIOUS
  <2> HIDE DEF m0, TInv, TypeOK, RepublishLands
  <2> QED BY <1>6, <2>1, <2>2, <2>3
<1>10. \A c \in Copy : place'[c] # "free" => body'[c].m \in accepted'
  BY <1>1, <1>3, <1>5 DEF FateInv, OneOpenCopy
<1> QED BY <1>8, <1>9, <1>10 DEF FateInv, OneOpenCopy

\* So does the message in the dead-letter exchange.
LEMMA DeadLetterKeepsOneFate ==
    ASSUME TInv, FateInv, NEW s \in Slot, DeadLetterLands(s)
    PROVE  FateInv'
<1> SUFFICES ASSUME losses = 0 PROVE FateInv'
  BY DEF FateInv, OneOpenCopy, OneFate, DeadLetterLands, faults
<1> USE DEF TInv, TypeOK, DeadLetterLands, GoTo, broker, faults
<1> DEFINE m0 == work[s].m
<1>1. /\ live[s] /\ on[s] \in Copy /\ Open(on[s]) /\ body[on[s]].m = m0
      /\ m0 \in accepted /\ m0 \in Msg
  BY RunsCopyIsOpen DEF FateInv, OneOpenCopy, LiveRunsOwn, Closing, Open
<1>2. ~Open(on[s])'
  BY <1>1 DEF Open, Replaced
<1>3. \A c \in Copy : Open(c)' => Open(c) /\ c # on[s]
  <2> SUFFICES ASSUME NEW c \in Copy, Open(c)' PROVE Open(c)
    BY <1>2
  <2>1. Replaced(c) => Replaced(c)'
    BY DEF Replaced
  <2> QED BY <2>1 DEF Open
<1>4. fate[m0] = {} /\ \A c \in Copy : Open(c) /\ body[c].m = m0 => c = on[s]
  BY <1>1 DEF FateInv, OneOpenCopy
<1>5. \A m \in Msg : fate'[m] = IF m = m0 THEN {"dead"} ELSE fate[m]
  BY <1>1, <1>4
<1>6. OneFate'
  <2> SUFFICES ASSUME NEW m \in Msg, NEW x \in fate'[m], NEW y \in fate'[m] PROVE x = y
    BY DEF OneFate
  <2>1. CASE m = m0
    <3>1. x \in {"dead"} /\ y \in {"dead"}
      BY <1>5, <2>1
    <3> QED BY <3>1
  <2>2. CASE m # m0
    BY <1>5, <2>2 DEF FateInv, OneFate
  <2> QED BY <2>1, <2>2
<1>7. \A c \in Copy : Open(c)' => fate'[body[c].m] = {}
  BY <1>3, <1>4, <1>5 DEF FateInv, OneOpenCopy, Open, Contentful
<1>8. OneOpenCopy'
  BY <1>1, <1>3, <1>5, <1>7 DEF FateInv, OneOpenCopy
<1> QED BY <1>6, <1>8 DEF FateInv

LEMMA SlotStepKeepsOneFate ==
    ASSUME TInv, FateInv, NEW s \in Slot,
           SlotStep(s) \/ ReplyRefused(s) \/ RepublishRefused(s) \/ ErrorReplyRefused(s)
    PROVE  FateInv'
<1> USE DEF Closing
<1>1. CASE RejectMisrouted(s)
  BY <1>1, SettleKeepsOneFate DEF RejectMisrouted, Fate, faults
<1>2. CASE RejectMalformed(s)
  BY <1>2, ErrorHandlerKeepsOneFate DEF RejectMalformed, faults
<1>3. CASE CallHandler(s)
  BY <1>3, GoToKeepsOneFate DEF CallHandler, Await, broker, faults
<1>4. CASE HandlerSucceeds(s)
  <2>1. CASE Rpc /\ work[s].m \in WantsReply
    BY <1>4, <2>1, GoToKeepsOneFate DEF HandlerSucceeds, Await, faults
  <2>2. CASE ~(Rpc /\ work[s].m \in WantsReply)
    BY <1>4, <2>2, AckHandledKeepsOneFate DEF HandlerSucceeds, faults
  <2> QED BY <2>1, <2>2
<1>5. CASE HandlerThrows(s)
  BY <1>5, ErrorHandlerKeepsOneFate DEF HandlerThrows, faults
<1>6. CASE HandlerNacks(s)
  <2>1. NackRequeue(s) \/ Settle(s, {"rejected"}) \/ errorHandler(s, TRUE)
    BY <1>6 DEF HandlerNacks
  <2>2. pc[s] = "handling" /\ UNCHANGED <<accepted, losses>>
    BY <1>6 DEF HandlerNacks, faults
  <2> QED
    BY <2>1, <2>2, NackRequeueKeepsOneFate, SettleKeepsOneFate, ErrorHandlerKeepsOneFate DEF Fate
<1>7. CASE ReplyConfirmed(s)
  BY <1>7, AckHandledKeepsOneFate DEF ReplyConfirmed, faults
<1>8. CASE WaitQueueAsserted(s)
  BY <1>8, GoToKeepsOneFate DEF WaitQueueAsserted, broker, history, Await, faults
<1>9. CASE AssertFails(s)
  BY <1>9, NackRequeueKeepsOneFate DEF AssertFails, faults
<1>10. CASE RepublishLands(s)
  BY <1>10, RepublishKeepsOneFate
<1>11. CASE RepublishConfirmed(s)
  BY <1>11, SettleKeepsOneFate DEF RepublishConfirmed, faults
<1>12. CASE ErrorReplyConfirmed(s)
  BY <1>12, ExhaustKeepsOneFate DEF ErrorReplyConfirmed, faults
<1>13. CASE DeadLetterLands(s)
  BY <1>13, DeadLetterKeepsOneFate
<1>14. CASE DeadLetterConfirmed(s)
  BY <1>14, SettleKeepsOneFate DEF DeadLetterConfirmed, faults
<1>15. CASE DeadLetterRefused(s)
  BY <1>15, NackRequeueKeepsOneFate DEF DeadLetterRefused, Refused, faults
<1>16. CASE ReplyRefused(s)
  BY <1>16, ErrorHandlerKeepsOneFate DEF ReplyRefused, Refused
<1>17. CASE RepublishRefused(s)
  BY <1>17, NackRequeueKeepsOneFate DEF RepublishRefused, Refused
<1>18. CASE ErrorReplyRefused(s)
  BY <1>18, ExhaustKeepsOneFate DEF ErrorReplyRefused, Refused
<1> QED
  BY <1>1, <1>2, <1>3, <1>4, <1>5, <1>6, <1>7, <1>8, <1>9, <1>10, <1>11, <1>12, <1>13,
     <1>14, <1>15, <1>16, <1>17, <1>18 DEF SlotStep

LEMMA BrokerKeepsOneFate ==
    ASSUME TInv, FateInv,
           \/ \E m \in Msg : Publish(m)
           \/ \E s \in Slot, c \in Copy : Deliver(s, c)
           \/ \E c \in Copy : DelayElapses(c) \/ MessageExpires(c)
           \/ WaitQueueExpires
           \/ ConnectionLost
    PROVE  FateInv'
<1> USE DEF TInv, TypeOK
<1>1. ASSUME NEW m \in Msg, Publish(m) PROVE FateInv'
  <2> USE <1>1 DEF Publish, tasks, faults
  <2>1. CASE losses = 0
    <3>1. fate[m] = {} /\ \A c \in Copy : place[c] # "free" => body[c].m # m
      BY <2>1 DEF FateInv, OneOpenCopy
    <3>2. PICK c0 \in Copy :
            /\ place' = [place EXCEPT ![c0] = "ready"]
            /\ body' = [body EXCEPT ![c0] = [m |-> m, n |-> 0, key |-> "own"]]
      OBVIOUS
    <3>3. \A c \in Copy : Open(c)' => \/ c # c0 /\ Open(c) /\ body'[c] = body[c]
                                      \/ c = c0 /\ body'[c].m = m
      BY <3>2 DEF Open, Replaced
    <3>4. OneOpenCopy'
      <4>1. \A c \in Copy : Open(c)' => fate[body'[c].m] = {}
        BY <2>1, <3>1, <3>3 DEF FateInv, OneOpenCopy
      <4>2. \A c, d \in Copy : Open(c)' /\ Open(d)' /\ body'[c].m = body'[d].m => c = d
        BY <2>1, <3>1, <3>3 DEF FateInv, OneOpenCopy, Open
      <4>3. \A c \in Copy : place'[c] # "free" => body'[c].m \in accepted'
        BY <2>1, <3>2 DEF FateInv, OneOpenCopy
      <4> QED BY <2>1, <4>1, <4>2, <4>3 DEF FateInv, OneOpenCopy
    <3> QED BY <3>4 DEF FateInv, OneFate
  <2>2. CASE losses # 0
    BY <2>2 DEF FateInv, OneOpenCopy, OneFate
  <2> QED BY <2>1, <2>2
<1>2. ASSUME NEW s \in Slot, NEW c \in Copy, Deliver(s, c) PROVE FateInv'
  <2> USE <1>2 DEF Deliver, history, faults
  <2>1. \A d \in Copy : Open(d)' => Open(d)
    <3> SUFFICES ASSUME NEW d \in Copy, Open(d)' PROVE Open(d)
      OBVIOUS
    <3>1. Replaced(d) => Replaced(d)'
      BY DEF Replaced
    <3> QED BY <3>1 DEF Open
  <2>2. OneOpenCopy'
    BY <2>1 DEF FateInv, OneOpenCopy
  <2> QED BY <2>2 DEF FateInv, OneFate
<1>3. ASSUME NEW c \in Copy, DelayElapses(c) PROVE FateInv'
  <2> USE <1>3 DEF DelayElapses, tasks, history, faults
  <2>1. \A d \in Copy : Open(d)' => Open(d)
    BY DEF Open, Replaced
  <2>2. OneOpenCopy'
    BY <2>1 DEF FateInv, OneOpenCopy
  <2> QED BY <2>2 DEF FateInv, OneFate
<1>4. ASSUME NEW c \in Copy, MessageExpires(c) PROVE FateInv'
  <2> USE <1>4 DEF MessageExpires, tasks, faults
  <2>1. CASE losses = 0
    <3> DEFINE m0 == body[c].m
    <3>1. Open(c)
      BY DEF Open, Replaced, LiveRunsOwn
    <3>2. /\ m0 \in Msg /\ m0 \in accepted /\ fate[m0] = {}
          /\ \A d \in Copy : Open(d) /\ body[d].m = m0 => d = c
      BY <2>1, <3>1 DEF FateInv, OneOpenCopy, Contentful
    <3>3. \A m \in Msg : fate'[m] = IF m = m0 THEN {"expired"} ELSE fate[m]
      BY <3>2
    <3>4. \A d \in Copy : Open(d)' => d # c /\ Open(d) /\ body'[d] = body[d] /\ body[d].m \in Msg
      BY DEF Open, Replaced, Contentful
    <3>5. \A d \in Copy : Open(d)' => fate'[body'[d].m] = {}
      <4> SUFFICES ASSUME NEW d \in Copy, Open(d)' PROVE fate'[body[d].m] = {}
        BY <3>4
      <4>1. body[d].m # m0 /\ body[d].m \in Msg /\ fate[body[d].m] = {}
        BY <2>1, <3>2, <3>4 DEF FateInv, OneOpenCopy
      <4> QED BY <3>3, <4>1
    <3>6. OneOpenCopy'
      BY <2>1, <3>2, <3>3, <3>4, <3>5 DEF FateInv, OneOpenCopy
    <3>7. \A m \in Msg : \A x, y \in fate'[m] : x = y
      <4> SUFFICES ASSUME NEW m \in Msg, NEW x \in fate'[m], NEW y \in fate'[m] PROVE x = y
        OBVIOUS
      <4>1. CASE m = m0
        <5>1. x \in {"expired"} /\ y \in {"expired"}
          BY <3>3, <4>1
        <5> QED BY <5>1
      <4>2. CASE m # m0
        BY <2>1, <3>3, <4>2 DEF FateInv, OneFate
      <4> QED BY <4>1, <4>2
    <3> QED BY <3>6, <3>7 DEF FateInv, OneFate
  <2>2. CASE losses # 0
    BY <2>2 DEF FateInv, OneOpenCopy, OneFate
  <2> QED BY <2>1, <2>2
<1>5. CASE WaitQueueExpires
  <2> USE <1>5 DEF WaitQueueExpires, tasks, history, faults
  <2>1. \A d \in Copy : Open(d)' => Open(d) /\ body'[d] = body[d]
    BY DEF Open, Replaced
  <2>2. OneOpenCopy'
    BY <2>1 DEF FateInv, OneOpenCopy
  <2> QED BY <2>2 DEF FateInv, OneFate
<1>6. CASE ConnectionLost
  <2>1. losses' # 0
    BY <1>6 DEF ConnectionLost
  <2> QED BY <2>1 DEF FateInv, OneOpenCopy, OneFate
<1> QED BY <1>1, <1>2, <1>3, <1>4, <1>5, <1>6

\* A message ends in one way: while no connection is lost the original and the
\* copy that supersedes it are never both settled, whatever the broker refuses
\* or expires and however runs of the callback overlap (retry-policy.ts: ack
\* after the confirm, nack only without one, never both).
THEOREM MessagesEndOnce == Spec => []OneFate
<1>1. Init => FateInv
  <2> SUFFICES ASSUME Init PROVE FateInv
    OBVIOUS
  <2>1. OneOpenCopy
    BY DEF Init, OneOpenCopy, Open
  <2> QED BY <2>1 DEF Init, FateInv, OneFate
<1>2. TInv /\ FateInv /\ [Next]_vars => FateInv'
  <2> SUFFICES ASSUME TInv, FateInv, [Next]_vars PROVE FateInv'
    OBVIOUS
  <2>1. UNCHANGED vars => FateInv'
    BY DEF vars, broker, tasks, history, faults, FateInv, OneOpenCopy, OneFate, Open, Replaced
  <2>2. Next => FateInv'
    BY SlotStepKeepsOneFate, BrokerKeepsOneFate DEF Next, Fault
  <2> QED BY <2>1, <2>2
<1>3. FateInv => OneFate
  BY DEF FateInv
<1> QED BY InitTInv, NextTInv, <1>1, <1>2, <1>3, PTL DEF Spec
=============================================================================
