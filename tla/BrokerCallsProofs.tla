------------------------- MODULE BrokerCallsProofs -------------------------
(***************************************************************************)
(* The calls of a process implement CallContract, for every set of calls,  *)
(* any number of lost connections and executions, and replies that are     *)
(* late, repeated or meant for somebody else; and the channels they go     *)
(* over declare what they use, in order, for every topology.               *)
(***************************************************************************)
EXTENDS BrokerProcess, SequenceTheorems, TLAPS

USE CallsAssumption

\* Whatever is on its way belongs to a request that has been made, and a reply
\* to one that has been worked on; the replies of others are told apart.
Traced ==
    /\ \A m \in queue \cup executing : m.call \in Call \ Event /\ publish[m.call] # "off"
    /\ \A m \in executing : runs[m.call] > 0
    /\ \A m \in replies : m.call # Foreign => m.call \in Call \ Event /\ runs[m.call] > 0

\* A race is run for requests only, and what it has taken is the answer.
Raced ==
    \A c \in Call :
      /\ c \in Event \/ publish[c] = "off" => race[c] = "off"
      /\ answers[c] \subseteq {c}
      /\ race[c] = "answered" => answers[c] = {c} /\ runs[c] > 0

\* A caller knows the outcome as soon as there is one, and not before.
Told ==
    \A c \in Call :
      /\ outcome[c] = "none" => Settled(c, race[c], publish[c]) = "none"
      /\ publish[c] = "off" => outcome[c] = "none"
      /\ outcome[c] = "done" => c \in Event \/ race[c] = "answered"

\* The inductive invariant.
IInv == CallsTypeOK /\ Traced /\ Raced /\ Told

-----------------------------------------------------------------------------
(* Lemmas about Settle *)

\* Of the calls only c learns something, when only c has changed.
LEMMA SettleTells ==
    ASSUME CallsTypeOK, Told, Settle, NEW c \in Call,
           \A d \in Call \ {c} : race'[d] = race[d] /\ publish'[d] = publish[d]
    PROVE  /\ outcome' \in [Call -> {"none", "done", "timeout", "refused"}]
           /\ \A d \in Call \ {c} : outcome'[d] = outcome[d]
           /\ outcome[c] # "none" => outcome'[c] = outcome[c]
           /\ outcome[c] = "none" => outcome'[c] = Settled(c, race'[c], publish'[c])
BY DEF CallsTypeOK, Told, Settle, Settled

\* Told holds again once c has been settled.
LEMMA SettleKeepsTold ==
    ASSUME CallsTypeOK, Raced, Told, Settle, NEW c \in Call,
           \A d \in Call \ {c} : race'[d] = race[d] /\ publish'[d] = publish[d],
           publish'[c] # "off",
           race'[c] # race[c] => race[c] = "listening"
    PROVE  Told'
<1>1. \A d \in Call \ {c} :
        /\ outcome'[d] = "none" => Settled(d, race'[d], publish'[d]) = "none"
        /\ publish'[d] = "off" => outcome'[d] = "none"
        /\ outcome'[d] = "done" => d \in Event \/ race'[d] = "answered"
  BY SettleTells DEF Told, Settled
<1>2. outcome'[c] = "none" => Settled(c, race'[c], publish'[c]) = "none"
  BY SettleTells
<1>3. outcome'[c] = "done" => c \in Event \/ race'[c] = "answered"
  BY SettleTells DEF Told, Settled, Raced
<1> QED BY <1>1, <1>2, <1>3 DEF Told, Settled

-----------------------------------------------------------------------------
(* The invariant *)

LEMMA InitIInv == Init => IInv
<1> SUFFICES ASSUME Init PROVE IInv
  OBVIOUS
<1>1. CallsTypeOK
  <2>0. \A c \in Call : MaxRuns[c] \in Nat
    OBVIOUS
  <2>1. \A c \in Call : runs[c] <= MaxRuns[c]
    <3> SUFFICES ASSUME NEW c \in Call PROVE runs[c] <= MaxRuns[c]
      OBVIOUS
    <3>1. runs[c] = 0 /\ MaxRuns[c] \in Nat
      BY <2>0 DEF Init
    <3> QED BY <3>1
  <2>2. losses \in 0 .. MaxLosses /\ runs \in [Call -> Nat]
    BY DEF Init
  <2>3. answers \in [Call -> SUBSET Call]
    BY DEF Init
  <2>4. race \in [Call -> {"off", "listening", "answered", "expired"}]
    BY DEF Init
  <2>5. publish \in [Call -> {"off", "buffered", "sent", "confirmed", "refused"}]
    BY DEF Init
  <2>6. outcome \in [Call -> {"none", "done", "timeout", "refused"}]
    BY DEF Init
  <2> QED BY <2>1, <2>2, <2>3, <2>4, <2>5, <2>6 DEF Init, CallsTypeOK
<1>2. Traced   BY DEF Init, Traced
<1>3. Raced    BY DEF Init, Raced
<1>4. Told     BY DEF Init, Told, Settled
<1> QED BY <1>1, <1>2, <1>3, <1>4 DEF IInv

LEMMA NextIInv == IInv /\ [Next]_vars => IInv'
<1> SUFFICES ASSUME IInv, [Next]_vars PROVE IInv'
  OBVIOUS
<1> USE DEF IInv
<1>1. ASSUME NEW c \in Call, requestData(c) PROVE IInv'
  <2>1. CallsTypeOK'
    BY <1>1 DEF requestData, CallsTypeOK, serviceVars, linkVars
  <2>2. Traced'
    BY <1>1 DEF requestData, CallsTypeOK, Traced, serviceVars
  <2>3. Raced'
    BY <1>1 DEF requestData, CallsTypeOK, Raced, serviceVars
  <2>4. Told'
    BY <1>1 DEF requestData, CallsTypeOK, Told, Settled
  <2> QED BY <2>1, <2>2, <2>3, <2>4
<1>2. ASSUME NEW c \in Call, publishMessage(c) PROVE IInv'
  <2>1. CallsTypeOK'
    BY <1>2 DEF publishMessage, CallsTypeOK, serviceVars, linkVars
  <2>2. Traced'
    BY <1>2 DEF publishMessage, CallsTypeOK, Traced, serviceVars
  <2>3. Raced'
    BY <1>2 DEF publishMessage, CallsTypeOK, Raced, serviceVars
  <2>4. Told'
    BY <1>2 DEF publishMessage, CallsTypeOK, Raced, Told, Settled
  <2> QED BY <2>1, <2>2, <2>3, <2>4
<1>3. ASSUME NEW c \in Call, Reject(c) PROVE IInv'
  <2>0. /\ \A d \in Call \ {c} : race'[d] = race[d] /\ publish'[d] = publish[d]
        /\ publish' = [publish EXCEPT ![c] = "refused"] /\ publish'[c] = "refused"
        /\ race' = race /\ Settle
    BY <1>3 DEF Reject, CallsTypeOK
  <2>1. CallsTypeOK'
    BY <1>3, <2>0, SettleTells DEF Reject, CallsTypeOK, serviceVars, linkVars
  <2>2. Traced'
    BY <1>3, <2>0 DEF Reject, Traced, serviceVars
  <2>3. Raced'
    BY <1>3, <2>0 DEF Reject, Raced, serviceVars
  <2>4. Told'
    BY <2>0, SettleKeepsTold
  <2> QED BY <2>1, <2>2, <2>3, <2>4
<1>4. ASSUME NEW c \in Call, Expire(c) PROVE IInv'
  <2>0. /\ \A d \in Call \ {c} : race'[d] = race[d] /\ publish'[d] = publish[d]
        /\ race' = [race EXCEPT ![c] = "expired"] /\ race[c] = "listening"
        /\ race'[c] = "expired" /\ publish' = publish /\ publish[c] # "off" /\ Settle
    BY <1>4 DEF Expire, CallsTypeOK, Raced
  <2>1. CallsTypeOK'
    BY <1>4, <2>0, SettleTells DEF Expire, CallsTypeOK, serviceVars, linkVars
  <2>2. Traced'
    BY <1>4, <2>0 DEF Expire, Traced, serviceVars
  <2>3. Raced'
    BY <1>4, <2>0 DEF Expire, Raced, serviceVars
  <2>4. Told'
    BY <2>0, SettleKeepsTold
  <2> QED BY <2>1, <2>2, <2>3, <2>4
<1>5. ASSUME NEW c \in Call, Write(c) PROVE IInv'
  <2>1. CallsTypeOK'
    BY <1>5 DEF Write, CallsTypeOK, Copy, linkVars
  <2>2. Traced'
    BY <1>5 DEF Write, CallsTypeOK, Traced
  <2>3. Raced'
    BY <1>5 DEF Write, CallsTypeOK, Raced
  <2>4. Told'
    BY <1>5 DEF Write, CallsTypeOK, Told, Settled
  <2> QED BY <2>1, <2>2, <2>3, <2>4
<1>6. ASSUME NEW c \in Call, Confirm(c) PROVE IInv'
  <2>0. /\ \A d \in Call \ {c} : race'[d] = race[d] /\ publish'[d] = publish[d]
        /\ publish' = [publish EXCEPT ![c] = "confirmed"] /\ publish'[c] = "confirmed"
        /\ publish[c] # "off" /\ race' = race /\ Settle
    BY <1>6 DEF Confirm, CallsTypeOK
  <2>1. CallsTypeOK'
    BY <1>6, <2>0, SettleTells DEF Confirm, CallsTypeOK, serviceVars, linkVars
  <2>2. Traced'
    BY <1>6, <2>0 DEF Confirm, Traced, serviceVars
  <2>3. Raced'
    BY <1>6, <2>0 DEF Confirm, Raced, serviceVars
  <2>4. Told'
    BY <2>0, SettleKeepsTold
  <2> QED BY <2>1, <2>2, <2>3, <2>4
<1>7. ASSUME NEW c \in Call, Refuse(c) PROVE IInv'
  <2>0. /\ \A d \in Call \ {c} : race'[d] = race[d] /\ publish'[d] = publish[d]
        /\ publish' = [publish EXCEPT ![c] = "refused"] /\ publish'[c] = "refused"
        /\ publish[c] # "off" /\ race' = race /\ Settle
    BY <1>7 DEF Refuse, CallsTypeOK
  <2>1. CallsTypeOK'
    BY <1>7, <2>0, SettleTells DEF Refuse, CallsTypeOK, serviceVars, linkVars
  <2>2. Traced'
    BY <1>7, <2>0 DEF Refuse, Traced, serviceVars
  <2>3. Raced'
    BY <1>7, <2>0 DEF Refuse, Raced, serviceVars
  <2>4. Told'
    BY <2>0, SettleKeepsTold
  <2> QED BY <2>1, <2>2, <2>3, <2>4
<1>8. ASSUME Disconnect PROVE IInv'
  <2>1. CallsTypeOK'
    <3>1. publish' \in [Call -> {"off", "buffered", "sent", "confirmed", "refused"}]
      BY <1>8 DEF Disconnect, CallsTypeOK
    <3>2. losses' \in 0 .. MaxLosses
      BY <1>8 DEF Disconnect, CallsTypeOK
    <3> QED BY <1>8, <3>1, <3>2 DEF Disconnect, CallsTypeOK
  <2>2. Traced'
    BY <1>8 DEF Disconnect, CallsTypeOK, Traced
  <2>3. Raced'
    BY <1>8 DEF Disconnect, CallsTypeOK, Raced
  <2>4. Told'
    BY <1>8 DEF Disconnect, CallsTypeOK, Told, Settled
  <2> QED BY <2>1, <2>2, <2>3, <2>4
<1>9. ASSUME Reconnect PROVE IInv'
  BY <1>9 DEF Reconnect, CallsTypeOK, Traced, Raced, Told, Settled, callVars, serviceVars
<1>10. ASSUME NEW m \in queue, DropExpired(m) PROVE IInv'
  BY <1>10 DEF DropExpired, CallsTypeOK, Traced, Raced, Told, Settled, callVars, linkVars
<1>11. ASSUME NEW m \in queue, Execute(m) PROVE IInv'
  <2>0. /\ m.call \in Call /\ \A c \in Call : runs'[c] >= runs[c]
        /\ runs' \in [Call -> Nat] /\ runs'[m.call] > 0
        /\ runs'[m.call] <= MaxRuns[m.call]
        /\ \A c \in Call \ {m.call} : runs'[c] = runs[c]
    BY <1>11 DEF Execute, CallsTypeOK, Traced
  <2>1. CallsTypeOK'
    BY <1>11, <2>0 DEF Execute, CallsTypeOK, callVars, linkVars
  <2>2. Traced'
    BY <1>11, <2>0 DEF Execute, CallsTypeOK, Traced, callVars
  <2>3. Raced'
    BY <1>11, <2>0 DEF Execute, CallsTypeOK, Raced, callVars
  <2>4. Told'
    BY <1>11 DEF Execute, Told, Settled, callVars
  <2> QED BY <2>1, <2>2, <2>3, <2>4
<1>12. ASSUME NEW m \in executing, NEW acked \in BOOLEAN, Respond(m, acked) PROVE IInv'
  <2>1. CallsTypeOK'
    BY <1>12 DEF Respond, CallsTypeOK, callVars, linkVars
  <2>2. Traced'
    BY <1>12 DEF Respond, Traced, callVars
  <2>3. Raced' /\ Told'
    BY <1>12 DEF Respond, Raced, Told, Settled, callVars
  <2> QED BY <2>1, <2>2, <2>3
<1>13. ASSUME ForeignReply PROVE IInv'
  <2>1. CallsTypeOK'
    BY <1>13 DEF ForeignReply, CallsTypeOK, Copy, callVars, linkVars
  <2>2. Traced'
    BY <1>13 DEF ForeignReply, Traced, callVars
  <2>3. Raced' /\ Told'
    BY <1>13 DEF ForeignReply, Raced, Told, Settled, callVars
  <2> QED BY <2>1, <2>2, <2>3
<1>14. ASSUME NEW m \in replies, PeerTakes(m) PROVE IInv'
  BY <1>14 DEF PeerTakes, CallsTypeOK, Traced, Raced, Told, Settled, callVars, linkVars
<1>15. ASSUME NEW m \in replies, ReplyArrives(m) PROVE IInv'
  <2>1. CASE m.call \in Call /\ race[m.call] = "listening"
    <3>0. /\ race' = [race EXCEPT ![m.call] = "answered"]
          /\ answers' = [answers EXCEPT ![m.call] = @ \cup {m.call}]
      BY <1>15, <2>1 DEF ReplyArrives, Matches, CallsTypeOK
    <3>1. /\ \A d \in Call \ {m.call} : race'[d] = race[d] /\ publish'[d] = publish[d]
          /\ race'[m.call] = "answered" /\ publish' = publish /\ publish[m.call] # "off"
          /\ Settle /\ runs' = runs /\ runs[m.call] > 0 /\ m.call \notin Event
          /\ answers'[m.call] = {m.call} /\ \A d \in Call \ {m.call} : answers'[d] = answers[d]
      BY <1>15, <2>1, <3>0 DEF ReplyArrives, CallsTypeOK, Raced, Traced
    <3>2. CallsTypeOK'
      <4>1. answers' \in [Call -> SUBSET Call] /\ race' \in [Call -> {"off", "listening", "answered", "expired"}]
        BY <2>1, <3>0 DEF CallsTypeOK
      <4> QED BY <1>15, <2>1, <3>1, <4>1, SettleTells DEF ReplyArrives, CallsTypeOK, linkVars
    <3>3. Traced'
      BY <1>15, <3>1 DEF ReplyArrives, Traced
    <3>4. Raced'
      BY <2>1, <3>1 DEF Raced
    <3>5. Told'
      BY <2>1, <3>1, SettleKeepsTold
    <3> QED BY <3>2, <3>3, <3>4, <3>5
  <2>2. CASE ~(m.call \in Call /\ race[m.call] = "listening")
    <3>1. race' = race /\ answers' = answers
      BY <1>15, <2>2 DEF ReplyArrives, Matches, CallsTypeOK
    <3>2. outcome' = outcome /\ publish' = publish
      BY <1>15, <3>1 DEF ReplyArrives, Settle, CallsTypeOK, Told
    <3>3. CallsTypeOK'
      BY <1>15, <3>1, <3>2 DEF ReplyArrives, CallsTypeOK, linkVars
    <3>4. Traced' /\ Raced' /\ Told'
      BY <1>15, <3>1, <3>2 DEF ReplyArrives, Traced, Raced, Told, Settled
    <3> QED BY <3>3, <3>4
  <2> QED BY <2>1, <2>2
<1>16. CASE UNCHANGED vars
  BY <1>16 DEF vars, callVars, serviceVars, linkVars, CallsTypeOK, Traced, Raced, Told, Settled
<1> QED
  BY <1>1, <1>2, <1>3, <1>4, <1>5, <1>6, <1>7, <1>8, <1>9, <1>10, <1>11, <1>12, <1>13,
     <1>14, <1>15, <1>16 DEF Next, Caller, Services

LEMMA Invariant == Spec => []IInv
BY InitIInv, NextIInv, PTL DEF Spec

\* Every variable keeps its type, whatever calls, losses and replies there are.
THEOREM TypeCorrect == Spec => []CallsTypeOK
<1>1. IInv => CallsTypeOK
  BY DEF IInv
<1> QED BY Invariant, <1>1, PTL

\* A request's caller gets the answer to its own request, which was executed:
\* a late, repeated or foreign reply reaches nobody else.
THEOREM AnswersAreOwn == Spec => []OwnAnswer
<1>1. IInv => OwnAnswer
  BY DEF IInv, OwnAnswer, Raced, Told
<1> QED BY Invariant, <1>1, PTL

-----------------------------------------------------------------------------
(* The refinement *)

\* What callers know, and which requests were executed, as CallContract has it.
Knowledge == [c \in Call |-> Knows(c)]
Executed == {c \in Call : runs[c] > 0}

\* A step that only settles c tells its caller the outcome, or nothing.
LEMMA SettleIsTell ==
    ASSUME IInv, IInv', Settle, NEW c \in Call, runs' = runs,
           \A d \in Call \ {c} : race'[d] = race[d] /\ publish'[d] = publish[d],
           publish'[c] # "off",
           publish[c] = "off" => publish'[c] = "refused",
           Settled(c, race'[c], publish'[c]) = "timeout" => c \notin Event
    PROVE  [Contract!Next]_(Contract!vars)
<1>0. /\ Executed' = Executed
      /\ \A d \in Call \ {c} : Knows(d)' = Knows(d)
      /\ outcome[c] # "none" => outcome'[c] = outcome[c]
      /\ outcome[c] = "none" => outcome'[c] = Settled(c, race'[c], publish'[c])
      /\ outcome[c] \in {"none", "done", "timeout", "refused"}
      /\ outcome'[c] \in {"none", "done", "timeout", "refused"}
  BY SettleTells DEF IInv, CallsTypeOK, Knows, Executed
<1>1. CASE outcome'[c] = outcome[c] /\ publish[c] # "off"
  <2>1. Knowledge' = Knowledge
    BY <1>0, <1>1 DEF Knowledge, Knows
  <2> QED BY <2>1, <1>0 DEF Contract!vars, Knowledge, Executed
<1>2. CASE outcome[c] = "none" /\ outcome'[c] # "none" /\ publish[c] # "off"
  <2>1. Knows(c) = "waiting" /\ Knows(c)' = outcome'[c]
    BY <1>2 DEF Knows
  <2>2. Knowledge' = [Knowledge EXCEPT ![c] = outcome'[c]]
    BY <1>0, <2>1 DEF Knowledge
  <2>3. outcome'[c] = "done" => c \in Event \cup Executed
    BY <1>0 DEF IInv, Told, Raced, Executed
  <2>4. outcome'[c] = "timeout" => c \notin Event
    BY <1>0, <1>2
  <2>5. Contract!Tell(c, outcome'[c])
    BY <1>0, <1>2, <2>1, <2>2, <2>3, <2>4 DEF Contract!Tell, Knowledge, Executed
  <2> QED BY <1>0, <1>2, <2>5 DEF Contract!Next, Contract!Outcome
<1>3. CASE publish[c] = "off"
  <2>1. outcome[c] = "none" /\ outcome'[c] = "refused"
    BY <1>0, <1>3 DEF IInv, Told, Settled
  <2>2. Knows(c) = "idle" /\ Knows(c)' = "refused"
    BY <1>3, <2>1 DEF Knows
  <2>3. Knowledge' = [Knowledge EXCEPT ![c] = "refused"]
    BY <1>0, <2>2 DEF Knowledge
  <2>4. Contract!Tell(c, "refused")
    BY <1>0, <2>2, <2>3 DEF Contract!Tell, Knowledge, Executed
  <2> QED BY <2>4 DEF Contract!Next, Contract!Outcome
<1> QED BY <1>0, <1>1, <1>2, <1>3

\* A call that is sent is one that is made.
LEMMA SendingIsMake ==
    ASSUME IInv, NEW c \in Call, publish[c] = "off",
           publish' = [publish EXCEPT ![c] = "buffered"], outcome' = outcome, runs' = runs
    PROVE  Contract!Make(c)
<1>1. Knows(c) = "idle" /\ Knows(c)' = "waiting"
  BY DEF IInv, CallsTypeOK, Told, Knows
<1>2. Knowledge' = [Knowledge EXCEPT ![c] = "waiting"] /\ Executed' = Executed
  BY <1>1 DEF IInv, CallsTypeOK, Knowledge, Knows, Executed
<1> QED BY <1>1, <1>2 DEF Contract!Make, Knowledge, Executed

\* What leaves the callers and the executions alone is a stutter.
LEMMA OtherwiseStutters ==
    ASSUME outcome' = outcome, runs' = runs,
           \A c \in Call : publish'[c] = "off" <=> publish[c] = "off"
    PROVE  UNCHANGED Contract!vars
<1>1. Knowledge' = Knowledge /\ Executed' = Executed
  BY DEF Knowledge, Knows, Executed
<1> QED BY <1>1 DEF Contract!vars, Knowledge, Executed

LEMMA StepImplements == IInv /\ IInv' /\ [Next]_vars => [Contract!Next]_(Contract!vars)
<1> SUFFICES ASSUME IInv, IInv', [Next]_vars PROVE [Contract!Next]_(Contract!vars)
  OBVIOUS
<1>1. ASSUME NEW c \in Call, requestData(c) \/ publishMessage(c)
      PROVE  [Contract!Next]_(Contract!vars)
  <2>1. Contract!Make(c)
    BY <1>1, SendingIsMake DEF requestData, publishMessage, serviceVars
  <2> QED BY <2>1 DEF Contract!Next
<1>2. ASSUME NEW c \in Call, Reject(c) PROVE [Contract!Next]_(Contract!vars)
  <2>1. /\ \A d \in Call \ {c} : race'[d] = race[d] /\ publish'[d] = publish[d]
        /\ publish'[c] = "refused" /\ runs' = runs /\ Settle
    BY <1>2 DEF Reject, IInv, CallsTypeOK, serviceVars
  <2> QED BY <2>1, SettleIsTell DEF Settled
<1>3. ASSUME NEW c \in Call, Expire(c) PROVE [Contract!Next]_(Contract!vars)
  <2>1. /\ \A d \in Call \ {c} : race'[d] = race[d] /\ publish'[d] = publish[d]
        /\ publish'[c] = publish[c] /\ publish[c] # "off" /\ c \notin Event
        /\ runs' = runs /\ Settle
    BY <1>3 DEF Expire, IInv, CallsTypeOK, Raced, serviceVars
  <2> QED BY <2>1, SettleIsTell
<1>4. ASSUME NEW c \in Call, Confirm(c) \/ Refuse(c) PROVE [Contract!Next]_(Contract!vars)
  <2>1. /\ \A d \in Call \ {c} : race'[d] = race[d] /\ publish'[d] = publish[d]
        /\ race' = race /\ publish'[c] # "off" /\ publish[c] # "off"
        /\ runs' = runs /\ Settle
    BY <1>4 DEF Confirm, Refuse, IInv, CallsTypeOK, serviceVars
  <2>2. Settled(c, race'[c], publish'[c]) = "timeout" => c \notin Event
    BY <2>1 DEF IInv, Raced, Settled
  <2> QED BY <2>1, <2>2, SettleIsTell
<1>5. ASSUME NEW m \in replies, ReplyArrives(m) PROVE [Contract!Next]_(Contract!vars)
  <2>1. CASE m.call \in Call /\ race[m.call] = "listening"
    <3>1. /\ \A d \in Call \ {m.call} : race'[d] = race[d] /\ publish'[d] = publish[d]
          /\ publish' = publish /\ publish[m.call] # "off" /\ m.call \notin Event
          /\ runs' = runs /\ Settle
      BY <1>5, <2>1 DEF ReplyArrives, Matches, IInv, CallsTypeOK, Raced
    <3> QED BY <2>1, <3>1, SettleIsTell
  <2>2. CASE ~(m.call \in Call /\ race[m.call] = "listening")
    <3>1. race' = race /\ publish' = publish /\ runs' = runs
      BY <1>5, <2>2 DEF ReplyArrives, Matches, IInv, CallsTypeOK
    <3>2. outcome' = outcome
      BY <1>5, <3>1 DEF ReplyArrives, Settle, IInv, CallsTypeOK, Told
    <3> QED BY <3>1, <3>2, OtherwiseStutters
  <2> QED BY <2>1, <2>2
<1>6. ASSUME NEW m \in queue, Execute(m) PROVE [Contract!Next]_(Contract!vars)
  <2>1. m.call \in Call /\ publish[m.call] # "off" /\ Knows(m.call) # "idle"
    BY DEF IInv, Traced, CallsTypeOK, Knows
  <2>2. Knowledge' = Knowledge
    BY <1>6 DEF Execute, Knowledge, Knows, callVars
  <2>3. Executed' = Executed \cup {m.call}
    BY <1>6, <2>1 DEF Execute, Executed, IInv, CallsTypeOK
  <2>4. Contract!Execute(m.call)
    BY <2>1, <2>2, <2>3 DEF Contract!Execute, Knowledge, Executed
  <2> QED BY <2>1, <2>4 DEF Contract!Next
<1>7. ASSUME \/ \E c \in Call : Write(c)
             \/ Disconnect \/ Reconnect
             \/ \E m \in queue : DropExpired(m)
             \/ \E m \in executing : \E acked \in BOOLEAN : Respond(m, acked)
             \/ ForeignReply
             \/ \E m \in replies : PeerTakes(m)
             \/ UNCHANGED vars
      PROVE  [Contract!Next]_(Contract!vars)
  <2>1. outcome' = outcome /\ runs' = runs
    BY <1>7 DEF Write, Disconnect, Reconnect, DropExpired, Respond, ForeignReply, PeerTakes,
                vars, callVars, serviceVars
  <2>2. \A c \in Call : publish'[c] = "off" <=> publish[c] = "off"
    BY <1>7 DEF Write, Disconnect, Reconnect, DropExpired, Respond, ForeignReply, PeerTakes,
                vars, callVars, serviceVars, IInv, CallsTypeOK
  <2> QED BY <2>1, <2>2, OtherwiseStutters
<1> QED
  BY <1>1, <1>2, <1>3, <1>4, <1>5, <1>6, <1>7 DEF Next, Caller, Services

\* The calls of a process implement CallContract: a call returns at most once,
\* and a request returns an answer only if it has been executed.
THEOREM CallsKeepTheContract == Spec => ImplementsContract
<1>1. Init => Contract!Init
  <2> SUFFICES ASSUME Init PROVE Contract!Init
    OBVIOUS
  <2>1. Knowledge = [c \in Call |-> "idle"] /\ Executed = {}
    BY DEF Init, Knowledge, Knows, Executed
  <2> QED BY <2>1 DEF Contract!Init, Knowledge, Executed
<1> QED
  BY <1>1, Invariant, StepImplements, PTL DEF Spec, ImplementsContract, Contract!Spec

-----------------------------------------------------------------------------
(* The order of the declarations *)

ProcessSafety == ProcessInit /\ [][ProcessNext]_processVars

Command == [op : {"prefetch", "alternate", "exchange", "queue", "bind", "replies", "consume"},
            on : Channel \cup Nat \cup Exchange \cup Queue \cup Consumer]
Turn == SUBSET Command
Prefetch == Cmd("prefetch", default)

WireTypes ==
    /\ wire \in [Channel -> Seq(Turn)]
    /\ installed \subseteq Consumer /\ alternates \in Nat

\* Without a connection nothing is under way, and nothing is known.
Offline ==
    /\ ~link => answered = {} /\ broken = {} /\ \A ch \in Channel : wire[ch] = <<>>
    /\ \A ch \in Channel \cap broken : wire[ch] = <<>>
    /\ connected => link

\* What is under way, or answered, has had what it waits for.
Awaited ==
    /\ \A ch \in Channel : \A n \in DOMAIN wire[ch] : wire[ch][n] \subseteq Issued(ch, answered)
    /\ \A c \in answered : \E ch \in Channel : c \in Issued(ch, answered)

\* The broker has what it has declared; an exchange that survives a restart is
\* there for good once a consumer can be installed.
Kept ==
    /\ \A x \in Exchange : Cmd("exchange", x) \in answered => x \in exists
    /\ connected => Exchange \subseteq exists /\ Prefetch \in answered
    /\ installed # {} => Exchange \cap Durable \subseteq exists

\* The declaration of x is answered, or under way before turn n.
Before(turns, done, x, n) ==
    \/ Cmd("exchange", x) \in done
    \/ \E m \in DOMAIN turns : m < n /\ Cmd("exchange", x) \in turns[m]

\* Without alternate exchanges the default channel sends the exchanges right
\* after its prefetch, hence before the binding of any consumer.
Ordered(turns, done) ==
    /\ Prefetch \in done \/ turns = <<>> \/ turns[1] = {Prefetch}
    /\ \A n \in DOMAIN turns, x \in Exchange :
         (\E b \in turns[n] : b.op = "bind") => Before(turns, done, x, n)

Announced(turns, done) ==
    Prefetch \in done => \A x \in Exchange :
      Cmd("exchange", x) \in done \/ \E m \in DOMAIN turns : Cmd("exchange", x) \in turns[m]

ExchangesFirst ==
    alternates = 0 =>
      /\ Ordered(wire[default], answered)
      /\ default \notin broken => Announced(wire[default], answered)

DeclareInv == WireTypes /\ Offline /\ Awaited /\ Kept /\ ExchangesFirst /\ DeclaredBeforeUse

\* The turns after an answer: those there were, without the command answered,
\* and the turn it has led to.
Follows(next, t, c, cs) ==
    \E d \in {0, 1}, k \in Nat :
      /\ d = 1 => t[1] = {c}
      /\ DOMAIN t = 1 .. k + d
      /\ \A n \in 1 .. k : next[n] = IF n + d = 1 THEN t[1] \ {c} ELSE t[n + d]
      /\ \/ DOMAIN next = 1 .. k /\ cs = {}
         \/ DOMAIN next = 1 .. k + 1 /\ next[k + 1] = cs

LEMMA NextTurns ==
    ASSUME NEW t \in Seq(Turn), t # <<>>, NEW c \in Head(t), NEW cs \in Turn,
           NEW next, next = Send(Send(<<>>, Head(t) \ {c}) \o Tail(t), cs)
    PROVE  next \in Seq(Turn) /\ Follows(next, t, c, cs)
<1> DEFINE rest == Head(t) \ {c}
           left == Send(<<>>, rest) \o Tail(t)
<1>0. Head(t) = t[1] /\ Head(t) \in Turn
  BY HeadTailProperties
<1>1. rest \in Turn /\ (rest = {} => t[1] = {c}) /\ rest = t[1] \ {c}
  BY <1>0 DEF Turn
<1>2. next = Send(left, cs)
  OBVIOUS
<1> HIDE DEF rest, left
<1>3. /\ Tail(t) \in Seq(Turn) /\ Len(t) \in Nat /\ Len(Tail(t)) = Len(t) - 1 /\ Len(t) > 0
      /\ \A n \in 1 .. Len(Tail(t)) : Tail(t)[n] = t[n + 1]
  BY <1>0, HeadTailProperties, LenProperties
<1>4. PICK d \in {0, 1} :
        /\ d = 1 => t[1] = {c}
        /\ left \in Seq(Turn) /\ Len(left) = Len(t) - d
        /\ \A n \in 1 .. Len(left) : left[n] = IF n + d = 1 THEN rest ELSE t[n + d]
  <2>1. CASE rest = {}
    <3>1. left = <<>> \o Tail(t)
      BY <2>1 DEF Send, left
    <3>2. left = Tail(t)
      BY <1>3, <3>1, ConcatEmptySeq
    <3>3. \A n \in 1 .. Len(left) : left[n] = IF n + 1 = 1 THEN rest ELSE t[n + 1]
      BY <1>3, <3>2
    <3> QED BY <1>1, <1>3, <2>1, <3>2, <3>3
  <2>2. CASE rest # {}
    <3> DEFINE first == <<rest>>
    <3>1. left = first \o Tail(t)
      BY <2>2 DEF Send, left
    <3>2. first \in Seq(Turn) /\ Len(first) = 1 /\ first[1] = rest
      BY <1>1
    <3> HIDE DEF first
    <3>3. /\ left \in Seq(Turn) /\ Len(left) = 1 + Len(Tail(t))
          /\ \A n \in 1 .. 1 + Len(Tail(t)) :
               left[n] = IF n <= 1 THEN first[n] ELSE Tail(t)[n - 1]
      <4>1. Tail(t) \in Seq(Turn)
        BY <1>3
      <4>2. /\ first \o Tail(t) \in Seq(Turn)
            /\ Len(first \o Tail(t)) = Len(first) + Len(Tail(t))
            /\ \A n \in 1 .. Len(first) + Len(Tail(t)) :
                 (first \o Tail(t))[n] =
                   IF n <= Len(first) THEN first[n] ELSE Tail(t)[n - Len(first)]
        BY ONLY <3>2, <4>1, ConcatProperties
      <4> QED BY <3>1, <3>2, <4>2
    <3>4. Len(left) = Len(t) - 0
      BY <1>3, <3>3
    <3>5. ASSUME NEW n \in 1 .. Len(left)
          PROVE  left[n] = IF n + 0 = 1 THEN rest ELSE t[n + 0]
      <4>1. CASE n = 1
        BY <3>2, <3>3, <4>1
      <4>2. CASE n # 1
        <5>1. n - 1 \in 1 .. Len(Tail(t)) /\ (n - 1) + 1 = n /\ n + 0 = n /\ ~(n <= 1)
          BY <1>3, <3>3, <4>2
        <5> QED BY <1>3, <3>3, <4>2, <5>1
      <4> QED BY <4>1, <4>2
    <3>6. 0 \in {0, 1} /\ ~(0 = 1)
      OBVIOUS
    <3> QED BY ONLY <3>3, <3>4, <3>5, <3>6, ZenonT(20)
  <2> QED BY <2>1, <2>2
<1>5. Len(left) \in Nat
  BY <1>4, LenProperties
<1>6. DOMAIN t = 1 .. Len(left) + d
  <2>1. DOMAIN t = 1 .. Len(t)
    BY LenProperties
  <2> QED BY ONLY <1>3, <1>4, <1>5, <2>1
<1>7. CASE cs = {}
  <2>1. next = left
    BY <1>2, <1>7 DEF Send
  <2>2. DOMAIN next = 1 .. Len(left)
    BY <1>4, <2>1
  <2> QED BY ONLY <1>1, <1>4, <1>5, <1>6, <1>7, <2>1, <2>2 DEF Follows
<1>8. CASE cs # {}
  <2>1. next = Append(left, cs)
    BY <1>2, <1>8 DEF Send
  <2>2. /\ next \in Seq(Turn) /\ Len(next) = Len(left) + 1
        /\ next[Len(left) + 1] = cs /\ \A n \in 1 .. Len(left) : next[n] = left[n]
    <3>1. left \in Seq(Turn) /\ cs \in Turn
      BY <1>0, <1>4
    <3>2. /\ Append(left, cs) \in Seq(Turn) /\ Len(Append(left, cs)) = Len(left) + 1
          /\ Append(left, cs)[Len(left) + 1] = cs
          /\ \A n \in 1 .. Len(left) : Append(left, cs)[n] = left[n]
      BY ONLY <3>1, AppendProperties
    <3> QED BY <2>1, <3>2
  <2>3. DOMAIN next = 1 .. Len(left) + 1
    BY <2>2
  <2> QED BY ONLY <1>1, <1>4, <1>5, <1>6, <2>2, <2>3 DEF Follows
<1> QED BY <1>7, <1>8

\* An answer, or another consumer, takes no command back.
LEMMA IssuedGrows ==
    ASSUME installed \subseteq installed', alternates' = alternates, answered \subseteq answered',
           NEW ch
    PROVE  Issued(ch, answered) \subseteq Issued(ch, answered)'
<1>1. Commands(ch) \subseteq Commands(ch)'
  BY DEF Commands, InitCommands, ConsumerCommands, On
<1>2. \A c : Awaits(ch, c)' = Awaits(ch, c)
  BY DEF Awaits
<1> QED BY <1>1, <1>2 DEF Issued

\* The commands of a channel, by what they do.
LEMMA CommandsTyped ==
    ASSUME WireTypes, NEW ch \in Channel, NEW c \in Commands(ch)
    PROVE  /\ c \in Command
           /\ c.op = "prefetch" => c.on = ch
           /\ c.op \in {"exchange", "alternate"} => ch = default
           /\ c.op \in {"queue", "bind"} =>
                \/ c.on \in Queue /\ ch = default
                \/ c.on \in installed /\ ChannelOf[c.on] = ch
           /\ c = Cmd(c.op, c.on)
BY DEF Commands, InitCommands, ConsumerCommands, On, Cmd, Command, WireTypes

LEMMA InitDeclare == ProcessInit => DeclareInv
<1> SUFFICES ASSUME ProcessInit PROVE DeclareInv
  OBVIOUS
<1>1. /\ link = FALSE /\ connected = FALSE /\ exists = {} /\ installed = {}
      /\ answered = {} /\ broken = {} /\ wire = [ch \in Channel |-> <<>>]
      /\ alternates \in Nat
  BY ProcessAssumption DEF ProcessInit, Init
<1>2. \A ch \in Channel : wire[ch] = <<>>
  BY <1>1
<1>3. WireTypes
  <2>1. <<>> \in Seq(Turn)
    OBVIOUS
  <2> QED BY <1>1, <2>1 DEF WireTypes
<1>4. Offline /\ Awaited /\ Kept /\ DeclaredBeforeUse
  BY <1>1, <1>2 DEF Offline, Awaited, Kept, DeclaredBeforeUse
<1>5. ExchangesFirst
  <2>1. wire[default] = <<>>
    BY <1>2, ProcessAssumption
  <2> QED BY <1>1, <2>1 DEF ExchangesFirst, Ordered, Announced
<1> QED BY <1>3, <1>4, <1>5 DEF DeclareInv

\* Why a binding that is refused was issued before its exchange.
LEMMA RefusalExplained ==
    ASSUME DeclareInv, NEW ch \in Channel, wire[ch] # <<>>, NEW c \in Head(wire[ch]), Refuses(c)
    PROVE  \E k \in installed :
             ChannelOf[k] = ch /\ BoundTo[k] \notin Durable /\ (alternates > 0 \/ ch # default)
<1>1. wire[ch] \in Seq(Turn) /\ Head(wire[ch]) = wire[ch][1] /\ 1 \in DOMAIN wire[ch]
  BY DEF DeclareInv, WireTypes
<1>2. c \in Commands(ch) /\ Awaits(ch, c) \subseteq answered /\ c.op = "bind"
  BY <1>1 DEF DeclareInv, Awaited, Issued, Refuses
<1>3. Cmd("queue", c.on) \in answered
  BY <1>2 DEF Awaits, On
<1>4. BoundTo[c.on] \notin exists
  BY DEF Refuses
<1>5. \/ c.on \in Queue /\ ch = default
      \/ c.on \in installed /\ ChannelOf[c.on] = ch
  BY <1>2, CommandsTyped DEF DeclareInv
<1>6. BoundTo[c.on] \in Exchange
  BY <1>5, ProcessAssumption DEF DeclareInv, WireTypes
<1>7. c.on \notin Queue
  <2> SUFFICES ASSUME c.on \in Queue PROVE FALSE
    OBVIOUS
  <2>1. PICK e \in Channel : Awaits(e, Cmd("queue", c.on)) \subseteq answered
    BY <1>3 DEF DeclareInv, Awaited, Issued
  <2>2. Cmd("exchange", BoundTo[c.on]) \in Awaits(e, Cmd("queue", c.on))
    BY <1>6 DEF Awaits, Cmd, On
  <2> QED BY <1>4, <1>6, <2>1, <2>2 DEF DeclareInv, Kept
<1>8. c.on \in installed /\ ChannelOf[c.on] = ch
  BY <1>5, <1>7
<1>9. BoundTo[c.on] \notin Durable
  BY <1>4, <1>6, <1>8 DEF DeclareInv, Kept
<1>10. ASSUME alternates = 0, ch = default PROVE FALSE
  <2>1. Before(wire[default], answered, BoundTo[c.on], 1)
    BY <1>1, <1>2, <1>6, <1>10 DEF DeclareInv, ExchangesFirst, Ordered
  <2>2. Cmd("exchange", BoundTo[c.on]) \in answered
    BY <1>1, <1>10, <2>1 DEF Before
  <2> QED BY <1>4, <1>6, <2>2 DEF DeclareInv, Kept
<1> QED BY <1>8, <1>9, <1>10 DEF DeclareInv, WireTypes

\* An answer moves what is before a turn forward with it.
LEMMA AnswerKeepsOrder ==
    ASSUME alternates = 0, NEW t, t # <<>>, NEW c \in t[1],
           Ordered(t, answered), Announced(t, answered),
           NEW now, now = answered \cup {c},
           NEW cs, cs = Issued(default, now) \ Issued(default, answered),
           NEW next, Follows(next, t, c, cs)
    PROVE  Ordered(next, now) /\ Announced(next, now)
<1>1. PICK d \in {0, 1}, k \in Nat :
        /\ d = 1 => t[1] = {c}
        /\ DOMAIN t = 1 .. k + d
        /\ \A n \in 1 .. k : next[n] = IF n + d = 1 THEN t[1] \ {c} ELSE t[n + d]
        /\ \/ DOMAIN next = 1 .. k /\ cs = {}
           \/ DOMAIN next = 1 .. k + 1 /\ next[k + 1] = cs
  BY DEF Follows
<1>2. /\ \A n \in 1 .. k : n \in DOMAIN next /\ n + d \in DOMAIN t
      /\ \A n \in DOMAIN next : n \in 1 .. k \/ (n = k + 1 /\ next[n] = cs)
  BY ONLY <1>1
<1>3. ASSUME NEW n \in 1 .. k PROVE next[n] \subseteq t[n + d]
  BY ONLY <1>1
\* Where a command that is not the one answered has gone.
<1>4. ASSUME NEW m \in DOMAIN t, NEW e \in t[m] \ {c}
      PROVE  /\ m - d \in 1 .. k /\ e \in next[m - d]
             /\ \A n \in 1 .. k + 1 : m < n + d => m - d < n
  <2>1. m # 1 \/ d = 0
    BY ONLY <1>1, <1>4
  <2>2. m - d \in 1 .. k /\ (m - d) + d = m /\ \A n \in 1 .. k + 1 : m < n + d => m - d < n
    BY ONLY <1>1, <2>1
  <2>3. next[m - d] = IF m = 1 THEN t[1] \ {c} ELSE t[m]
    BY ONLY <1>1, <2>2
  <2> QED BY ONLY <1>4, <2>2, <2>3
<1>5. ASSUME NEW x \in Exchange, NEW n \in 1 .. k, Before(t, answered, x, n + d)
      PROVE  Before(next, now, x, n)
  <2>1. CASE Cmd("exchange", x) \in now
    BY <2>1 DEF Before
  <2>2. CASE Cmd("exchange", x) \notin now
    <3>1. PICK m \in DOMAIN t : m < n + d /\ Cmd("exchange", x) \in t[m] \ {c}
      BY <1>5, <2>2 DEF Before
    <3>2. n \in 1 .. k + 1
      BY ONLY k \in Nat
    <3>3. m - d \in DOMAIN next /\ m - d < n /\ Cmd("exchange", x) \in next[m - d]
      BY ONLY <1>2, <1>4, <3>1, <3>2
    <3> QED BY <3>3 DEF Before
  <2> QED BY <2>1, <2>2
<1>6. ASSUME NEW n \in 1 .. k, NEW x \in Exchange, \E b \in next[n] : b.op = "bind"
      PROVE  Before(next, now, x, n)
  <2>1. n + d \in DOMAIN t /\ \E b \in t[n + d] : b.op = "bind"
    BY ONLY <1>2, <1>3, <1>6
  <2>2. Before(t, answered, x, n + d)
    BY <2>1 DEF Ordered
  <2> QED BY <1>5, <2>2
<1>7. CASE Prefetch \in answered
  <2>1. ASSUME NEW x \in Exchange
        PROVE  Cmd("exchange", x) \in now \/ \E m \in 1 .. k : Cmd("exchange", x) \in next[m]
    <3>1. \/ Cmd("exchange", x) \in now
          \/ \E m \in DOMAIN t : Cmd("exchange", x) \in t[m] \ {c}
      BY <1>7 DEF Announced
    <3> QED BY ONLY <1>4, <3>1
  <2>2. ASSUME NEW x \in Exchange PROVE Before(next, now, x, k + 1)
    <3>1. \A m \in 1 .. k : m \in DOMAIN next /\ m < k + 1
      BY ONLY <1>2, k \in Nat
    <3> QED BY ONLY <2>1, <3>1 DEF Before
  <2>3. \A n \in DOMAIN next, x \in Exchange :
          (\E b \in next[n] : b.op = "bind") => Before(next, now, x, n)
    BY ONLY <1>2, <1>6, <2>2
  <2> QED BY <1>2, <1>7, <2>1, <2>3 DEF Ordered, Announced
<1>8. CASE Prefetch \notin answered
  <2>1. c = Prefetch
    BY <1>8 DEF Ordered
  <2>2. ASSUME NEW b \in cs PROVE b.op # "bind"
    <3>1. b.op = "bind" => Awaits(default, b) = {Cmd("queue", b.on)}
      BY DEF Awaits, On
    <3>2. Cmd("queue", b.on) # Prefetch
      BY DEF Cmd, Prefetch
    <3> QED BY <2>1, <2>2, <3>1, <3>2 DEF Issued
  <2>3. ASSUME NEW x \in Exchange PROVE Cmd("exchange", x) \in cs
    <3>1. Cmd("exchange", x) \in Commands(default)
      BY DEF Commands, InitCommands, On
    <3>2. Awaits(default, Cmd("exchange", x)) = {Prefetch}
      BY DEF Awaits, Cmd, On, Prefetch
    <3> QED BY <1>8, <2>1, <3>1, <3>2 DEF Issued
  <2>4. \A n \in DOMAIN next, x \in Exchange :
          (\E b \in next[n] : b.op = "bind") => Before(next, now, x, n)
    BY ONLY <1>2, <1>6, <2>2
  <2>5. ASSUME NEW x \in Exchange
        PROVE  \E m \in DOMAIN next : Cmd("exchange", x) \in next[m]
    <3>1. k + 1 \in DOMAIN next /\ next[k + 1] = cs
      <4>1. cs # {}
        BY <2>3
      <4> QED BY ONLY <1>1, <4>1
    <3> QED BY <2>3, <3>1
  <2> QED BY <2>1, <2>4, <2>5 DEF Ordered, Announced
<1> QED BY <1>7, <1>8

\* The parts that concern what an answer or another consumer only adds to.
LEMMA AwaitedGrows ==
    ASSUME Awaited, installed \subseteq installed', alternates' = alternates,
           answered \subseteq answered',
           \A c \in answered' \ answered : \E ch \in Channel : c \in Issued(ch, answered),
           \A ch \in Channel : \A n \in DOMAIN wire'[ch] :
             \/ \E m \in DOMAIN wire[ch] : wire'[ch][n] \subseteq wire[ch][m]
             \/ wire'[ch][n] \subseteq Issued(ch, answered)'
    PROVE  Awaited'
<1>1. \A ch : Issued(ch, answered) \subseteq Issued(ch, answered)'
  BY IssuedGrows
<1> DEFINE Now(ch) == Issued(ch, answered)
           Then(ch) == Issued(ch, answered)'
<1>2. \A ch : Now(ch) \subseteq Then(ch)
  BY <1>1
<1>3. \A ch \in Channel : \A n \in DOMAIN wire[ch] : wire[ch][n] \subseteq Now(ch)
  BY DEF Awaited
<1>4. \A c \in answered' : \E ch \in Channel : c \in Now(ch)
  BY DEF Awaited
<1>5. \A ch \in Channel : \A n \in DOMAIN wire'[ch] :
             \/ \E m \in DOMAIN wire[ch] : wire'[ch][n] \subseteq wire[ch][m]
             \/ wire'[ch][n] \subseteq Then(ch)
  OBVIOUS
<1>6. /\ \A ch \in Channel : \A n \in DOMAIN wire'[ch] : wire'[ch][n] \subseteq Then(ch)
      /\ \A c \in answered' : \E ch \in Channel : c \in Then(ch)
  <2> HIDE DEF Now, Then
  <2> QED BY ONLY <1>2, <1>3, <1>4, <1>5
<1> QED BY <1>6 DEF Awaited

LEMMA DeclareKeeps == ASSUME DeclareInv, NEW ch \in Channel, Declare(ch) PROVE DeclareInv'
<1> DEFINE t == wire[ch]
<1>1. /\ t \in Seq(Turn) /\ t # <<>> /\ Head(t) = t[1] /\ 1 \in DOMAIN t
      /\ UNCHANGED <<connected, alternates, link, installed>>
  BY DEF DeclareInv, WireTypes, Declare, vars, linkVars
<1>2. PICK c \in Head(t) :
         LET now == answered \cup {c}
             left == Send(<<>>, Head(t) \ {c}) \o Tail(t)
         IN  IF Refuses(c)
             THEN /\ broken' = broken \cup {ch}
                  /\ wire' = [wire EXCEPT ![ch] = <<>>]
                  /\ UNCHANGED <<exists, answered>>
             ELSE /\ answered' = now
                  /\ exists' = IF c.op \in {"exchange", "queue"} THEN exists \cup {c.on} ELSE exists
                  /\ wire' = [wire EXCEPT ![ch] = Send(left, Issued(ch, now) \ Issued(ch, answered))]
                  /\ UNCHANGED broken
  BY DEF Declare
<1>3. c \in Issued(ch, answered) /\ c \in Commands(ch)
  BY <1>1, <1>2 DEF DeclareInv, Awaited, Issued
<1>4. c = Cmd(c.op, c.on) /\ (c.op = "prefetch" => c.on = ch)
  BY <1>3, CommandsTyped DEF DeclareInv
<1>5. link /\ ch \notin broken
  BY <1>1 DEF DeclareInv, Offline
<1>6. CASE Refuses(c)
  <2>1. /\ broken' = broken \cup {ch} /\ UNCHANGED <<exists, answered>>
        /\ wire' = [wire EXCEPT ![ch] = <<>>]
    BY <1>2, <1>6
  <2>2. wire'[ch] = <<>> /\ \A e \in Channel \ {ch} : wire'[e] = wire[e]
    BY <2>1 DEF DeclareInv, WireTypes
  <2>3. WireTypes' /\ Offline' /\ Kept'
    <3>1. <<>> \in Seq(Turn)
      OBVIOUS
    <3> QED BY <1>1, <1>5, <2>1, <2>2, <3>1 DEF DeclareInv, WireTypes, Offline, Kept
  <2>4. Awaited'
    <3>1. \A e \in Channel : \A n \in DOMAIN wire'[e] :
            \E m \in DOMAIN wire[e] : wire'[e][n] \subseteq wire[e][m]
      BY <2>2
    <3> QED BY <1>1, <2>1, <3>1, AwaitedGrows DEF DeclareInv
  <2>5. ExchangesFirst'
    BY <1>1, <2>1, <2>2, ProcessAssumption
    DEF DeclareInv, ExchangesFirst, Ordered, Announced, Before
  <2>6. DeclaredBeforeUse'
    <3>1. \E k \in installed :
            ChannelOf[k] = ch /\ BoundTo[k] \notin Durable /\ (alternates > 0 \/ ch # default)
      BY <1>1, <1>2, <1>6, RefusalExplained
    <3> QED BY <1>1, <2>1, <3>1 DEF DeclareInv, DeclaredBeforeUse
  <2> QED BY <2>3, <2>4, <2>5, <2>6 DEF DeclareInv
<1>7. CASE ~Refuses(c)
  <2> DEFINE now == answered \cup {c}
             cs == Issued(ch, now) \ Issued(ch, answered)
             next == Send(Send(<<>>, Head(t) \ {c}) \o Tail(t), cs)
  <2>1. /\ answered' = now /\ UNCHANGED broken
        /\ exists' = IF c.op \in {"exchange", "queue"} THEN exists \cup {c.on} ELSE exists
        /\ wire' = [wire EXCEPT ![ch] = next]
    BY <1>2, <1>7
  <2>2. cs \in Turn
    <3>1. cs \subseteq Commands(ch)
      BY DEF Issued
    <3>2. Commands(ch) \subseteq Command
      BY CommandsTyped DEF DeclareInv
    <3> QED BY <3>1, <3>2 DEF Turn
  <2>3. next \in Seq(Turn) /\ Follows(next, t, c, cs)
    <3> HIDE DEF t, cs
    <3> QED BY <1>1, <2>2, NextTurns
  <2>4. wire'[ch] = next /\ \A e \in Channel \ {ch} : wire'[e] = wire[e]
    BY <2>1 DEF DeclareInv, WireTypes
  <2> HIDE DEF next
  <2>5. WireTypes'
    BY <1>1, <2>1, <2>3 DEF DeclareInv, WireTypes
  <2>6. Offline'
    BY <1>1, <1>5, <2>1, <2>4 DEF DeclareInv, Offline
  <2>7. Awaited'
    <3>1. \A n \in DOMAIN next : next[n] = cs \/ \E m \in DOMAIN t : next[n] \subseteq t[m]
      <4> HIDE DEF cs, t
      <4> QED BY <2>3 DEF Follows
    <3>2. cs \subseteq Issued(ch, answered)'
      BY <1>1, <2>1 DEF Issued, Commands, InitCommands, ConsumerCommands, Awaits
    <3>3. \A e \in Channel : \A n \in DOMAIN wire'[e] :
             \/ \E m \in DOMAIN wire[e] : wire'[e][n] \subseteq wire[e][m]
             \/ wire'[e][n] \subseteq Issued(e, answered)'
      <4>1. \A n \in DOMAIN wire'[ch] :
              \/ \E m \in DOMAIN t : wire'[ch][n] \subseteq t[m]
              \/ wire'[ch][n] \subseteq Issued(ch, answered)'
        BY <2>4, <3>1, <3>2
      <4>2. \A e \in Channel \ {ch} : \A n \in DOMAIN wire'[e] :
              \E m \in DOMAIN wire[e] : wire'[e][n] \subseteq wire[e][m]
        BY <2>4
      <4> QED BY <4>1, <4>2, Zenon
    <3> QED BY <1>1, <1>3, <2>1, <3>3, AwaitedGrows DEF DeclareInv
  <2>8. Kept'
    <3>1. ASSUME NEW x \in Exchange, Cmd("exchange", x) \in now PROVE x \in exists'
      <4>1. CASE Cmd("exchange", x) = c
        <5>1. c.op = "exchange" /\ c.on = x
          BY <4>1 DEF Cmd
        <5> QED BY <2>1, <5>1
      <4> QED BY <2>1, <3>1, <4>1 DEF DeclareInv, Kept
    <3>2. exists \subseteq exists' /\ answered \subseteq answered'
      BY <2>1
    <3> QED BY <1>1, <2>1, <3>1, <3>2 DEF DeclareInv, Kept
  <2>9. ExchangesFirst'
    <3> SUFFICES ASSUME alternates = 0
                 PROVE  /\ Ordered(wire'[default], answered')
                        /\ default \notin broken => Announced(wire'[default], answered')
      BY <1>1, <2>1 DEF ExchangesFirst
    <3>1. /\ Ordered(wire[default], answered)
          /\ default \notin broken => Announced(wire[default], answered)
      BY DEF DeclareInv, ExchangesFirst
    <3>2. CASE ch = default
      <4>1. /\ c \in t[1] /\ t # <<>> /\ Ordered(t, answered) /\ Announced(t, answered)
            /\ cs = Issued(default, now) \ Issued(default, answered)
        BY <1>1, <1>5, <3>1, <3>2
      <4>2. Ordered(next, now) /\ Announced(next, now)
        <5> HIDE DEF t, cs
        <5> QED BY <2>3, <4>1, AnswerKeepsOrder
      <4> QED BY <2>1, <2>4, <3>2, <4>2
    <3>3. CASE ch # default
      <4>1. c # Prefetch
        BY <1>4, <3>3 DEF Cmd, Prefetch
      <4>2. wire'[default] = wire[default] /\ answered \subseteq answered'
            /\ (Prefetch \in answered' <=> Prefetch \in answered)
        BY <2>1, <2>4, <3>3, <4>1, ProcessAssumption
      <4> QED BY <3>1, <4>2 DEF Ordered, Announced, Before
    <3> QED BY <3>2, <3>3
  <2>10. DeclaredBeforeUse'
    BY <1>1, <2>1 DEF DeclareInv, DeclaredBeforeUse
  <2> QED BY <2>5, <2>6, <2>7, <2>8, <2>9, <2>10 DEF DeclareInv
<1> QED BY <1>6, <1>7

\* Another turn changes nothing of what is before the others.
LEMMA AppendKeepsOrder ==
    ASSUME NEW t \in Seq(Turn), NEW cs \in Turn, \A b \in cs : b.op # "bind",
           Ordered(t, answered), Announced(t, answered), Prefetch \in answered
    PROVE  Ordered(Append(t, cs), answered) /\ Announced(Append(t, cs), answered)
<1>1. /\ DOMAIN t = 1 .. Len(t) /\ Len(t) \in Nat
      /\ DOMAIN Append(t, cs) = 1 .. Len(t) + 1
      /\ \A n \in 1 .. Len(t) : Append(t, cs)[n] = t[n]
      /\ Append(t, cs)[Len(t) + 1] = cs
  BY AppendProperties, LenProperties
<1>2. \A n \in DOMAIN Append(t, cs) :
        \/ n \in DOMAIN t /\ Append(t, cs)[n] = t[n]
        \/ Append(t, cs)[n] = cs
  BY ONLY <1>1
<1>3. \A n \in DOMAIN t : n \in DOMAIN Append(t, cs) /\ Append(t, cs)[n] = t[n]
  BY ONLY <1>1
<1> DEFINE next == Append(t, cs)
<1> HIDE DEF next
<1>4. /\ \A n \in DOMAIN next : (n \in DOMAIN t /\ next[n] = t[n]) \/ next[n] = cs
      /\ \A n \in DOMAIN t : n \in DOMAIN next /\ next[n] = t[n]
  BY <1>2, <1>3 DEF next
<1>5. Ordered(next, answered) /\ Announced(next, answered)
  BY <1>4 DEF Ordered, Announced, Before
<1> QED BY <1>5 DEF next

LEMMA InstallKeeps == ASSUME DeclareInv, NEW k \in Consumer, Install(k) PROVE DeclareInv'
<1> DEFINE ch == ChannelOf[k]
           turn == On("queue", {k})
<1>1. /\ connected /\ installed' = installed \cup {k} /\ ch \in Channel
      /\ wire' = IF ch \in broken THEN wire ELSE [wire EXCEPT ![ch] = Append(@, turn)]
      /\ UNCHANGED <<connected, alternates, link, exists, answered, broken>>
  BY ProcessAssumption DEF Install, vars, linkVars
<1>2. link /\ Prefetch \in answered /\ Exchange \subseteq exists
  BY <1>1 DEF DeclareInv, Offline, Kept
<1>3. turn \in Turn /\ \A b \in turn : b.op # "bind"
  BY DEF On, Cmd, Turn, Command
<1>4. turn \subseteq Issued(ch, answered)'
  <2>1. Cmd("queue", k) \in Commands(ch)'
    BY <1>1 DEF Commands, ConsumerCommands, On
  <2>2. Awaits(ch, Cmd("queue", k))' = {}
    BY ProcessAssumption DEF Awaits, Cmd
  <2> QED BY <2>1, <2>2 DEF Issued, On
<1>5. ch \notin broken =>
        /\ Append(wire[ch], turn) \in Seq(Turn)
        /\ \A n \in DOMAIN Append(wire[ch], turn) :
             \/ n \in DOMAIN wire[ch] /\ Append(wire[ch], turn)[n] = wire[ch][n]
             \/ Append(wire[ch], turn)[n] = turn
  <2> DEFINE t == wire[ch]
  <2>1. t \in Seq(Turn)
    BY <1>1 DEF DeclareInv, WireTypes
  <2> HIDE DEF t, turn
  <2>2. /\ DOMAIN t = 1 .. Len(t) /\ Len(t) \in Nat
        /\ Append(t, turn) \in Seq(Turn)
        /\ DOMAIN Append(t, turn) = 1 .. Len(t) + 1
        /\ \A n \in 1 .. Len(t) : Append(t, turn)[n] = t[n]
        /\ Append(t, turn)[Len(t) + 1] = turn
    BY ONLY <1>3, <2>1, AppendProperties, LenProperties
  <2>3. \A n \in DOMAIN Append(t, turn) :
          \/ n \in DOMAIN t /\ Append(t, turn)[n] = t[n]
          \/ Append(t, turn)[n] = turn
    BY ONLY <2>2
  <2> QED BY <2>2, <2>3 DEF t
<1> HIDE DEF turn
<1>6. /\ \A e \in Channel \ {ch} : wire'[e] = wire[e]
      /\ ch \in broken => wire'[ch] = wire[ch]
      /\ ch \notin broken => wire'[ch] = Append(wire[ch], turn)
      /\ wire' \in [Channel -> Seq(Turn)]
  BY <1>1, <1>5 DEF DeclareInv, WireTypes
<1>7. WireTypes' /\ Offline' /\ Kept' /\ DeclaredBeforeUse'
  BY <1>1, <1>2, <1>6 DEF DeclareInv, WireTypes, Offline, Kept, DeclaredBeforeUse
<1>8. Awaited'
  <2>1. \A n \in DOMAIN wire'[ch] :
          \/ \E m \in DOMAIN wire[ch] : wire'[ch][n] \subseteq wire[ch][m]
          \/ wire'[ch][n] \subseteq Issued(ch, answered)'
    BY <1>4, <1>5, <1>6
  <2>2. \A e \in Channel \ {ch} : \A n \in DOMAIN wire'[e] :
          \E m \in DOMAIN wire[e] : wire'[e][n] \subseteq wire[e][m]
    BY <1>6
  <2>3. \A e \in Channel : \A n \in DOMAIN wire'[e] :
          \/ \E m \in DOMAIN wire[e] : wire'[e][n] \subseteq wire[e][m]
          \/ wire'[e][n] \subseteq Issued(e, answered)'
    BY <2>1, <2>2, Zenon
  <2> QED BY <1>1, <2>3, AwaitedGrows DEF DeclareInv
<1>9. ExchangesFirst'
  <2> SUFFICES ASSUME alternates = 0
               PROVE  /\ Ordered(wire'[default], answered)
                      /\ default \notin broken => Announced(wire'[default], answered)
    BY <1>1 DEF ExchangesFirst
  <2>1. /\ Ordered(wire[default], answered)
        /\ default \notin broken => Announced(wire[default], answered)
    BY DEF DeclareInv, ExchangesFirst
  <2>2. CASE ch # default \/ ch \in broken
    BY <1>6, <2>1, <2>2, ProcessAssumption
  <2>3. CASE ch = default /\ ch \notin broken
    <3>1. wire[default] \in Seq(Turn)
      BY ProcessAssumption DEF DeclareInv, WireTypes
    <3>2. /\ Ordered(Append(wire[default], turn), answered)
          /\ Announced(Append(wire[default], turn), answered)
      BY <1>2, <1>3, <2>1, <2>3, <3>1, AppendKeepsOrder
    <3> QED BY <1>6, <2>3, <3>2
  <2> QED BY <2>2, <2>3
<1> QED BY <1>7, <1>8, <1>9 DEF DeclareInv

LEMMA ConnectKeeps == ASSUME DeclareInv, Connect PROVE DeclareInv'
<1> DEFINE first(ch) == On("prefetch", {ch})
           second(ch) == On("queue", {k \in installed : ChannelOf[k] = ch})
<1>1. /\ ~link /\ link' = TRUE
      /\ wire' = [ch \in Channel |-> Send(<<first(ch)>>, second(ch))]
      /\ UNCHANGED <<connected, alternates, exists, installed, answered, broken>>
  BY DEF Connect, vars, linkVars
<1>2. answered = {} /\ broken = {} /\ ~connected
  BY <1>1 DEF DeclareInv, Offline
<1>3. ASSUME NEW ch \in Channel
      PROVE  /\ first(ch) \in Turn /\ second(ch) \in Turn
             /\ first(ch) \subseteq Issued(ch, answered)'
             /\ second(ch) \subseteq Issued(ch, answered)'
             /\ \A b \in first(ch) \cup second(ch) : b.op # "bind"
  <2>1. /\ first(ch) \in Turn /\ second(ch) \in Turn
        /\ \A b \in first(ch) \cup second(ch) : b.op # "bind"
    BY DEF DeclareInv, WireTypes, On, Cmd, Turn, Command
  <2>2. first(ch) \subseteq Issued(ch, answered)'
    BY <1>1 DEF Issued, Commands, InitCommands, Awaits, On, Cmd
  <2>3. ASSUME NEW k \in installed, ChannelOf[k] = ch
        PROVE  Cmd("queue", k) \in Issued(ch, answered)'
    <3>1. Cmd("queue", k) \in Commands(ch)'
      BY <1>1, <2>3 DEF Commands, ConsumerCommands, On
    <3>2. Awaits(ch, Cmd("queue", k))' = {}
      BY ProcessAssumption DEF Awaits, Cmd, DeclareInv, WireTypes
    <3> QED BY <3>1, <3>2 DEF Issued
  <2>4. second(ch) \subseteq Issued(ch, answered)'
    BY <2>3 DEF On
  <2> QED BY <2>1, <2>2, <2>4
<1> HIDE DEF first, second
<1>4. ASSUME NEW ch \in Channel
      PROVE  /\ wire'[ch] \in Seq(Turn) /\ wire'[ch][1] = first(ch)
             /\ \A n \in DOMAIN wire'[ch] : wire'[ch][n] \in {first(ch), second(ch)}
  <2>1. wire'[ch] = Send(<<first(ch)>>, second(ch))
    BY <1>1
  <2> DEFINE one == <<first(ch)>>
  <2>2. one \in Seq(Turn) /\ Len(one) = 1 /\ one[1] = first(ch) /\ DOMAIN one = 1 .. 1
    BY <1>3
  <2>3. CASE second(ch) = {}
    BY <2>1, <2>2, <2>3 DEF Send
  <2>4. CASE second(ch) # {}
    <3> DEFINE two == second(ch)
    <3>1. wire'[ch] = Append(one, two)
      BY <2>1, <2>4 DEF Send
    <3>2. two \in Turn
      BY <1>3
    <3> HIDE DEF one, two
    <3>3. one \in Seq(Turn) /\ two \in Turn
      BY <2>2, <3>2
    <3>4. /\ Append(one, two) \in Seq(Turn)
          /\ Len(Append(one, two)) = Len(one) + 1
          /\ Append(one, two)[Len(one) + 1] = two
          /\ \A n \in 1 .. Len(one) : Append(one, two)[n] = one[n]
      BY ONLY <3>3, AppendProperties
    <3>5. DOMAIN Append(one, two) = 1 .. 2
      BY ONLY <2>2, <3>4, LenProperties
    <3>6. Append(one, two)[1] = one[1] /\ Append(one, two)[2] = two
      BY ONLY <2>2, <3>4
    <3>7. \A n \in 1 .. 2 : n = 1 \/ n = 2
      OBVIOUS
    <3> QED BY ONLY <2>2, <3>1, <3>4, <3>5, <3>6, <3>7 DEF two
  <2> QED BY <2>3, <2>4
<1>5. WireTypes' /\ Offline' /\ Kept' /\ DeclaredBeforeUse'
  <2>1. wire' \in [Channel -> Seq(Turn)]
    BY <1>1, <1>4
  <2> QED BY <1>1, <1>2, <2>1 DEF DeclareInv, WireTypes, Offline, Kept, DeclaredBeforeUse
<1>6. Awaited'
  <2>1. \A ch \in Channel : \A n \in DOMAIN wire'[ch] :
          \/ \E m \in DOMAIN wire[ch] : wire'[ch][n] \subseteq wire[ch][m]
          \/ wire'[ch][n] \subseteq Issued(ch, answered)'
    <3> SUFFICES ASSUME NEW ch \in Channel, NEW n \in DOMAIN wire'[ch]
                 PROVE  wire'[ch][n] \subseteq Issued(ch, answered)'
      OBVIOUS
    <3> QED BY <1>3, <1>4
  <2> QED BY <1>1, <1>2, <2>1, AwaitedGrows DEF DeclareInv
<1>7. ExchangesFirst'
  <2>1. first(default) = {Prefetch}
    BY DEF first, On, Prefetch
  <2>2. /\ wire'[default][1] = {Prefetch}
        /\ \A n \in DOMAIN wire'[default], b \in Command :
             b \in wire'[default][n] => b.op # "bind"
        /\ \A n \in DOMAIN wire'[default] : \A b \in wire'[default][n] : b.op # "bind"
    BY <1>3, <1>4, <2>1, ProcessAssumption
  <2> QED BY <1>1, <1>2, <2>2 DEF ExchangesFirst, Ordered, Announced
<1> QED BY <1>5, <1>6, <1>7 DEF DeclareInv

LEMMA ReadyKeeps == ASSUME DeclareInv, Ready PROVE DeclareInv'
<1>1. link /\ connected' = TRUE /\ UNCHANGED topologyVars /\ Commands(default) \subseteq answered
  BY DEF Ready, Reconnect
<1>2. On("exchange", Exchange) \cup {Prefetch} \subseteq answered
  BY <1>1 DEF Commands, InitCommands, On, Prefetch
<1>3. Exchange \subseteq exists
  BY <1>2 DEF DeclareInv, Kept, On
<1>4. Awaited' <=> Awaited
  BY <1>1 DEF topologyVars, Awaited, Issued, Commands, InitCommands, ConsumerCommands, Awaits
<1> QED BY <1>1, <1>2, <1>3, <1>4
        DEF topologyVars, DeclareInv, WireTypes, Offline, Kept, ExchangesFirst, DeclaredBeforeUse

LEMMA LoseKeeps == ASSUME DeclareInv, Lose PROVE DeclareInv'
<1>1. /\ connected' = FALSE /\ link' = FALSE /\ answered' = {} /\ broken' = {}
      /\ wire' = [ch \in Channel |-> <<>>] /\ UNCHANGED <<alternates, installed>>
      /\ exists' \in {exists, exists \cap Durable}
  BY DEF Lose, Disconnect
<1>2. \A ch \in Channel : wire'[ch] = <<>>
  BY <1>1
<1>3. WireTypes'
  <2>1. <<>> \in Seq(Turn)
    OBVIOUS
  <2> QED BY <1>1, <2>1 DEF DeclareInv, WireTypes
<1>4. Offline' /\ Awaited' /\ Kept' /\ DeclaredBeforeUse'
  BY <1>1, <1>2 DEF DeclareInv, Offline, Awaited, Kept, DeclaredBeforeUse
<1>5. ExchangesFirst'
  <2>1. wire'[default] = <<>>
    BY <1>2, ProcessAssumption
  <2> QED BY <1>1, <2>1 DEF ExchangesFirst, Ordered, Announced
<1> QED BY <1>3, <1>4, <1>5 DEF DeclareInv

\* Calls do not touch the topology.
LEMMA TrafficKeeps ==
    ASSUME DeclareInv, UNCHANGED <<topologyVars, connected>> PROVE DeclareInv'
<1>1. Awaited' <=> Awaited
  BY DEF topologyVars, Awaited, Issued, Commands, InitCommands, ConsumerCommands, Awaits
<1> QED BY <1>1
        DEF topologyVars, DeclareInv, WireTypes, Offline, Kept, ExchangesFirst, DeclaredBeforeUse

LEMMA NextDeclare == DeclareInv /\ [ProcessNext]_processVars => DeclareInv'
<1> SUFFICES ASSUME DeclareInv, [ProcessNext]_processVars PROVE DeclareInv'
  OBVIOUS
<1>1. CASE UNCHANGED processVars
  BY <1>1, TrafficKeeps DEF processVars, vars, linkVars
<1>2. CASE Traffic /\ UNCHANGED topologyVars
  <2>1. UNCHANGED connected
    BY <1>2 DEF Traffic, Caller, Services, requestData, publishMessage, Reject, Expire, Write,
                Confirm, Refuse, DropExpired, Execute, Respond, ForeignReply, ReplyArrives,
                PeerTakes, linkVars
  <2> QED BY <1>2, <2>1, TrafficKeeps
<1> QED BY <1>1, <1>2, DeclareKeeps, InstallKeeps, ConnectKeeps, ReadyKeeps, LoseKeeps
        DEF ProcessNext

LEMMA SafetyDeclares == ProcessSafety => []DeclaredBeforeUse
<1>1. DeclareInv => DeclaredBeforeUse
  BY DEF DeclareInv
<1> QED BY <1>1, InitDeclare, NextDeclare, PTL DEF ProcessSafety

\* A binding is refused only to a consumer whose exchange the broker has lost,
\* with alternate exchanges or on a channel of its own, whatever the topology and
\* however often it reconnects (connection.ts: setupInitChannel, setupQueue).
THEOREM DeclarationsPrecedeUse == ProcessSpec => []DeclaredBeforeUse
<1>1. ProcessSpec => ProcessSafety
  BY PTL DEF ProcessSpec, ProcessSafety
<1> QED BY <1>1, SafetyDeclares, PTL

-----------------------------------------------------------------------------
(* The calls over the channels *)

LEMMA ProcessStepIsCallStep == [ProcessNext]_processVars => [Next]_vars
BY DEF ProcessNext, processVars, Traffic, Next, Connect, Ready, Lose, Declare, Install

LEMMA SafetyIsCalls == ProcessSafety => Spec
<1>1. ProcessInit => Init
  BY DEF ProcessInit
<1> QED BY <1>1, ProcessStepIsCallStep, PTL DEF ProcessSafety, Spec

\* What is proved of the calls holds over the channels of the connection, with
\* the setups, refusals and losses those go through.
THEOREM ProcessKeepsTheContract == ProcessSpec => ImplementsContract /\ []OwnAnswer
<1>1. ProcessSpec => ProcessSafety
  BY PTL DEF ProcessSpec, ProcessSafety
<1> QED BY <1>1, SafetyIsCalls, CallsKeepTheContract, AnswersAreOwn, PTL

=============================================================================
