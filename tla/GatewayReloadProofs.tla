------------------------ MODULE GatewayReloadProofs ------------------------
(***************************************************************************)
(* A gateway instance implements RouteTable, for every number of calls,    *)
(* changes, signals, failed requests and lost connections.                 *)
(***************************************************************************)
EXTENDS GatewayReload, TLAPS

\* What is served, or about to be, is not older than the last signal.
Fresh(v) == v = NoPaths \/ announced <= v

\* No version is ahead of the stored paths, and an answer replaces nothing newer.
Ordered ==
    /\ announced <= db /\ router <= db
    /\ \A c \in Call : call[c].pc = "answered" =>
         /\ call[c].got <= db
         /\ call[c].got = NoPaths \/ router <= call[c].got

\* Signals wait on a queue.
Queued == ~queue => signals = 0

\* Work that is still owed (a signal on the queue, a note to go round) excuses
\* an old table, and so does a signal the instance cannot have seen; otherwise
\* the pass under way, or without one the table itself, is not older than the
\* last signal.
NothingOwed ==
    ~missed /\ signals = 0 /\ ~pending =>
      /\ ~inFlight => Fresh(router)
      /\ \A c \in Call :
           /\ call[c].pc = "answered" => Fresh(call[c].got)
           /\ call[c].pc = "swapped" => Fresh(router)

\* The inductive invariant.
IInv == TypeOK /\ OneAtATime /\ Ordered /\ NothingOwed /\ Queued

USE ReloadAssumption DEF Version, NoPaths, control

\* The initial states satisfy the inductive invariant.
LEMMA InitIInv == Init => IInv
  <1> SUFFICES ASSUME Init PROVE IInv
    OBVIOUS
  <1>1. TypeOK
    <2>1. call \in [Call -> CallState]
      BY DEF Init, CallState, Table
    <2>2. 0 \in Version /\ 0 \in 0 .. MaxSignals /\ 0 \in 0 .. MaxFailures /\ 0 \in 0 .. MaxLosses
      BY DEF ReloadAssumption
    <2>3. NoPaths \in Table
      BY DEF Table
    <2> QED BY <2>1, <2>2, <2>3 DEF Init, TypeOK
  <1>2. OneAtATime   BY DEF Init, OneAtATime
  <1>3. Ordered      BY DEF Init, Ordered
  <1>4. NothingOwed  BY DEF Init, NothingOwed, Fresh
  <1>5. Queued  BY DEF Init, Queued
  <1> QED BY <1>1, <1>2, <1>3, <1>4, <1>5 DEF IInv

\* reload keeps the calls typed and apart.
LEMMA ReloadKeeps ==
    ASSUME TypeOK, OneAtATime, NEW c \in Call, reload(c)
    PROVE  /\ call' \in [Call -> CallState] /\ inFlight' \in BOOLEAN
           /\ pending' \in BOOLEAN /\ (pending' => inFlight')
           /\ OneAtATime'
           /\ inFlight'
           /\ \A d \in Call : /\ call'[d].got = call[d].got
                              /\ call'[d].pc = call[d].pc \/ call'[d].pc = "asking"
           /\ inFlight => pending'
  <1>1. CASE inFlight
    BY <1>1 DEF reload, TypeOK, OneAtATime
  <1>2. CASE ~inFlight
    <2>1. \A d \in Call : call[d].pc = "idle"
      BY <1>2 DEF OneAtATime
    <2>2. /\ inFlight' = TRUE /\ pending' = FALSE
          /\ call' = [call EXCEPT ![c].pc = "asking"]
      BY <1>2 DEF reload
    <2>3. call' \in [Call -> CallState]
      BY <2>2 DEF TypeOK, CallState
    <2>4. call'[c].pc = "asking" /\ \A d \in Call \ {c} : call'[d] = call[d]
      BY <2>2 DEF TypeOK, CallState
    <2>5. \A d \in Call : call'[d].got = call[d].got
      BY <2>2 DEF TypeOK, CallState
    <2>6. OneAtATime'
      BY <2>1, <2>2, <2>4 DEF OneAtATime
    <2> QED BY <1>2, <2>2, <2>3, <2>4, <2>5, <2>6
  <1> QED BY <1>1, <1>2 DEF TypeOK

\* A call of reload by the boot or by a signal keeps the invariant: either the
\* call runs and its answer is still to come, or another call has the note.
LEMMA ReloadIInv ==
    ASSUME IInv, NEW c \in Call, reload(c), UNCHANGED <<outside, router>>,
           signals' \in 0 .. MaxSignals, boot' \in {"starting", "loading", "listening"},
           queue' = queue, ~queue => signals' = 0
    PROVE  IInv'
  <1>1. TypeOK /\ OneAtATime /\ Ordered /\ NothingOwed /\ Queued
    BY DEF IInv
  <1>2. UNCHANGED <<db, announced, missed, failures, losses, router, queue>>
    BY DEF outside
  <1>3. TypeOK'
    BY <1>1, <1>2, ReloadKeeps DEF TypeOK
  <1>4. OneAtATime'
    BY <1>1, ReloadKeeps
  <1>5. Ordered'
    BY <1>1, <1>2, ReloadKeeps DEF Ordered
  <1>6. NothingOwed'
    <2>1. CASE inFlight
      BY <1>1, <2>1, ReloadKeeps DEF NothingOwed
    <2>2. CASE ~inFlight
      <3>1. \A d \in Call : call[d].pc = "idle"
        BY <1>1, <2>2 DEF OneAtATime
      <3>2. inFlight' /\ \A d \in Call : call'[d].pc \in {"idle", "asking"}
        BY <1>1, <3>1, ReloadKeeps
      <3> QED BY <3>2 DEF NothingOwed
    <2> QED BY <2>1, <2>2 DEF TypeOK
  <1>7. Queued'
    BY <1>1, <1>2 DEF Queued
  <1> QED BY <1>3, <1>4, <1>5, <1>6, <1>7 DEF IInv

\* Every step keeps the inductive invariant.
LEMMA NextIInv ==
    ASSUME IInv, [Next]_vars
    PROVE  IInv'
  <1>0. TypeOK /\ OneAtATime /\ Ordered /\ NothingOwed /\ Queued
    BY DEF IInv
  <1>1. ASSUME WritePaths PROVE IInv'
    <2> USE <1>0, <1>1 DEF WritePaths
    <2>1. TypeOK'         BY DEF TypeOK, Table
    <2>2. OneAtATime'     BY DEF OneAtATime
    <2>3. Ordered'        BY DEF Ordered, TypeOK, Table, CallState
    <2>4. NothingOwed'    BY DEF NothingOwed, Fresh
    <2>5. Queued'  BY DEF Queued
    <2> QED BY <2>1, <2>2, <2>3, <2>4, <2>5 DEF IInv
  <1>2. ASSUME Signal PROVE IInv'
    <2> USE <1>0, <1>2 DEF Signal
    <2>1. /\ signals' \in 0 .. MaxSignals
          /\ signals' # 0 \/ missed'
          /\ missed' \in BOOLEAN
      <3>1. CASE queue
        BY <3>1 DEF TypeOK
      <3>2. CASE ~queue
        BY <3>2 DEF TypeOK
      <3> QED BY <3>1, <3>2
    <2>2. TypeOK'         BY <2>1 DEF TypeOK, Table
    <2>3. OneAtATime'     BY DEF OneAtATime
    <2>4. Ordered'        BY DEF Ordered, TypeOK, Table, CallState
    <2>5. NothingOwed'    BY <2>1 DEF NothingOwed
    <2>6. Queued'  BY <2>1 DEF Queued
    <2> QED BY <2>2, <2>3, <2>4, <2>5, <2>6 DEF IInv
  <1>3. ASSUME Listen PROVE IInv'
    <2> USE <1>0, <1>3 DEF Listen, outside
    <2>1. TypeOK'         BY DEF TypeOK
    <2>2. OneAtATime'     BY DEF OneAtATime
    <2>3. Ordered'        BY DEF Ordered
    <2>4. NothingOwed'    BY DEF NothingOwed, Fresh
    <2>5. Queued'  BY DEF Queued
    <2> QED BY <2>1, <2>2, <2>3, <2>4, <2>5 DEF IInv
  <1>4. ASSUME NEW c \in Call, Boot(c) PROVE IInv'
    BY <1>0, <1>4, ReloadIInv DEF Boot, TypeOK, Queued
  <1>5. ASSUME NEW c \in Call, HandleSignal(c) PROVE IInv'
    <2>1. signals' \in 0 .. MaxSignals /\ queue
      BY <1>0, <1>5 DEF HandleSignal, TypeOK, Queued
    <2> QED BY <1>0, <1>5, <2>1, ReloadIInv DEF HandleSignal, TypeOK
  <1>6. ASSUME NEW c \in Call, Export(c) PROVE IInv'
    <2> USE <1>0, <1>6 DEF Export, outside
    <2>1. /\ call' \in [Call -> CallState]
          /\ call'[c] = [pc |-> "answered", got |-> db]
          /\ \A d \in Call \ {c} : call'[d] = call[d]
      BY DEF TypeOK, CallState, Table
    <2>2. \A d \in Call \ {c} : call[d].pc = "idle"
      BY DEF OneAtATime
    <2>3. TypeOK'         BY <2>1 DEF TypeOK
    <2>4. OneAtATime'     BY <2>1, <2>2 DEF OneAtATime
    <2>5. Ordered'
      BY <2>1, <2>2 DEF Ordered, TypeOK, Table
    <2>6. NothingOwed'
      BY <2>1, <2>2 DEF NothingOwed, Fresh, Ordered, OneAtATime
    <2>7. Queued'  BY DEF Queued
    <2> QED BY <2>3, <2>4, <2>5, <2>6, <2>7 DEF IInv
  <1>7. ASSUME NEW c \in Call, PullFails(c) PROVE IInv'
    <2> USE <1>0, <1>7 DEF PullFails
    <2>1. /\ call' \in [Call -> CallState]
          /\ call'[c] = [pc |-> "answered", got |-> NoPaths]
          /\ \A d \in Call \ {c} : call'[d] = call[d]
      BY DEF TypeOK, CallState, Table
    <2>2. \A d \in Call \ {c} : call[d].pc = "idle"
      BY DEF OneAtATime
    <2>3. TypeOK'         BY <2>1 DEF TypeOK
    <2>4. OneAtATime'     BY <2>1, <2>2 DEF OneAtATime
    <2>5. Ordered'
      BY <2>1, <2>2 DEF Ordered, TypeOK, Table
    <2>6. NothingOwed'
      BY <2>1, <2>2 DEF NothingOwed, Fresh, OneAtATime
    <2>7. Queued'  BY DEF Queued
    <2> QED BY <2>3, <2>4, <2>5, <2>6, <2>7 DEF IInv
  <1>8. ASSUME NEW c \in Call, Swap(c) PROVE IInv'
    <2> USE <1>0, <1>8 DEF Swap, outside
    <2>1. /\ call' \in [Call -> CallState]
          /\ call'[c].pc = "swapped"
          /\ \A d \in Call \ {c} : call'[d] = call[d]
      BY DEF TypeOK, CallState
    <2>2. \A d \in Call \ {c} : call[d].pc = "idle"
      BY DEF OneAtATime
    <2>3. TypeOK'         BY <2>1 DEF TypeOK, CallState
    <2>4. OneAtATime'     BY <2>1, <2>2 DEF OneAtATime
    <2>5. Ordered'
      BY <2>1, <2>2 DEF Ordered, TypeOK, Table
    <2>6. NothingOwed'
      BY <2>1, <2>2 DEF NothingOwed, Fresh, OneAtATime
    <2>7. Queued'  BY DEF Queued
    <2> QED BY <2>3, <2>4, <2>5, <2>6, <2>7 DEF IInv
  <1>9. ASSUME NEW c \in Call, GoRound(c) PROVE IInv'
    <2> USE <1>0, <1>9 DEF GoRound, outside
    <2>1. /\ call' \in [Call -> CallState]
          /\ call'[c].pc = IF pending THEN "asking" ELSE "idle"
          /\ \A d \in Call \ {c} : call'[d] = call[d]
      BY DEF TypeOK, CallState
    <2>2. \A d \in Call \ {c} : call[d].pc = "idle"
      BY DEF OneAtATime
    <2>3. TypeOK'
      BY <2>1, inFlight' \in BOOLEAN, pending' \in BOOLEAN DEF TypeOK
    <2>4. OneAtATime'
      BY <2>1, <2>2 DEF OneAtATime
    <2>5. Ordered'
      BY <2>1, <2>2 DEF Ordered
    <2>6. NothingOwed'
      BY <2>1, <2>2 DEF NothingOwed, Fresh
    <2>7. Queued'  BY DEF Queued
    <2> QED BY <2>3, <2>4, <2>5, <2>6, <2>7 DEF IInv
  <1>10. CASE UNCHANGED vars
    BY <1>0, <1>10
    DEF vars, outside, IInv, TypeOK, OneAtATime, Ordered, NothingOwed, Queued, Fresh
  <1>11. ASSUME ConnectionLost PROVE IInv'
    <2> USE <1>0, <1>11 DEF ConnectionLost
    <2>0. missed' \in BOOLEAN /\ (~missed' => ~missed /\ signals = 0)
      <3>1. CASE signals > 0
        BY <3>1 DEF TypeOK
      <3>2. CASE ~(signals > 0)
        BY <3>2 DEF TypeOK
      <3> QED BY <3>1, <3>2
    <2>1. TypeOK'
      <3>1. losses' \in 0 .. MaxLosses /\ 0 \in 0 .. MaxSignals
        BY DEF TypeOK
      <3>2. queue' = FALSE /\ signals' = 0 /\ announced' = announced /\ failures' = failures
        OBVIOUS
      <3> QED BY <2>0, <3>1, <3>2 DEF TypeOK
    <2>2. OneAtATime'     BY DEF OneAtATime
    <2>3. Ordered'        BY DEF Ordered
    <2>4. NothingOwed'    BY <2>0 DEF NothingOwed, Fresh
    <2>5. Queued'         BY DEF Queued
    <2> QED BY <2>1, <2>2, <2>3, <2>4, <2>5 DEF IInv
  <1>12. ASSUME Resubscribe PROVE IInv'
    <2> USE <1>0, <1>12 DEF Resubscribe, outside
    <2>1. TypeOK'         BY DEF TypeOK
    <2>2. OneAtATime'     BY DEF OneAtATime
    <2>3. Ordered'        BY DEF Ordered
    <2>4. NothingOwed'    BY DEF NothingOwed, Fresh
    <2>5. Queued'         BY DEF Queued
    <2> QED BY <2>1, <2>2, <2>3, <2>4, <2>5 DEF IInv
  <1> QED BY <1>1, <1>2, <1>3, <1>4, <1>5, <1>6, <1>7, <1>8, <1>9, <1>10, <1>11, <1>12
    DEF Next

LEMMA Invariant == Spec => []IInv
  BY InitIInv, NextIInv, PTL DEF Spec

\* Every variable keeps its type, and a note to go round is left only for a call
\* that is running.
THEOREM TypeCorrect == Spec => []TypeOK
  <1>1. IInv => TypeOK
    BY DEF IInv
  <1> QED BY <1>1, Invariant, PTL

\* However many calls of reload overlap, one of them rebuilds the table and
\* reloadInFlight tells so.
THEOREM ReloadsDoNotOverlap == Spec => []OneAtATime
  <1>1. IInv => OneAtATime
    BY DEF IInv
  <1> QED BY <1>1, Invariant, PTL

\* A step of the instance is a step of RouteTable, or changes nothing there.
LEMMA StepSimulation ==
    ASSUME IInv, [Next]_vars
    PROVE  [RT!Next]_(RT!vars)
  <1>0. TypeOK /\ OneAtATime /\ Ordered /\ NothingOwed /\ Queued
    BY DEF IInv
  <1> USE <1>0 DEF RT!Next, RT!vars
  <1>1. ASSUME WritePaths PROVE RT!Write
    BY <1>1 DEF WritePaths, RT!Write, Settled
  <1>2. ASSUME Signal PROVE RT!Announce \/ RT!Miss
    <2>1. CASE queue
      <3>1. signals' # 0
        BY <1>2, <2>1 DEF Signal, TypeOK
      <3>2. missed' = FALSE /\ Settled' = FALSE
        BY <1>2, <2>1, <3>1, Zenon DEF Signal, Settled
      <3> QED BY <1>2, <3>2 DEF Signal, RT!Announce
    <2>2. CASE ~queue
      BY <1>2, <2>2 DEF Signal, RT!Miss, Settled
    <2> QED BY <2>1, <2>2
  <1>3. ASSUME Listen PROVE [RT!Next]_(RT!vars)
    <2>1. ~inFlight /\ UNCHANGED <<db, announced, missed, router, signals>> /\ ~Settled
      BY <1>3 DEF Listen, outside, Settled
    <2>2. signals = 0 => router = NoPaths \/ announced <= router \/ missed
      BY <2>1 DEF TypeOK, NothingOwed, Fresh
    <2>3. CASE Settled'
      BY <2>1, <2>2, <2>3 DEF RT!Settle, Settled
    <2>4. CASE ~Settled'
      BY <2>1, <2>4 DEF Settled
    <2> QED BY <2>3, <2>4
  <1>4. ASSUME NEW c \in Call, Boot(c) PROVE UNCHANGED RT!vars
    BY <1>4 DEF Boot, outside, Settled
  <1>5. ASSUME NEW c \in Call, HandleSignal(c) PROVE UNCHANGED RT!vars
    <2>1. inFlight'
      BY <1>5, ReloadKeeps DEF HandleSignal
    <2> QED BY <1>5, <2>1 DEF HandleSignal, outside, Settled, TypeOK
  <1>6. ASSUME NEW c \in Call, Export(c) PROVE UNCHANGED RT!vars
    BY <1>6 DEF Export, outside, Settled
  <1>7. ASSUME NEW c \in Call, PullFails(c) PROVE UNCHANGED RT!vars
    BY <1>7 DEF PullFails, Settled
  <1>8. ASSUME NEW c \in Call, Swap(c) PROVE RT!Serve
    <2>1. router' = call[c].got /\ call[c].got \in Table
      BY <1>8 DEF Swap, TypeOK, CallState
    <2>2. call[c].got \in {NoPaths} \cup router .. db
      BY <1>8, <2>1 DEF Swap, Ordered, TypeOK, Table
    <2>3. UNCHANGED <<db, announced, missed, Settled>>
      BY <1>8 DEF Swap, outside, Settled
    <2> QED BY <2>1, <2>2, <2>3 DEF RT!Serve
  <1>9. ASSUME NEW c \in Call, GoRound(c) PROVE [RT!Next]_(RT!vars)
    <2>1. UNCHANGED <<db, announced, missed, router>> /\ inFlight /\ ~Settled
      BY <1>9 DEF GoRound, outside, OneAtATime, Settled
    <2>2. CASE Settled'
      <3>1. signals = 0 /\ ~pending
        BY <1>9, <2>2 DEF GoRound, Settled
      <3>2. router = NoPaths \/ announced <= router \/ missed
        BY <1>9, <3>1 DEF GoRound, NothingOwed, Fresh
      <3> QED BY <2>1, <2>2, <3>2 DEF RT!Settle
    <2>3. CASE ~Settled'
      BY <2>1, <2>3 DEF Settled
    <2> QED BY <2>2, <2>3
  <1>10. ASSUME UNCHANGED vars PROVE UNCHANGED RT!vars
    BY <1>10 DEF vars, outside, Settled
  <1>11. ASSUME ConnectionLost PROVE [RT!Next]_(RT!vars)
    <2>1. UNCHANGED <<db, announced, router>>
      BY <1>11 DEF ConnectionLost
    <2>2. CASE signals > 0
      <3>1. ~Settled /\ Settled' \in BOOLEAN
        BY <2>2 DEF Settled
      <3>2. missed' = TRUE
        BY <1>11, <2>2 DEF ConnectionLost, TypeOK
      <3> QED BY <2>1, <3>1, <3>2 DEF RT!Lose
    <2>3. CASE signals = 0
      BY <1>11, <2>1, <2>3 DEF ConnectionLost, Settled, TypeOK
    <2> QED BY <2>2, <2>3 DEF TypeOK
  <1>12. ASSUME Resubscribe PROVE UNCHANGED RT!vars
    BY <1>12 DEF Resubscribe, outside, Settled
  <1> QED BY <1>1, <1>2, <1>3, <1>4, <1>5, <1>6, <1>7, <1>8, <1>9, <1>10, <1>11, <1>12
    DEF Next

\* Coalesced as its reloads are, the instance implements RouteTable: it serves no
\* older table after a newer one, and when it has settled its table is not older
\* than the last signal, unless that was published while the instance had no
\* queue, or went with it (http-handler.service.ts: reload goes round as long as
\* there is a note).
THEOREM CoalescingLosesNothing == Spec => ImplementsRouteTable
  <1>1. Init => RT!Init
    BY DEF Init, RT!Init, Settled
  <1>2. IInv /\ [Next]_vars => [RT!Next]_(RT!vars)
    BY StepSimulation
  <1> QED BY <1>1, <1>2, Invariant, PTL DEF Spec, ImplementsRouteTable, RT!Spec
=============================================================================
