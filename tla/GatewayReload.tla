--------------------------- MODULE GatewayReload ---------------------------
(***************************************************************************)
(* The route table of one gateway instance: HttpHandlerService builds it   *)
(* at boot and again on every reload signal, from the YAML paths and the   *)
(* stored paths, which it asks the admin service for.  Calls of reload     *)
(* overlap; all but one only leave a note to go round once more.           *)
(*                                                                         *)
(* The stored paths are known by their version.  The control queue is that *)
(* of a broadcast topic, autoDelete and not durable: it exists while the   *)
(* instance consumes it, and a lost connection deletes it with what is on  *)
(* it.  A signal published while there is none passes the instance by.     *)
(* Control messages with another action change no route and are left out.  *)
(***************************************************************************)
EXTENDS Integers

CONSTANTS
    Call,         \* calls of reload in progress at a time
    MaxWrites,    \* bound: changes of the stored paths
    MaxSignals,   \* bound: signals waiting on the control queue
    MaxFailures,  \* bound: failed requests for the stored paths
    MaxLosses     \* bound: connections lost

ASSUME ReloadAssumption ==
    /\ MaxWrites \in Nat /\ MaxSignals \in Nat /\ MaxFailures \in Nat /\ MaxLosses \in Nat

NoPaths == -1
Version == 0 .. MaxWrites
Table == Version \cup {NoPaths}

VARIABLES
    db,         \* version of the stored paths
    announced,  \* history: version at the last signal
    missed,     \* history: the last signal did not reach the instance
    queue,      \* the control queue exists, with the instance's consumer
    signals,    \* signals on the control queue
    boot,       \* onModuleInit: "starting", "loading", "listening"
    inFlight,   \* reloadInFlight
    pending,    \* reloadPending
    call,       \* the calls of reload: where they are and what they got
    router,     \* dynamicRouter: the version it was built from
    failures,   \* failed requests so far
    losses      \* connections lost so far

outside == <<db, announced, missed, failures, losses>>
control == <<queue, signals>>
vars == <<outside, control, boot, inFlight, pending, call, router>>

CallState == [pc : {"idle", "asking", "answered", "swapped"}, got : Table]

Init ==
    /\ db = 0 /\ announced = NoPaths /\ missed = FALSE
    /\ failures = 0 /\ losses = 0
    /\ queue = FALSE /\ signals = 0
    /\ boot = "starting"
    /\ inFlight = FALSE /\ pending = FALSE
    /\ call = [c \in Call |-> [pc |-> "idle", got |-> NoPaths]]
    /\ router = NoPaths

-----------------------------------------------------------------------------
(* The admin service *)

\* A path is created, changed or removed by an admin or by route-sync.
WritePaths ==
    /\ db < MaxWrites
    /\ db' = db + 1
    /\ UNCHANGED <<announced, missed, failures, losses, control, boot, inFlight, pending,
                   call, router>>

\* triggerReload, or POST /admin/reload: the broadcast reaches who has a queue.
Signal ==
    /\ signals < MaxSignals
    /\ announced' = db
    /\ missed' = ~queue
    /\ signals' = IF queue THEN signals + 1 ELSE signals
    /\ UNCHANGED <<db, failures, losses, queue, boot, inFlight, pending, call, router>>

-----------------------------------------------------------------------------
(* reload *)

\* reload up to its first await; during another call it returns at once.
reload(c) ==
    /\ call[c].pc = "idle"
    /\ IF inFlight
       THEN pending' = TRUE /\ UNCHANGED <<inFlight, call>>
       ELSE /\ inFlight' = TRUE
            /\ pending' = FALSE
            /\ call' = [call EXCEPT ![c].pc = "asking"]

Boot(c) ==
    /\ boot = "starting"
    /\ boot' = "loading"
    /\ reload(c)
    /\ UNCHANGED <<outside, control, router>>

\* The first reload is through and the handler of the control topic registered.
Listen ==
    /\ boot = "loading"
    /\ ~inFlight
    /\ boot' = "listening"
    /\ queue' = TRUE
    /\ UNCHANGED <<outside, signals, inFlight, pending, call, router>>

\* The queue goes with its consumer; the calls of reload go on.
ConnectionLost ==
    /\ queue
    /\ losses < MaxLosses
    /\ losses' = losses + 1
    /\ queue' = FALSE /\ signals' = 0
    /\ missed' = (missed \/ signals > 0)
    /\ UNCHANGED <<db, announced, failures, boot, inFlight, pending, call, router>>

\* The setup function runs again.  Nobody asks what was announced meanwhile.
Resubscribe ==
    /\ boot = "listening"
    /\ ~queue
    /\ queue' = TRUE
    /\ UNCHANGED <<outside, signals, boot, inFlight, pending, call, router>>

HandleSignal(c) ==
    /\ signals > 0
    /\ signals' = signals - 1
    /\ reload(c)
    /\ UNCHANGED <<outside, queue, boot, router>>

\* export reads the enabled paths, and its answer is on its way.
Export(c) ==
    /\ call[c].pc = "asking"
    /\ call' = [call EXCEPT ![c] = [pc |-> "answered", got |-> db]]
    /\ UNCHANGED <<outside, control, boot, inFlight, pending, router>>

\* requestData rejects: the table is built from the YAML paths only.
PullFails(c) ==
    /\ call[c].pc \in {"asking", "answered"}
    /\ failures < MaxFailures
    /\ failures' = failures + 1
    /\ call' = [call EXCEPT ![c] = [pc |-> "answered", got |-> NoPaths]]
    /\ UNCHANGED <<db, announced, missed, losses, control, boot, inFlight, pending, router>>

\* Mutant: a table that another pass will replace is not swapped in.
Swap_skipsStale(c) ==
    /\ call[c].pc = "answered"
    /\ call' = [call EXCEPT ![c].pc = "swapped"]
    /\ router' = IF pending THEN router ELSE call[c].got
    /\ UNCHANGED <<outside, control, boot, inFlight, pending>>

\* The rest of doReload: the new table is built and swapped in.
Swap(c) ==
    /\ call[c].pc = "answered"
    /\ call' = [call EXCEPT ![c].pc = "swapped"]
    /\ router' = call[c].got
    /\ UNCHANGED <<outside, control, boot, inFlight, pending>>

\* Mutant: a call makes one pass and leaves the note to the next one.
GoRound_onePass(c) ==
    /\ call[c].pc = "swapped"
    /\ inFlight' = FALSE
    /\ call' = [call EXCEPT ![c].pc = "idle"]
    /\ UNCHANGED <<pending, outside, control, boot, router>>

\* Mutant: the note is cleared at the end of a pass, unread.
GoRound_forgets(c) ==
    /\ call[c].pc = "swapped"
    /\ pending' = FALSE
    /\ inFlight' = FALSE
    /\ call' = [call EXCEPT ![c].pc = "idle"]
    /\ UNCHANGED <<outside, control, boot, router>>

\* Once more if another call came in between.
GoRound(c) ==
    /\ call[c].pc = "swapped"
    /\ pending' = FALSE
    /\ inFlight' = pending
    /\ call' = [call EXCEPT ![c].pc = IF pending THEN "asking" ELSE "idle"]
    /\ UNCHANGED <<outside, control, boot, router>>

-----------------------------------------------------------------------------
Next ==
    \/ WritePaths \/ Signal \/ Listen \/ ConnectionLost \/ Resubscribe
    \/ \E c \in Call : \/ Boot(c) \/ HandleSignal(c) \/ Export(c) \/ PullFails(c)
                       \/ Swap(c) \/ GoRound(c)

Spec == Init /\ [][Next]_vars

\* onModuleInit runs, signals on the queue are delivered, requests are answered or
\* time out.  A connection is never obliged to come back, nor a signal to be heard.
Fairness ==
    /\ WF_vars(Listen)
    /\ WF_vars(\E c \in Call : Boot(c))
    /\ WF_vars(\E c \in Call : HandleSignal(c))
    /\ \A c \in Call : WF_vars(Export(c) \/ Swap(c) \/ GoRound(c))

FairSpec == Spec /\ Fairness

-----------------------------------------------------------------------------
(* Properties *)

\* The type invariant; a note to go round is there only while a call runs that
\* will read it.
TypeOK ==
    /\ db \in Version
    /\ announced \in Table
    /\ missed \in BOOLEAN /\ queue \in BOOLEAN
    /\ signals \in 0 .. MaxSignals
    /\ boot \in {"starting", "loading", "listening"}
    /\ inFlight \in BOOLEAN /\ pending \in BOOLEAN
    /\ pending => inFlight
    /\ call \in [Call -> CallState]
    /\ router \in Table
    /\ failures \in 0 .. MaxFailures /\ losses \in 0 .. MaxLosses

\* "Two reloads never run at the same time", and reloadInFlight is set exactly
\* while one does.
OneAtATime ==
    /\ inFlight <=> \E c \in Call : call[c].pc # "idle"
    /\ \A c, d \in Call : call[c].pc # "idle" /\ call[d].pc # "idle" => c = d

\* Nothing is left to do for the instance.
Settled == boot = "listening" /\ signals = 0 /\ ~inFlight

\* The instance keeps the promise of RouteTable: coalescing loses no signal that
\* reached the queue and stayed there, and the table never goes back to older
\* paths.
RT == INSTANCE RouteTable WITH table <- router, settled <- Settled

ImplementsRouteTable == RT!Spec

\* A signal takes effect, unless a request failed or the last signal found no
\* queue or went with it.
SignalTakesEffect ==
    \A v \in Version : announced = v ~> router >= v \/ failures > 0 \/ missed
=============================================================================
