---------------------------- MODULE CallContract ----------------------------
(***************************************************************************)
(* What BrokerService promises to whoever calls requestData or             *)
(* publishMessage: the call returns at most once, and a request that       *)
(* returns an answer has been executed.                                    *)
(***************************************************************************)
CONSTANTS
    Call,   \* the calls
    Event   \* those that expect no answer

VARIABLES
    told,   \* what the caller knows
    done    \* the calls that a service has executed

vars == <<told, done>>

Outcome == {"done", "timeout", "refused"}

Init ==
    /\ told = [c \in Call |-> "idle"]
    /\ done = {}

Make(c) ==
    /\ told[c] = "idle"
    /\ told' = [told EXCEPT ![c] = "waiting"]
    /\ UNCHANGED done

\* A service may execute a request after its caller has given up.
Execute(c) ==
    /\ told[c] # "idle"
    /\ done' = done \cup {c}
    /\ UNCHANGED told

\* A call that cannot be sent is refused at once; an event knows no timeout.
Tell(c, o) ==
    /\ told[c] = "waiting" \/ (told[c] = "idle" /\ o = "refused")
    /\ o = "done" => c \in Event \cup done
    /\ o = "timeout" => c \notin Event
    /\ told' = [told EXCEPT ![c] = o]
    /\ UNCHANGED done

Next == \E c \in Call : Make(c) \/ Execute(c) \/ \E o \in Outcome : Tell(c, o)

Spec == Init /\ [][Next]_vars
=============================================================================
