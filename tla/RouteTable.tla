----------------------------- MODULE RouteTable -----------------------------
(***************************************************************************)
(* What a gateway instance promises about its route table: the table is a  *)
(* snapshot of the stored paths and never gives way to an older one, and   *)
(* once the instance has settled, the table is not older than the last     *)
(* reload signal, unless that signal did not reach the instance or the     *)
(* paths could not be read.                                                *)
(***************************************************************************)
EXTENDS Integers

CONSTANT NoPaths  \* the table without stored paths, below every version

VARIABLES
    db,         \* version of the stored paths
    announced,  \* version at the last reload signal
    table,      \* version the instance serves
    missed,     \* the last reload signal did not reach the instance
    settled     \* no signal and no rebuild under way

vars == <<db, announced, table, missed, settled>>

Init ==
    /\ db = 0
    /\ announced = NoPaths
    /\ table = NoPaths
    /\ missed = FALSE
    /\ settled = FALSE

Write ==
    /\ db' = db + 1
    /\ UNCHANGED <<announced, table, missed, settled>>

Announce ==
    /\ announced' = db
    /\ missed' = FALSE
    /\ settled' = FALSE
    /\ UNCHANGED <<db, table>>

\* A signal is sent that the instance cannot hear.
Miss ==
    /\ announced' = db
    /\ missed' = TRUE
    /\ UNCHANGED <<db, table, settled>>

\* The signals under way are lost, and with them maybe all there was to do.
Lose ==
    /\ ~settled
    /\ missed' = TRUE
    /\ settled' \in BOOLEAN
    /\ UNCHANGED <<db, announced, table>>

Serve ==
    /\ table' \in {NoPaths} \cup table .. db
    /\ UNCHANGED <<db, announced, missed, settled>>

Settle ==
    /\ table = NoPaths \/ announced <= table \/ missed
    /\ settled' = TRUE
    /\ UNCHANGED <<db, announced, table, missed>>

Next == Write \/ Announce \/ Miss \/ Lose \/ Serve \/ Settle

Spec == Init /\ [][Next]_vars
=============================================================================
