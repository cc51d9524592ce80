------------------------------ MODULE Operations ------------------------------
(***************************************************************************)
(* What operates a system of gateways around its traffic: the grants of an *)
(* administrator (AclGrants), the jobs over the metrics (MetricsJobs) and  *)
(* the schematics a developer runs on the project (ProjectConfig).  They   *)
(* share no state, so a behaviour is one of the three and the other two    *)
(* stand still.                                                            *)
(***************************************************************************)
EXTENDS AclGrants, FiniteSets

CONSTANTS
    Point, Error, Edge, Instance, MaxHour, MaxBuffer,  \* see MetricsJobs
    BootHours, Retain, RollupRetain, MaxStops,
    Option, Decorated, MaxRuns,                        \* see ProjectConfig
    None

VARIABLES
    part,
    now, hour, edge, buffer, flight, flushing, stored, rollups, lease, up, job,
    unlocked, stops,
    config, last, schematicRuns

\* Points are countable, hours are numbers and None is neither an hour, nor an
\* instance, nor a rollup.
ASSUME JobsAssumption ==
    /\ IsFiniteSet(Point)
    /\ MaxHour \in Nat /\ BootHours \in Nat /\ Retain \in Nat /\ RollupRetain \in Nat
    /\ None \notin 0 .. MaxHour /\ None \notin Instance
    /\ None \notin [count : Nat, errors : Nat]

Jobs == INSTANCE MetricsJobs

Scaffold == INSTANCE ProjectConfig WITH runs <- schematicRuns

jobsVars == <<now, hour, edge, buffer, flight, flushing, stored, rollups, lease, up, job,
              unlocked, stops>>
scaffoldVars == <<config, last, schematicRuns>>
opsVars == <<part, vars, jobsVars, scaffoldVars>>

\* The parts that stand still are in one of their initial states.
OpsInit ==
    /\ part \in {"grants", "jobs", "scaffold"}
    /\ Init /\ Jobs!Init /\ Scaffold!Init
    /\ part # "grants" => docs = {}
    /\ part # "jobs" => edge = {}

GrantsStep == part = "grants" /\ Next /\ UNCHANGED <<part, jobsVars, scaffoldVars>>
JobsStep == part = "jobs" /\ Jobs!Next /\ UNCHANGED <<part, vars, scaffoldVars>>
ScaffoldStep == part = "scaffold" /\ Scaffold!Next /\ UNCHANGED <<part, vars, jobsVars>>

OpsNext == GrantsStep \/ JobsStep \/ ScaffoldStep

\* The flush timer of each instance and the end of each write.
Flushes(i) == part = "jobs" /\ Jobs!FlushStep(i) /\ UNCHANGED <<part, vars, scaffoldVars>>

OpsSpec == OpsInit /\ [][OpsNext]_opsVars /\ \A i \in Instance : WF_opsVars(Flushes(i))

-----------------------------------------------------------------------------
\* A rollup counts each point of its completed hour at most once (MetricsJobs).
RollupsSound == Jobs!RollupsSound

\* Aggregating an hour again loses nothing (MetricsJobs).
RollupsOnlyGrow == Jobs!RollupsOnlyGrow

\* What is buffered is written or dropped (MetricsJobs).
BufferDrains == Jobs!BufferDrains

\* The schematics are idempotent (ProjectConfig).
RerunChangesNothing == Scaffold!RerunChangesNothing

\* A project that booted still boots (ProjectConfig).
BootKept == Scaffold!BootKept
=============================================================================
