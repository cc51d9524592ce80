----------------------------- MODULE MetricsJobs -----------------------------
(***************************************************************************)
(* The metrics of one route in a cluster of gateway-admin instances: the   *)
(* raw points buffered by InfluxPointStore, their hourly rollups, made by  *)
(* timers under a lease that may expire or fail, and the pruning of both.  *)
(*                                                                         *)
(* A point is one handling of a tracking event, so that an event delivered *)
(* twice makes two.  What Influx, Mongo and the lock do is chosen when     *)
(* they are called; the sample's own lock is local to a process, and may   *)
(* be absent: a run without it is one whose lock errs.                     *)
(***************************************************************************)
EXTENDS Naturals, Sequences, FiniteSets

CONSTANTS
    Point,
    Error,         \* those of calls answered with 400 or more
    Edge,          \* those that may be stamped in the last millisecond of an hour
    Instance,
    MaxHour,       \* bounds the clock
    MaxBuffer,
    BootHours,     \* BOOT_CATCHUP_HOURS
    Retain,        \* retention of points and of rollups, in hours
    RollupRetain,
    MaxStops,      \* bounds the restarts
    None

VARIABLES
    now,           \* the current hour
    hour,          \* of a point, once it is handled
    edge,          \* the points that are in the last millisecond of theirs
    buffer, flight, flushing,    \* of the store of each instance
    stored,        \* points in Influx
    rollups,       \* [count, errors] of an hour, in Mongo
    lease,         \* who holds the lock
    up,
    job,           \* the rollup run of an instance: [at, hours, got]
    unlocked,      \* history: a run has gone on without holding the lock
    stops

store == <<buffer, flight, flushing, stored>>
runs == <<lease, job, unlocked>>
vars == <<now, hour, edge, store, rollups, runs, up, stops>>

Hour == 0..MaxHour
Idle == [at |-> "idle", hours |-> <<>>, got |-> {}]

Init ==
    /\ now = 0
    /\ hour = [p \in Point |-> None] /\ edge \in {{}, Edge}
    /\ buffer = [i \in Instance |-> {}]
    /\ flight = [i \in Instance |-> {}]
    /\ flushing = [i \in Instance |-> FALSE]
    /\ stored = {}
    /\ rollups = [h \in Hour |-> None]
    /\ lease = None
    /\ up = {}
    /\ job = [i \in Instance |-> Idle]
    /\ unlocked = FALSE
    /\ stops = 0

HourPasses ==
    /\ now < MaxHour
    /\ now' = now + 1
    /\ UNCHANGED <<hour, edge, store, rollups, runs, up, stops>>

-----------------------------------------------------------------------------
(* Points *)

\* track and record (the counter that is incremented next is not read here).
\* The event was stamped when the response was flushed and may have waited.
Track(i, p) ==
    /\ i \in up /\ hour[p] = None
    /\ \E h \in {now} \cup (IF now > 0 THEN {now - 1} ELSE {}) :
         hour' = [hour EXCEPT ![p] = h]
    /\ buffer' = [buffer EXCEPT ![i] = IF Cardinality(@) >= MaxBuffer THEN @ ELSE @ \cup {p}]
    /\ UNCHANGED <<now, edge, flight, flushing, stored, rollups, runs, up, stops>>

\* Every second, and as soon as a batch is full.
Flush(i) ==
    /\ i \in up /\ ~flushing[i] /\ buffer[i] # {}
    /\ flushing' = [flushing EXCEPT ![i] = TRUE]
    /\ flight' = [flight EXCEPT ![i] = buffer[i]]
    /\ buffer' = [buffer EXCEPT ![i] = {}]
    /\ UNCHANGED <<now, hour, edge, stored, rollups, runs, up, stops>>

\* Mutant: the guard is lifted only after a write that succeeded.
Flushed_stuck(i) ==
    /\ flight[i] # {}
    /\ \/ stored' = stored \cup flight[i] /\ flushing' = [flushing EXCEPT ![i] = FALSE]
       \/ UNCHANGED <<stored, flushing>>
    /\ flight' = [flight EXCEPT ![i] = {}]
    /\ UNCHANGED <<now, hour, edge, buffer, rollups, runs, up, stops>>

\* The write has come to an end; nothing retries one that failed.
Flushed(i) ==
    /\ flushing[i]
    /\ stored' \in {stored, stored \cup flight[i]}
    /\ flushing' = [flushing EXCEPT ![i] = FALSE]
    /\ flight' = [flight EXCEPT ![i] = {}]
    /\ UNCHANGED <<now, hour, edge, buffer, rollups, runs, up, stops>>

-----------------------------------------------------------------------------
(* Rollups *)

\* tryAcquire: acquired, or the lock errs and the job runs anyway.  A lease
\* that is held, also by an earlier life of the instance, is a tick skipped.
Acquire(i) ==
    \/ lease = None /\ lease' = i /\ UNCHANGED unlocked
    \/ UNCHANGED lease /\ unlocked' = TRUE

\* previousHourStart, and the n - 1 hours before it.
PreviousHours(n) == [k \in 1..(IF n > now THEN now ELSE n) |-> now - k]

\* rollup (n = 1) and runCatchup, once they may run.
Begin(i, n) ==
    /\ Acquire(i)
    /\ LET hours == PreviousHours(n)
       IN  job' = [job EXCEPT ![i] =
                     [at |-> IF hours = <<>> THEN "release" ELSE "read",
                      hours |-> hours, got |-> {}]]
    /\ UNCHANGED <<now, hour, edge, store, rollups, stops>>

\* onApplicationBootstrap; the catch-up is skipped if the lock is held.
Boot(i) ==
    /\ i \notin up
    /\ up' = up \cup {i}
    /\ \/ Begin(i, BootHours)
       \/ /\ lease # None
          /\ UNCHANGED <<now, hour, edge, store, rollups, runs, stops>>

Tick(i) ==
    /\ i \in up /\ job[i].at = "idle"
    /\ Begin(i, 1)
    /\ UNCHANGED up

Turn(i, at, got) ==
    LET rest == Tail(job[i].hours)
    IN  job' = [job EXCEPT ![i] =
                  IF at = "write" THEN [@ EXCEPT !.at = at, !.got = got]
                  ELSE [at |-> IF rest = <<>> THEN "release" ELSE "read",
                        hours |-> rest, got |-> {}]]

\* The query asks up to the hour's last millisecond, and Influx's range ends
\* before the instant it is given.
InHour(h) == {p \in stored : hour[p] = h /\ p \notin edge}

\* Mutant: a query that fails or finds nothing makes an empty rollup.
Read_unguarded(i) ==
    /\ job[i].at = "read"
    /\ \E got \in {{}, InHour(Head(job[i].hours))} : Turn(i, "write", got)
    /\ UNCHANGED <<now, hour, edge, store, rollups, lease, unlocked, up, stops>>

\* rollupHour up to its first await.  The store answers a failed query with
\* no points at all.
Read(i) ==
    /\ job[i].at = "read"
    /\ \E got \in {{}, InHour(Head(job[i].hours))} :
         Turn(i, IF got = {} THEN "read" ELSE "write", got)
    /\ UNCHANGED <<now, hour, edge, store, rollups, lease, unlocked, up, stops>>

aggregateRollups(got) ==
    [count |-> Cardinality(got), errors |-> Cardinality(got \cap Error)]

\* Mutant: $inc for $set.
Upsert_inc(h, r) ==
    [rollups EXCEPT ![h] =
        IF @ = None THEN r ELSE [count |-> @.count + r.count, errors |-> @.errors + r.errors]]

\* recordRollups' bulk write, keyed by hour, method and route.
Upsert(h, r) == [rollups EXCEPT ![h] = r]

Write(i) ==
    /\ job[i].at = "write"
    /\ rollups' \in {rollups, Upsert(Head(job[i].hours), aggregateRollups(job[i].got))}
    /\ Turn(i, "read", {})
    /\ UNCHANGED <<now, hour, edge, store, lease, unlocked, up, stops>>

\* releaseLock: a lease is deleted by its owner only, and may outlive the run.
Release(i) ==
    /\ job[i].at = "release"
    /\ job' = [job EXCEPT ![i] = Idle]
    /\ lease' \in {lease, IF lease = i THEN None ELSE lease}
    /\ UNCHANGED <<now, hour, edge, store, rollups, unlocked, up, stops>>

LeaseExpires ==
    /\ lease # None
    /\ lease' = None
    /\ unlocked' = (unlocked \/ job[lease].at # "idle")
    /\ UNCHANGED <<now, hour, edge, store, rollups, job, up, stops>>

-----------------------------------------------------------------------------
(* Retention and restarts *)

\* prune, which does each store in turn; the first to fail ends it.
Prune(i) ==
    /\ i \in up
    /\ stored' = {p \in stored : hour[p] + Retain >= now}
    /\ rollups' \in {rollups,
                     [h \in Hour |-> IF h + RollupRetain < now THEN None ELSE rollups[h]]}
    /\ UNCHANGED <<now, hour, edge, buffer, flight, flushing, runs, up, stops>>

\* onModuleDestroy flushes, but not while a flush is under way; a crash does not.
Stop(i) ==
    /\ i \in up /\ stops < MaxStops
    /\ stops' = stops + 1
    /\ up' = up \ {i}
    /\ \E last \in {{}, flight[i]} \cup (IF flushing[i] THEN {} ELSE {buffer[i]}) :
         stored' = stored \cup last
    /\ buffer' = [buffer EXCEPT ![i] = {}]
    /\ flight' = [flight EXCEPT ![i] = {}]
    /\ flushing' = [flushing EXCEPT ![i] = FALSE]
    /\ job' = [job EXCEPT ![i] = Idle]
    /\ UNCHANGED <<now, hour, edge, rollups, lease, unlocked>>

-----------------------------------------------------------------------------
Next ==
    \/ HourPasses \/ LeaseExpires
    \/ \E i \in Instance :
         \/ \E p \in Point : Track(i, p)
         \/ Flush(i) \/ Flushed(i)
         \/ Boot(i) \/ Tick(i) \/ Read(i) \/ Write(i) \/ Release(i)
         \/ Prune(i) \/ Stop(i)

Spec == Init /\ [][Next]_vars

\* The flush timer, and the timeout of the POST.
FlushStep(i) == Flush(i) \/ Flushed(i)

-----------------------------------------------------------------------------
(* Properties *)

\* A rollup is of a completed hour and counts no point twice, however many
\* instances aggregate that hour, and whenever the lease expires or the
\* lock errs.
RollupsSound ==
    \A h \in Hour :
      rollups[h] # None =>
        LET ps == {p \in Point : hour[p] = h}
        IN  /\ h < now
            /\ rollups[h].errors <= Cardinality(ps \cap Error)
            /\ rollups[h].count - rollups[h].errors <= Cardinality(ps \ Error)

\* Aggregating an hour again never loses what its rollup had counted, as long as
\* neither its points nor the rollup are old enough to be pruned: a failed query
\* and a write that fails leave it alone, late points add to it.  That takes the
\* lock: once a run goes on without it, or after its lease, an older reading may
\* be written over a newer one.
RollupsOnlyGrow ==
    [][\A h \in Hour :
         /\ rollups[h] # None /\ ~unlocked
         /\ h + Retain >= now /\ h + RollupRetain >= now
         => rollups'[h] # None /\ rollups'[h].count >= rollups[h].count]_vars

\* What is buffered is written or dropped within a finite time, even if every
\* write fails: the store's buffer drains.
BufferDrains == []<>(\A i \in Instance : buffer[i] = {} /\ ~flushing[i])
=============================================================================
