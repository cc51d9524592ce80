----------------------------- MODULE RouteSync -----------------------------
(***************************************************************************)
(* Route auto-discovery: RouteSyncService takes the manifest a service has *)
(* published, compares it with the rows stored for that service, writes    *)
(* the differences one by one and asks the gateways to reload; meanwhile   *)
(* users create, edit and delete rows through GatewayPathService.          *)
(*                                                                         *)
(* A route is its key (method and path), the fields whose change by a user *)
(* locks the row ("hard") and those whose change is kept as an override    *)
(* ("soft", "enabled").  The repository is external: it refuses a second   *)
(* row with the same key, an update of a removed row does nothing.  The    *)
(* journal, which only records, is left out.                               *)
(***************************************************************************)
EXTENDS Naturals

CONSTANTS
    Service,       \* publishers of manifests
    Key,           \* method and path of a route
    YamlKey,       \* those of the YAML routes
    Val,           \* values of a field
    Route,         \* contents of the routes that are announced or created
    Consumer,      \* gateway instances that consume the manifests
    NoRow,         \* a row that does not exist
    MaxRows,       \* bound: rows ever inserted
    MaxManifests,  \* bound: manifests
    MaxEdits,      \* bound: calls by users
    MaxFailures    \* bound: repository calls that fail

ASSUME SyncAssumption ==
    /\ YamlKey \subseteq Key
    /\ "manual" \notin Service
    /\ Route \subseteq [hard : Val, soft : Val]
    /\ MaxRows \in Nat /\ MaxManifests \in Nat /\ MaxEdits \in Nat /\ MaxFailures \in Nat

VARIABLES
    rows,       \* the stored rows by id, NoRow when absent
    inserted,   \* ids used so far
    sync,       \* what each consumer is doing
    edit,       \* the update call of a user: read, not yet written
    dirty,      \* history: the sync wrote after its last call of triggerReload
    disturbed,  \* history: consumers during whose work someone else changed a row
    manifests, edits, failures  \* so far; failures end the work on a manifest

bounds == <<manifests, edits, failures>>
history == <<dirty, disturbed>>
vars == <<rows, inserted, sync, edit, history, bounds>>

Id == 1 .. MaxRows
NoId == 0
Owner == Service \cup {"manual"}
Field == {"soft", "enabled"}
Row == [owner : Owner, key : Key, hard : Val, soft : Val, enabled : BOOLEAN,
        modified : BOOLEAN, overrides : SUBSET Field]

ASSUME NoRowAssumption == NoRow \notin Row

\* Rows with their ids: what a query returns.
Stored(P(_)) == {[id |-> i, row |-> rows[i]] : i \in {j \in Id : rows[j] # NoRow /\ P(rows[j])}}
KeyTaken(k, i) == \E j \in Id \ {i} : rows[j] # NoRow /\ rows[j].key = k

Idle == [pc |-> "idle"]
NoEdit == [id |-> NoId]
Quiet == \A g \in Consumer : sync[g] = Idle

\* A row is changed under the consumers other than by.
DisturbsOthers(by) ==
    disturbed' = IF rows' = rows THEN disturbed
                 ELSE disturbed \cup {g \in Consumer \ by : sync[g] # Idle}

Init ==
    /\ rows = [i \in Id |-> NoRow] /\ inserted = 0
    /\ sync = [g \in Consumer |-> Idle]
    /\ edit = NoEdit
    /\ dirty = FALSE /\ disturbed = {}
    /\ manifests = 0 /\ edits = 0 /\ failures = 0

-----------------------------------------------------------------------------
(* handle *)

\* A manifest arrives; the rows of its service are asked for.
Receive(g) ==
    /\ sync[g] = Idle
    /\ manifests < MaxManifests
    /\ manifests' = manifests + 1
    /\ \E s \in Service, announced \in SUBSET Key : \E routes \in [announced -> Route] :
         sync' = [sync EXCEPT ![g] =
                    [pc |-> "reserving", service |-> s, routes |-> routes,
                     existing |-> Stored(LAMBDA r : r.owner = s),
                     unchecked |-> announced \ YamlKey, reserved |-> announced \cap YamlKey]]
    /\ disturbed' = disturbed \ {g}
    /\ UNCHANGED <<rows, inserted, edit, dirty, edits, failures>>

\* findByRouteKey for one announced route
Reserve(g, k) ==
    LET c == sync[g]
        taken == Stored(LAMBDA r : r.key = k /\ r.owner # c.service) # {}
    IN  /\ c.pc = "reserving"
        /\ k \in c.unchecked
        /\ sync' = [sync EXCEPT ![g].unchecked = @ \ {k},
                                ![g].reserved = IF taken THEN @ \cup {k} ELSE @]
        /\ UNCHANGED <<rows, inserted, edit, history, bounds>>

\* applyUserOverrides, and the enabled flag that diffRoutes handles itself
Merged(route, ex) ==
    [hard    |-> route.hard,
     soft    |-> IF "soft" \in ex.overrides THEN ex.soft ELSE route.soft,
     enabled |-> IF "enabled" \in ex.overrides THEN ex.enabled ELSE TRUE]

\* The row an upsert writes.
Model(c, k, ex) ==
    LET new == Merged(c.routes[k], ex)
    IN  [owner |-> c.service, key |-> k, hard |-> new.hard, soft |-> new.soft,
         enabled |-> new.enabled, modified |-> FALSE, overrides |-> ex.overrides]

NewRow(c, k) == Model(c, k, [overrides |-> {}])

\* Mutant: rows a user has locked are compared like any other.
Upserts_noLock(c) ==
    LET accepted == DOMAIN c.routes \ c.reserved
        known == {e \in c.existing : e.row.key \in accepted}
    IN  {[id |-> e.id, again |-> FALSE, row |-> Model(c, e.row.key, e.row)] :
           e \in {e \in known : Model(c, e.row.key, e.row) # e.row}}
        \cup {[id |-> NoId, again |-> FALSE, row |-> NewRow(c, k)] :
                k \in accepted \ {e.row.key : e \in known}}

\* diffRoutes: an announced route that is neither reserved nor locked by a user
\* is inserted, or updated if it differs.
Upserts(c) ==
    LET accepted == DOMAIN c.routes \ c.reserved
        known == {e \in c.existing : e.row.key \in accepted}
    IN  {[id |-> e.id, again |-> FALSE, row |-> Model(c, e.row.key, e.row)] :
           e \in {e \in known : ~e.row.modified /\ Model(c, e.row.key, e.row) # e.row}}
        \cup {[id |-> NoId, again |-> FALSE, row |-> NewRow(c, k)] :
                k \in accepted \ {e.row.key : e \in known}}

\* Mutant: only rows of announced routes are looked at.
Disables_none(c) == {}

\* diffRoutes: rows whose route is not announced any more are switched off.
Disables(c) ==
    {e.id : e \in {e \in c.existing : e.row.key \notin DOMAIN c.routes /\ e.row.enabled}}

Diff(g) ==
    LET c == sync[g]
    IN  /\ c.pc = "reserving"
        /\ c.unchecked = {}
        /\ sync' = [sync EXCEPT ![g] =
                      [pc |-> "writing", service |-> c.service, routes |-> c.routes,
                       upserts |-> Upserts(c), disables |-> Disables(c),
                       changed |-> Upserts(c) # {} \/ Disables(c) # {}]]
        /\ UNCHANGED <<rows, inserted, edit, history, bounds>>

\* Mutant: the row that took the key is overwritten, whoever owns it.
Winner_anyone(c, u) == Stored(LAMBDA r : r.key = u.row.key)

\* After a ConflictError: the row of this service that has the key, if any.
Winner(c, u) == Stored(LAMBDA r : r.key = u.row.key /\ r.owner = c.service)

\* The unique index refuses the write; an update of a removed row writes nothing.
Conflicts(u) == u.id \in {NoId} \cup {i \in Id : rows[i] # NoRow} /\ KeyTaken(u.row.key, u.id)

\* An insert or update that goes through.
Upsert(g, u) ==
    /\ sync[g].pc = "writing" /\ u \in sync[g].upserts
    /\ ~Conflicts(u)
    /\ IF u.id = NoId
       THEN /\ inserted < MaxRows
            /\ inserted' = inserted + 1
            /\ rows' = [rows EXCEPT ![inserted'] = u.row]
       ELSE /\ rows' = [rows EXCEPT ![u.id] = IF @ = NoRow THEN NoRow ELSE u.row]
            /\ UNCHANGED inserted
    /\ dirty' = (dirty \/ rows' # rows)
    /\ DisturbsOthers({g})
    /\ sync' = [sync EXCEPT ![g].upserts = @ \ {u}]
    /\ UNCHANGED <<edit, bounds>>

\* A ConflictError: the winner is updated if it is the service's own row, and
\* left alone otherwise.  A second conflict is an error like any other.
Reconcile(g, u) ==
    /\ sync[g].pc = "writing" /\ u \in sync[g].upserts
    /\ Conflicts(u)
    /\ ~u.again
    /\ sync' = [sync EXCEPT ![g].upserts = (@ \ {u}) \cup
                  {[id |-> w.id, again |-> TRUE, row |-> u.row] : w \in Winner(sync[g], u)}]
    /\ UNCHANGED <<rows, inserted, edit, history, bounds>>

Disable(g, i) ==
    /\ sync[g].pc = "writing" /\ sync[g].upserts = {}
    /\ i \in sync[g].disables
    /\ rows' = [rows EXCEPT ![i] = IF @ = NoRow THEN NoRow ELSE [@ EXCEPT !.enabled = FALSE]]
    /\ dirty' = (dirty \/ rows' # rows)
    /\ DisturbsOthers({g})
    /\ sync' = [sync EXCEPT ![g].disables = @ \ {i}]
    /\ UNCHANGED <<inserted, edit, bounds>>

\* A repository call fails otherwise: the processing ends, the manifest is acked
\* all the same.
HandleFails(g) ==
    /\ \/ sync[g].pc = "reserving"
       \/ sync[g].pc = "writing" /\ (sync[g].upserts # {} \/ sync[g].disables # {})
    /\ failures < MaxFailures
    /\ failures' = failures + 1
    /\ sync' = [sync EXCEPT ![g] = Idle]
    /\ UNCHANGED <<rows, inserted, edit, history, manifests, edits>>

SecondConflict(g, u) ==
    /\ sync[g].pc = "writing" /\ u \in sync[g].upserts
    /\ Conflicts(u)
    /\ u.again
    /\ failures' = failures + 1
    /\ sync' = [sync EXCEPT ![g] = Idle]
    /\ UNCHANGED <<rows, inserted, edit, history, manifests, edits>>

\* Mutant: a reload is asked for when routes came or changed, not when they went.
Finish_upsertsOnly(g) ==
    /\ sync[g].pc = "writing" /\ sync[g].upserts = {} /\ sync[g].disables = {}
    /\ dirty' = IF sync[g].changed /\ DOMAIN sync[g].routes # {} THEN FALSE ELSE dirty
    /\ sync' = [sync EXCEPT ![g] = Idle]
    /\ UNCHANGED <<rows, inserted, edit, disturbed, bounds>>

\* triggerReload, if anything changed; it logs a broadcast that fails and returns.
Finish(g) ==
    /\ sync[g].pc = "writing" /\ sync[g].upserts = {} /\ sync[g].disables = {}
    /\ dirty' = IF sync[g].changed THEN FALSE ELSE dirty
    /\ sync' = [sync EXCEPT ![g] = Idle]
    /\ UNCHANGED <<rows, inserted, edit, disturbed, bounds>>

-----------------------------------------------------------------------------
(* Users *)

UserCalls ==
    /\ edits < MaxEdits
    /\ edits' = edits + 1
    /\ edit = NoEdit
    /\ UNCHANGED <<sync, dirty, manifests, failures>>

\* create; the repository has the last word on a key that is taken.
Create(k, route) ==
    /\ UserCalls
    /\ ~KeyTaken(k, NoId)
    /\ inserted < MaxRows
    /\ inserted' = inserted + 1
    /\ rows' = [rows EXCEPT ![inserted'] =
                  [owner |-> "manual", key |-> k, hard |-> route.hard, soft |-> route.soft,
                   enabled |-> TRUE, modified |-> FALSE, overrides |-> {}]]
    /\ DisturbsOthers({})
    /\ UNCHANGED edit

Remove(i) ==
    /\ UserCalls
    /\ rows[i] # NoRow
    /\ rows' = [rows EXCEPT ![i] = NoRow]
    /\ DisturbsOthers({})
    /\ UNCHANGED <<inserted, edit>>

\* update reads the row it is to change.  A new path or method alone is an edit
\* of "hard": the route key follows only when both are sent.
ReadForUpdate(i, field, v) ==
    /\ UserCalls
    /\ rows[i] # NoRow
    /\ edit' = [id |-> i, field |-> field, val |-> v, was |-> rows[i]]
    /\ UNCHANGED <<rows, inserted, disturbed>>

\* The locking and the overrides an edit of one field leads to; "release" hands
\* some of the overrides back.
Changed == edit.field # "release" /\ edit.was[edit.field] # edit.val
Locks == Changed /\ edit.field \in {"key", "hard"}

OverridesAfter ==
    IF edit.field = "release" THEN edit.was.overrides \ edit.val
    ELSE edit.was.overrides \cup (IF Changed THEN {edit.field} \cap Field ELSE {})

\* The rest of update: the field, and what follows from the row as it was read.
Update ==
    LET i == edit.id
    IN  /\ edit # NoEdit
        /\ edit' = NoEdit
        /\ rows' = IF rows[i] = NoRow \/ (edit.field = "key" /\ KeyTaken(edit.val, i))
                   THEN rows
                   ELSE LET r == [rows[i] EXCEPT !.modified = Locks \/ edit.was.modified,
                                                 !.overrides = OverridesAfter]
                        IN  [rows EXCEPT ![i] = IF edit.field = "release" THEN r
                                                ELSE [r EXCEPT ![edit.field] = edit.val]]
        /\ DisturbsOthers({})
        /\ UNCHANGED <<inserted, sync, dirty, bounds>>

-----------------------------------------------------------------------------
Handle(g) ==
    \/ Receive(g) \/ Diff(g) \/ Finish(g) \/ HandleFails(g)
    \/ \E k \in Key : Reserve(g, k)
    \/ sync[g].pc = "writing" /\ \E u \in sync[g].upserts :
         Upsert(g, u) \/ Reconcile(g, u) \/ SecondConflict(g, u)
    \/ \E i \in Id : Disable(g, i)

User ==
    \/ \E k \in Key, route \in Route : Create(k, route)
    \/ \E i \in Id : Remove(i)
    \/ \E i \in Id, k \in Key : ReadForUpdate(i, "key", k)
    \/ \E i \in Id, f \in {"hard", "soft"}, v \in Val : ReadForUpdate(i, f, v)
    \/ \E i \in Id, b \in BOOLEAN : ReadForUpdate(i, "enabled", b)
    \/ \E i \in Id, fs \in SUBSET Field \ {{}} : ReadForUpdate(i, "release", fs)
    \/ Update

Next == User \/ \E g \in Consumer : Handle(g)

Spec == Init /\ [][Next]_vars

-----------------------------------------------------------------------------
(* Properties *)

\* "The route-sync only ever touches rows of the same owner", whatever happens
\* between its reads and its writes.
OwnRowsOnly ==
    [][\A g \in Consumer, i \in Id :
         rows'[i] # rows[i] /\ rows[i] # NoRow /\ sync'[g] # sync[g] =>
           rows[i].owner = sync[g].service]_vars

\* "Auto-discovery never overwrites" a route a user has edited: no step of the
\* sync changes a locked row, except that it may switch it off, unless the row
\* was locked after the sync had read it.
LockedContentKept ==
    [][\A g \in Consumer \ disturbed, i \in Id :
         rows[i] # NoRow /\ rows'[i] # rows[i] /\ sync'[g] # sync[g] /\ rows[i].modified =>
           rows'[i] = [rows[i] EXCEPT !.enabled = FALSE]]_vars

\* A manifest that is through, with nobody else writing meanwhile, has been
\* applied: every announced route has a row, rows of the service that are
\* neither locked nor overridden are as announced, and rows of routes it no
\* longer announces are off.
ManifestApplied ==
    \A g \in Consumer \ disturbed :
      LET c == sync[g]
          own == {rows[i] : i \in {j \in Id : rows[j] # NoRow /\ rows[j].owner = c.service}}
      IN  c.pc = "writing" /\ c.upserts = {} /\ c.disables = {} =>
            /\ \A k \in DOMAIN c.routes : k \in YamlKey \/ KeyTaken(k, NoId)
            /\ \A r \in own : r.key \notin DOMAIN c.routes => ~r.enabled
            /\ \A r \in own : r.key \in DOMAIN c.routes \ YamlKey /\ ~r.modified =>
                 /\ r.hard = c.routes[r.key].hard
                 /\ r.soft = c.routes[r.key].soft \/ "soft" \in r.overrides
                 /\ r.enabled \/ "enabled" \in r.overrides

\* The sync "triggers a reload when anything changed": once it is idle, every
\* write was followed by a call of triggerReload, unless a call failed.
ReloadAfterChange == Quiet /\ failures = 0 => ~dirty
=============================================================================
