--------------------------- MODULE RouteSyncProofs ---------------------------
(***************************************************************************)
(* What the sync does to the stored rows, for any number of services,      *)
(* consumers, manifests and users who change rows between its reads and    *)
(* its writes: whose rows it touches, that it leaves locked ones, that it  *)
(* applies what was announced, and that a reload follows.                  *)
(***************************************************************************)
EXTENDS RouteSync, TLAPS

USE SyncAssumption

Routes == UNION {[announced -> Route] : announced \in SUBSET Key}
Found == [id : Id, row : Row]
Write == [id : Id \cup {NoId}, again : BOOLEAN, row : Row]

Reserving == [pc : {"reserving"}, service : Service, routes : Routes,
              existing : SUBSET Found, unchecked : SUBSET Key, reserved : SUBSET Key]
Writing == [pc : {"writing"}, service : Service, routes : Routes,
            upserts : SUBSET Write, disables : SUBSET Id, changed : BOOLEAN]

ValueOf(field) ==
    CASE field = "key" -> Key [] field \in {"hard", "soft"} -> Val
      [] field = "enabled" -> BOOLEAN
      [] field = "release" -> SUBSET Field

Typed ==
    /\ inserted \in 0 .. MaxRows
    /\ rows \in [Id -> Row \cup {NoRow}]
    /\ sync \in [Consumer -> {Idle} \cup Reserving \cup Writing]
    /\ \/ edit = NoEdit
       \/ /\ edit \in [id : Id, field : {"key", "hard", "soft", "enabled", "release"},
                       val : Key \cup Val \cup BOOLEAN \cup SUBSET Field, was : Row]
          /\ edit.val \in ValueOf(edit.field)

\* The row i, if it is still there, belongs to s; the id is not used again.
Own(i, s) == i <= inserted /\ (rows[i] # NoRow => rows[i].owner = s)

\* The sync works on rows of its own service, and writes such rows.
Targets ==
    \A g \in Consumer :
      /\ sync[g].pc = "reserving" => \A e \in sync[g].existing : Own(e.id, sync[g].service)
      /\ sync[g].pc = "writing" =>
           /\ \A u \in sync[g].upserts :
                /\ u.row.owner = sync[g].service
                /\ u.id # NoId => Own(u.id, sync[g].service)
           /\ \A i \in sync[g].disables : Own(i, sync[g].service)

\* The inductive invariant.
IInv == Typed /\ Targets /\ \A i \in Id : rows[i] # NoRow => i <= inserted

\* No row changes its owner, and a row that is gone does not come back.
OwnersKept ==
    /\ inserted' >= inserted
    /\ \A i \in Id : i <= inserted /\ rows'[i] # NoRow =>
         rows[i] # NoRow /\ rows'[i].owner = rows[i].owner

-----------------------------------------------------------------------------
\* What is owned stays owned.
LEMMA OwnStays ==
    ASSUME Typed, inserted' \in Nat, OwnersKept, NEW i \in Id, NEW s, Own(i, s) PROVE Own(i, s)'
BY DEF OwnersKept, Own, Typed, Id

\* What the sync is about to write are rows of its service.
LEMMA UpsertsAreOwn ==
    ASSUME NEW c \in Reserving, \A e \in c.existing : Own(e.id, c.service)
    PROVE  /\ Upserts(c) \subseteq Write
           /\ \A u \in Upserts(c) :
                u.row.owner = c.service /\ (u.id # NoId => Own(u.id, c.service))
<1> DEFINE accepted == DOMAIN c.routes \ c.reserved
<1>1. \A k \in DOMAIN c.routes : k \in Key /\ c.routes[k] \in [hard : Val, soft : Val]
  BY DEF Reserving, Routes
<1>2. ASSUME NEW k \in accepted, NEW ex \in Row
      PROVE  Model(c, k, ex) \in Row /\ Model(c, k, ex).owner = c.service
  BY <1>1, <1>2 DEF Model, Merged, Reserving, Row, Owner
<1>3. ASSUME NEW k \in accepted
      PROVE  NewRow(c, k) \in Row /\ NewRow(c, k).owner = c.service
  BY <1>1, <1>3 DEF NewRow, Model, Merged, Reserving, Row, Owner, Field
<1>4. \A e \in c.existing : e.id \in Id /\ e.row \in Row
  BY DEF Reserving, Found
<1>5. ASSUME NEW u \in Upserts(c)
      PROVE  u \in Write /\ u.row.owner = c.service /\ (u.id # NoId => Own(u.id, c.service))
  <2>1. \/ \E e \in c.existing :
             e.row.key \in accepted
             /\ u = [id |-> e.id, again |-> FALSE, row |-> Model(c, e.row.key, e.row)]
        \/ \E k \in accepted : u = [id |-> NoId, again |-> FALSE, row |-> NewRow(c, k)]
    BY <1>5 DEF Upserts
  <2>2. CASE \E e \in c.existing :
               e.row.key \in accepted
               /\ u = [id |-> e.id, again |-> FALSE, row |-> Model(c, e.row.key, e.row)]
    <3>1. PICK e \in c.existing :
             e.row.key \in accepted
             /\ u = [id |-> e.id, again |-> FALSE, row |-> Model(c, e.row.key, e.row)]
      BY <2>2
    <3>2. Model(c, e.row.key, e.row) \in Row /\ Model(c, e.row.key, e.row).owner = c.service
      BY <1>2, <1>4, <3>1
    <3> QED BY <1>4, <3>1, <3>2 DEF Write
  <2>3. CASE \E k \in accepted : u = [id |-> NoId, again |-> FALSE, row |-> NewRow(c, k)]
    BY <1>3, <2>3 DEF Write
  <2> QED BY <2>1, <2>2, <2>3
<1> QED BY <1>5

LEMMA InitIInv == Init => IInv
BY DEF Init, IInv, Typed, Targets, Idle

\* handle up to the writes changes no row.
LEMMA ReadsKeep ==
    ASSUME IInv, NEW g \in Consumer,
           Receive(g) \/ Diff(g) \/ Finish(g) \/ HandleFails(g) \/ \E k \in Key : Reserve(g, k)
    PROVE  IInv' /\ UNCHANGED rows
<1>1. CASE Receive(g)
  <2>1. PICK s \in Service, announced \in SUBSET Key : \E routes \in [announced -> Route] :
         sync' = [sync EXCEPT ![g] =
                    [pc |-> "reserving", service |-> s, routes |-> routes,
                     existing |-> Stored(LAMBDA r : r.owner = s),
                     unchecked |-> announced \ YamlKey, reserved |-> announced \cap YamlKey]]
    BY <1>1 DEF Receive
  <2>2. UNCHANGED <<rows, inserted, edit>>
    BY <1>1 DEF Receive
  <2> DEFINE existing == Stored(LAMBDA r : r.owner = s)
  <2>3. existing \subseteq Found /\ \A e \in existing : rows[e.id] # NoRow /\ rows[e.id].owner = s
    BY DEF Stored, Found, IInv, Typed
  <2>4. \A e \in existing : Own(e.id, s)
    BY <2>3 DEF Own, IInv, Found
  <2> HIDE DEF existing
  <2>5. PICK c \in Reserving : /\ sync' = [sync EXCEPT ![g] = c]
                               /\ c.service = s /\ c.existing = existing
    <3>1. PICK routes \in [announced -> Route] :
         sync' = [sync EXCEPT ![g] =
                    [pc |-> "reserving", service |-> s, routes |-> routes,
                     existing |-> existing,
                     unchecked |-> announced \ YamlKey, reserved |-> announced \cap YamlKey]]
      BY <2>1 DEF existing
    <3>2. routes \in Routes /\ announced \ YamlKey \in SUBSET Key /\ announced \cap YamlKey \in SUBSET Key
      BY DEF Routes
    <3> DEFINE c == [pc |-> "reserving", service |-> s, routes |-> routes,
                     existing |-> existing, unchecked |-> announced \ YamlKey,
                     reserved |-> announced \cap YamlKey]
    <3>3. c \in Reserving
      BY <2>3, <3>2 DEF Reserving
    <3>4. c.service = s /\ c.existing = existing /\ sync' = [sync EXCEPT ![g] = c]
      BY <3>1
    <3> HIDE DEF c
    <3> QED BY <3>3, <3>4
  <2>6. Typed'
    BY <2>2, <2>5 DEF IInv, Typed
  <2>7. Targets'
    BY <2>2, <2>4, <2>5 DEF IInv, Typed, Targets, Own, Reserving
  <2> QED BY <2>2, <2>6, <2>7 DEF IInv
<1>2. CASE Diff(g)
  <2> DEFINE c == sync[g]
  <2>1. /\ c \in Reserving /\ c.pc = "reserving" /\ UNCHANGED <<rows, inserted, edit>>
        /\ sync' = [sync EXCEPT ![g] =
                      [pc |-> "writing", service |-> c.service, routes |-> c.routes,
                       upserts |-> Upserts(c), disables |-> Disables(c),
                       changed |-> Upserts(c) # {} \/ Disables(c) # {}]]
    BY <1>2 DEF Diff, IInv, Typed, Idle, Writing
  <2>2. \A e \in c.existing : Own(e.id, c.service)
    BY <2>1 DEF IInv, Targets
  <2>3. /\ Upserts(c) \subseteq Write
        /\ \A u \in Upserts(c) :
             u.row.owner = c.service /\ (u.id # NoId => Own(u.id, c.service))
    BY <2>1, <2>2, UpsertsAreOwn
  <2>4. Disables(c) \subseteq Id /\ \A i \in Disables(c) : Own(i, c.service)
    BY <2>1, <2>2 DEF Disables, Reserving, Found
  <2>5. PICK w \in Writing : /\ sync' = [sync EXCEPT ![g] = w] /\ w.service = c.service
                             /\ w.upserts = Upserts(c) /\ w.disables = Disables(c)
    <3>1. c.service \in Service /\ c.routes \in Routes
      BY <2>1 DEF Reserving
    <3> DEFINE w == [pc |-> "writing", service |-> c.service, routes |-> c.routes,
                     upserts |-> Upserts(c), disables |-> Disables(c),
                     changed |-> Upserts(c) # {} \/ Disables(c) # {}]
    <3>2. (Upserts(c) # {} \/ Disables(c) # {}) \in BOOLEAN
      OBVIOUS
    <3>3. w \in Writing
      BY <2>3, <2>4, <3>1, <3>2 DEF Writing
    <3>4. /\ w.service = c.service /\ w.upserts = Upserts(c) /\ w.disables = Disables(c)
          /\ sync' = [sync EXCEPT ![g] = w]
      BY <2>1
    <3> HIDE DEF w
    <3> QED BY <3>3, <3>4
  <2>6. Typed'
    BY <2>1, <2>5 DEF IInv, Typed
  <2>7. Targets'
    BY <2>1, <2>3, <2>4, <2>5 DEF IInv, Typed, Targets, Own, Writing
  <2> QED BY <2>1, <2>6, <2>7 DEF IInv
<1>3. CASE Finish(g) \/ HandleFails(g)
  <2>1. sync' = [sync EXCEPT ![g] = Idle] /\ UNCHANGED <<rows, inserted, edit>>
    BY <1>3 DEF Finish, HandleFails
  <2>2. Typed'
    BY <2>1 DEF IInv, Typed
  <2>3. Targets'
    BY <2>1 DEF IInv, Typed, Targets, Own, Idle
  <2> QED BY <2>1, <2>2, <2>3 DEF IInv
<1>4. ASSUME NEW k \in Key, Reserve(g, k) PROVE IInv' /\ UNCHANGED rows
  <2> DEFINE c == sync[g]
             taken == Stored(LAMBDA r : r.key = k /\ r.owner # c.service) # {}
             d == [c EXCEPT !.unchecked = @ \ {k},
                            !.reserved = IF taken THEN @ \cup {k} ELSE @]
  <2>0. /\ c.pc = "reserving" /\ UNCHANGED <<rows, inserted, edit>>
        /\ sync' = [sync EXCEPT ![g].unchecked = @ \ {k},
                                ![g].reserved = IF taken THEN @ \cup {k} ELSE @]
    BY <1>4 DEF Reserve
  <2> HIDE DEF taken
  <2>1. c \in Reserving /\ UNCHANGED <<rows, inserted, edit>>
    BY <2>0 DEF IInv, Typed, Idle, Writing
  <2>2. d \in Reserving /\ d.service = c.service /\ d.existing = c.existing
        /\ sync' = [sync EXCEPT ![g] = d]
    <3>1. d \in Reserving /\ d.service = c.service /\ d.existing = c.existing
      BY <2>1 DEF Reserving
    <3>2. sync' = [sync EXCEPT ![g] = d]
      BY <2>0, <2>1 DEF IInv, Typed, Reserving
    <3> QED BY <3>1, <3>2
  <2> HIDE DEF d
  <2>3. Typed'
    BY <2>1, <2>2 DEF IInv, Typed
  <2>4. Targets'
    BY <2>1, <2>2 DEF IInv, Typed, Targets, Own, Reserving
  <2> QED BY <2>1, <2>3, <2>4 DEF IInv
<1> QED BY <1>1, <1>2, <1>3, <1>4

OwnNext(i, s) == i <= inserted' /\ (rows'[i] # NoRow => rows'[i].owner = s)

\* A write to a row of the service, which leaves the other work as it was.
LEMMA ChangeKeeps ==
    ASSUME IInv, NEW g \in Consumer, NEW c \in {Idle} \cup Writing,
           sync' = [sync EXCEPT ![g] = c], edit' = edit,
           c # Idle => /\ \A u \in c.upserts :
                             u.row.owner = c.service /\ (u.id # NoId => Own(u.id, c.service))
                       /\ \A i \in c.disables : Own(i, c.service),
           rows' \in [Id -> Row \cup {NoRow}], inserted' \in 0 .. MaxRows, OwnersKept,
           \A i \in Id : rows'[i] # NoRow => i <= inserted'
    PROVE  IInv'
<1>1. Typed'
  BY DEF IInv, Typed
<1>2. \A i \in Id, s \in Service : Own(i, s) => OwnNext(i, s)
  BY OwnStays DEF IInv, Own, OwnNext, Typed
<1>3. ASSUME NEW h \in Consumer \ {g}
      PROVE  /\ sync'[h].pc = "reserving" =>
                  \A e \in sync'[h].existing : OwnNext(e.id, sync'[h].service)
             /\ sync'[h].pc = "writing" =>
                  /\ \A u \in sync'[h].upserts :
                       /\ u.row.owner = sync'[h].service
                       /\ u.id # NoId => OwnNext(u.id, sync'[h].service)
                  /\ \A i \in sync'[h].disables : OwnNext(i, sync'[h].service)
  <2>1. sync'[h] = sync[h]
    BY DEF IInv, Typed
  <2>2. CASE sync[h] \in Reserving
    BY <1>2, <2>1, <2>2 DEF IInv, Targets, Reserving, Found
  <2>3. CASE sync[h] \in Writing
    BY <1>2, <2>1, <2>3 DEF IInv, Targets, Writing, Write
  <2>4. CASE sync[h] = Idle
    BY <2>1, <2>4 DEF Idle
  <2> QED BY <2>2, <2>3, <2>4 DEF IInv, Typed
<1>4. /\ sync'[g].pc = "reserving" =>
           \A e \in sync'[g].existing : OwnNext(e.id, sync'[g].service)
      /\ sync'[g].pc = "writing" =>
           /\ \A u \in sync'[g].upserts :
                /\ u.row.owner = sync'[g].service
                /\ u.id # NoId => OwnNext(u.id, sync'[g].service)
           /\ \A i \in sync'[g].disables : OwnNext(i, sync'[g].service)
  <2>1. sync'[g] = c
    BY DEF IInv, Typed
  <2>2. CASE c \in Writing
    BY <1>2, <2>1, <2>2 DEF Idle, Writing, Write
  <2>3. CASE c = Idle
    BY <2>1, <2>3 DEF Idle
  <2> QED BY <2>2, <2>3
<1>5. Targets'
  BY <1>3, <1>4 DEF Targets, Own, OwnNext
<1> QED BY <1>1, <1>5 DEF IInv

\* The rows that a step of g changes belong to the service g works for.
OwnChange(g) ==
    \A i \in Id : rows'[i] # rows[i] /\ rows[i] # NoRow => rows[i].owner = sync[g].service

LEMMA UpsertKeeps ==
    ASSUME IInv, NEW g \in Consumer, sync[g].pc = "writing", NEW u \in sync[g].upserts,
           Upsert(g, u)
    PROVE  IInv' /\ OwnChange(g)
<1> DEFINE c == sync[g]
           d == [c EXCEPT !.upserts = @ \ {u}]
<1>1. /\ c \in Writing /\ u \in Write
      /\ \A w \in c.upserts :
           w.row.owner = c.service /\ (w.id # NoId => Own(w.id, c.service))
      /\ \A i \in c.disables : Own(i, c.service)
  BY DEF IInv, Typed, Targets, Idle, Reserving, Writing
<1>2. edit' = edit /\ sync' = [sync EXCEPT ![g] = d]
  BY DEF Upsert
<1>3. /\ d \in Writing /\ d.service = c.service /\ d.upserts \subseteq c.upserts
      /\ d.disables = c.disables
  BY <1>1 DEF Writing
<1>4. /\ rows' \in [Id -> Row \cup {NoRow}] /\ inserted' \in 0 .. MaxRows /\ OwnersKept
      /\ \A i \in Id : rows'[i] # NoRow => i <= inserted'
      /\ OwnChange(g)
  <2>1. CASE u.id = NoId
    <3>1. /\ inserted < MaxRows /\ inserted' = inserted + 1
          /\ rows' = [rows EXCEPT ![inserted'] = u.row]
      BY <2>1 DEF Upsert
    <3>2. inserted' \in Id /\ inserted' \in 0 .. MaxRows /\ u.row \in Row
      BY <1>1, <3>1 DEF IInv, Typed, Id, Write
    <3>3. rows[inserted'] = NoRow
      BY <3>1, <3>2 DEF IInv, Typed, Id
    <3> QED BY <3>1, <3>2, <3>3 DEF IInv, Typed, OwnersKept, OwnChange, Id
  <2>2. CASE u.id # NoId
    <3>1. /\ rows' = [rows EXCEPT ![u.id] = IF @ = NoRow THEN NoRow ELSE u.row]
          /\ inserted' = inserted
      BY <2>2 DEF Upsert
    <3>2. /\ u.id \in Id /\ u.row \in Row /\ u.row.owner = c.service
          /\ rows[u.id] # NoRow => rows[u.id].owner = c.service
      BY <1>1, <2>2 DEF Write, Own
    <3> QED BY <3>1, <3>2 DEF IInv, Typed, OwnersKept, OwnChange, Id
  <2> QED BY <2>1, <2>2
<1> HIDE DEF d
<1>5. IInv'
  BY <1>1, <1>2, <1>3, <1>4, ChangeKeeps
<1> QED BY <1>4, <1>5

LEMMA ReconcileKeeps ==
    ASSUME IInv, NEW g \in Consumer, sync[g].pc = "writing", NEW u \in sync[g].upserts,
           Reconcile(g, u)
    PROVE  IInv' /\ UNCHANGED rows
<1> DEFINE c == sync[g]
           again == {[id |-> w.id, again |-> TRUE, row |-> u.row] : w \in Winner(c, u)}
           d == [c EXCEPT !.upserts = (@ \ {u}) \cup again]
<1>1. /\ c \in Writing /\ u \in Write
      /\ \A w \in c.upserts :
           w.row.owner = c.service /\ (w.id # NoId => Own(w.id, c.service))
      /\ \A i \in c.disables : Own(i, c.service)
  BY DEF IInv, Typed, Targets, Idle, Reserving, Writing
<1>2. edit' = edit /\ UNCHANGED <<rows, inserted>> /\ sync' = [sync EXCEPT ![g] = d]
  BY DEF Reconcile
<1>3. \A w \in Winner(c, u) : w.id \in Id /\ Own(w.id, c.service)
  BY DEF Winner, Stored, Own, IInv
<1>4. /\ again \subseteq Write
      /\ \A w \in again : w.row.owner = c.service /\ Own(w.id, c.service)
  <2> SUFFICES ASSUME NEW w \in Winner(c, u)
               PROVE  /\ [id |-> w.id, again |-> TRUE, row |-> u.row] \in Write
                      /\ u.row.owner = c.service /\ Own(w.id, c.service)
    OBVIOUS
  <2> QED BY <1>1, <1>3 DEF Write
<1> HIDE DEF again
<1>5. /\ d \in Writing /\ d.service = c.service /\ d.upserts \subseteq c.upserts \cup again
      /\ d.disables = c.disables
  BY <1>1, <1>4 DEF Writing
<1> HIDE DEF d
<1>6. OwnersKept /\ rows' \in [Id -> Row \cup {NoRow}] /\ inserted' \in 0 .. MaxRows
      /\ \A i \in Id : rows'[i] # NoRow => i <= inserted'
  BY <1>2 DEF OwnersKept, IInv, Typed, Id
<1>7. IInv'
  BY <1>1, <1>2, <1>4, <1>5, <1>6, ChangeKeeps
<1> QED BY <1>2, <1>7

LEMMA DisableKeeps ==
    ASSUME IInv, NEW g \in Consumer, NEW i \in Id, Disable(g, i)
    PROVE  IInv' /\ OwnChange(g)
<1> DEFINE c == sync[g]
           d == [c EXCEPT !.disables = @ \ {i}]
<1>1. /\ c \in Writing /\ i \in c.disables /\ c.upserts = {}
      /\ \A j \in c.disables : Own(j, c.service)
  BY DEF Disable, IInv, Typed, Targets, Idle, Reserving, Writing
<1>2. edit' = edit /\ inserted' = inserted /\ sync' = [sync EXCEPT ![g] = d]
      /\ rows' = [rows EXCEPT ![i] = IF @ = NoRow THEN NoRow ELSE [@ EXCEPT !.enabled = FALSE]]
  BY DEF Disable
<1>3. /\ d \in Writing /\ d.service = c.service /\ d.upserts = {}
      /\ d.disables \subseteq c.disables
  BY <1>1 DEF Writing
<1>4. /\ rows' \in [Id -> Row \cup {NoRow}] /\ inserted' \in 0 .. MaxRows /\ OwnersKept
      /\ \A j \in Id : rows'[j] # NoRow => j <= inserted'
      /\ OwnChange(g)
  <2>1. rows[i] # NoRow =>
          /\ [rows[i] EXCEPT !.enabled = FALSE] \in Row
          /\ [rows[i] EXCEPT !.enabled = FALSE].owner = rows[i].owner
    BY DEF IInv, Typed, Row
  <2> QED BY <1>1, <1>2, <2>1 DEF IInv, Typed, OwnersKept, OwnChange, Own, Id
<1> HIDE DEF d
<1>5. IInv'
  BY <1>1, <1>2, <1>3, <1>4, ChangeKeeps
<1> QED BY <1>4, <1>5

\* A step of the sync.
LEMMA HandleKeeps ==
    ASSUME IInv, NEW g \in Consumer, Handle(g)
    PROVE  IInv' /\ OwnChange(g) /\ \A h \in Consumer \ {g} : sync'[h] = sync[h]
<1>1. \A h \in Consumer \ {g} : sync'[h] = sync[h]
  BY DEF Handle, Receive, Diff, Finish, HandleFails, Reserve, Upsert, Reconcile,
         SecondConflict, Disable, IInv, Typed
<1>2. CASE Receive(g) \/ Diff(g) \/ Finish(g) \/ HandleFails(g) \/ \E k \in Key : Reserve(g, k)
  BY <1>1, <1>2, ReadsKeep DEF OwnChange
<1>3. ASSUME sync[g].pc = "writing", NEW u \in sync[g].upserts, SecondConflict(g, u)
      PROVE  IInv' /\ OwnChange(g)
  <2>1. sync' = [sync EXCEPT ![g] = Idle] /\ UNCHANGED <<rows, inserted, edit>>
    BY <1>3 DEF SecondConflict
  <2> QED BY <2>1 DEF IInv, Typed, Targets, Own, Idle, OwnChange
<1>4. ASSUME sync[g].pc = "writing", NEW u \in sync[g].upserts, Upsert(g, u) \/ Reconcile(g, u)
      PROVE  IInv' /\ OwnChange(g)
  BY <1>4, UpsertKeeps, ReconcileKeeps DEF OwnChange
<1> QED BY <1>1, <1>2, <1>3, <1>4, DisableKeeps DEF Handle

-----------------------------------------------------------------------------
(* Users *)

\* A call of a user leaves what the sync is about to do its own.
LEMMA UserChangeKeeps ==
    ASSUME IInv, Typed', UNCHANGED sync, OwnersKept, \A i \in Id : rows'[i] # NoRow => i <= inserted'
    PROVE  IInv'
<1>1. \A i \in Id, s \in Service : Own(i, s) => OwnNext(i, s)
  BY OwnStays DEF IInv, Own, OwnNext, Typed
<1>2. ASSUME NEW g \in Consumer
      PROVE  /\ sync[g].pc = "reserving" =>
                  \A e \in sync[g].existing : OwnNext(e.id, sync[g].service)
             /\ sync[g].pc = "writing" =>
                  /\ \A u \in sync[g].upserts :
                       /\ u.row.owner = sync[g].service
                       /\ u.id # NoId => OwnNext(u.id, sync[g].service)
                  /\ \A i \in sync[g].disables : OwnNext(i, sync[g].service)
  <2>1. CASE sync[g] \in Reserving
    BY <1>1, <2>1 DEF IInv, Targets, Reserving, Found
  <2>2. CASE sync[g] \in Writing
    BY <1>1, <2>2 DEF IInv, Targets, Writing, Write
  <2>3. CASE sync[g] = Idle
    BY <2>3 DEF Idle
  <2> QED BY <2>1, <2>2, <2>3 DEF IInv, Typed
<1>3. Targets'
  BY <1>2 DEF Targets, Own, OwnNext
<1> QED BY <1>3 DEF IInv

LEMMA UserKeeps == ASSUME IInv, User PROVE IInv' /\ UNCHANGED sync
<1>1. ASSUME NEW k \in Key, NEW route \in Route, Create(k, route) PROVE IInv' /\ UNCHANGED sync
  <2> DEFINE row == [owner |-> "manual", key |-> k, hard |-> route.hard, soft |-> route.soft,
                     enabled |-> TRUE, modified |-> FALSE, overrides |-> {}]
  <2>1. /\ UNCHANGED <<sync, edit>> /\ inserted < MaxRows /\ inserted' = inserted + 1
        /\ rows' = [rows EXCEPT ![inserted'] = row]
    BY <1>1 DEF Create, UserCalls
  <2>2. row \in Row
    BY DEF Row, Owner
  <2> HIDE DEF row
  <2>3. inserted' \in Id /\ inserted' \in 0 .. MaxRows
    BY <2>1 DEF IInv, Typed, Id
  <2>4. Typed'
    BY <2>1, <2>2, <2>3 DEF IInv, Typed
  <2>5. OwnersKept /\ \A i \in Id : rows'[i] # NoRow => i <= inserted'
    BY <2>1, <2>3 DEF IInv, Typed, OwnersKept, Id
  <2> QED BY <2>1, <2>4, <2>5, UserChangeKeeps
<1>2. ASSUME NEW i \in Id, Remove(i) PROVE IInv' /\ UNCHANGED sync
  <2>1. UNCHANGED <<sync, edit, inserted>> /\ rows' = [rows EXCEPT ![i] = NoRow]
    BY <1>2 DEF Remove, UserCalls
  <2>2. Typed' /\ OwnersKept /\ \A j \in Id : rows'[j] # NoRow => j <= inserted'
    BY <2>1 DEF IInv, Typed, OwnersKept, Id
  <2> QED BY <2>1, <2>2, UserChangeKeeps
<1>3. ASSUME NEW i \in Id, NEW field \in {"key", "hard", "soft", "enabled", "release"},
             NEW v \in ValueOf(field), ReadForUpdate(i, field, v)
      PROVE  IInv' /\ UNCHANGED sync
  <2>1. /\ UNCHANGED <<sync, rows, inserted>> /\ rows[i] # NoRow
        /\ edit' = [id |-> i, field |-> field, val |-> v, was |-> rows[i]]
    BY <1>3 DEF ReadForUpdate, UserCalls
  <2>2. v \in Key \cup Val \cup BOOLEAN \cup SUBSET Field
    BY DEF ValueOf
  <2>3. Typed'
    BY <2>1, <2>2 DEF IInv, Typed
  <2>4. OwnersKept /\ \A j \in Id : rows'[j] # NoRow => j <= inserted'
    BY <2>1 DEF IInv, Typed, OwnersKept, Id
  <2> QED BY <2>1, <2>3, <2>4, UserChangeKeeps
<1>4. CASE Update
  <2> DEFINE i == edit.id
             r == [rows[i] EXCEPT !.modified = Locks \/ edit.was.modified,
                                  !.overrides = OverridesAfter]
             new == IF edit.field = "release" THEN r ELSE [r EXCEPT ![edit.field] = edit.val]
  <2>1. /\ edit # NoEdit /\ edit' = NoEdit /\ UNCHANGED <<sync, inserted>>
        /\ rows' = rows \/ (rows[i] # NoRow /\ rows' = [rows EXCEPT ![i] = new])
    BY <1>4 DEF Update
  <2>2. /\ i \in Id /\ edit.was \in Row /\ edit.val \in ValueOf(edit.field)
        /\ edit.field \in {"key", "hard", "soft", "enabled", "release"}
    BY <2>1 DEF IInv, Typed
  <2>3. rows[i] # NoRow => r \in Row /\ r.owner = rows[i].owner
    <3>1. OverridesAfter \in SUBSET Field
      BY <2>2 DEF OverridesAfter, Row
    <3>2. (Locks \/ edit.was.modified) \in BOOLEAN
      OBVIOUS
    <3> QED BY <2>2, <3>1, <3>2 DEF IInv, Typed, Row
  <2>4. rows[i] # NoRow => new \in Row /\ new.owner = rows[i].owner
    <3>1. CASE edit.field = "key"
      BY <2>2, <2>3, <3>1 DEF ValueOf, Row
    <3>2. CASE edit.field \in {"hard", "soft"}
      BY <2>2, <2>3, <3>2 DEF ValueOf, Row
    <3>3. CASE edit.field = "enabled"
      BY <2>2, <2>3, <3>3 DEF ValueOf, Row
    <3>4. CASE edit.field = "release"
      BY <2>3, <3>4
    <3> QED BY <2>2, <3>1, <3>2, <3>3, <3>4
  <2> HIDE DEF new
  <2>5. Typed'
    BY <2>1, <2>2, <2>4 DEF IInv, Typed
  <2>6. OwnersKept /\ \A j \in Id : rows'[j] # NoRow => j <= inserted'
    BY <2>1, <2>2, <2>4 DEF IInv, Typed, OwnersKept, Id
  <2> QED BY <2>1, <2>5, <2>6, UserChangeKeeps
<1> QED BY <1>1, <1>2, <1>3, <1>4 DEF User, ValueOf

-----------------------------------------------------------------------------
LEMMA NextIInv == IInv /\ [Next]_vars => IInv'
<1> SUFFICES ASSUME IInv, [Next]_vars PROVE IInv'
  OBVIOUS
<1>1. CASE UNCHANGED vars
  BY <1>1 DEF vars, IInv, Typed, Targets, Own
<1> QED BY <1>1, UserKeeps, HandleKeeps DEF Next

\* A step that changes the work of g is a step of g.
LEMMA NextOwn ==
    ASSUME IInv, Next
    PROVE  \A g \in Consumer, i \in Id :
             rows'[i] # rows[i] /\ rows[i] # NoRow /\ sync'[g] # sync[g] =>
               rows[i].owner = sync[g].service
BY UserKeeps, HandleKeeps DEF Next, OwnChange

\* The sync changes no row of another service or of a user, whatever became of
\* the rows, and of the keys, after it had read them (route-sync.service.ts:
\* diffRoutes and the reconcile after a conflict).
THEOREM SyncTouchesOwnRows == Spec => OwnRowsOnly
<1>1. Init => IInv
  BY InitIInv
<1>2. IInv /\ [Next]_vars => IInv'
  BY NextIInv
<1>3. IInv /\ [Next]_vars =>
        [\A g \in Consumer, i \in Id :
           rows'[i] # rows[i] /\ rows[i] # NoRow /\ sync'[g] # sync[g] =>
             rows[i].owner = sync[g].service]_vars
  BY NextOwn
<1> QED BY <1>1, <1>2, <1>3, PTL DEF Spec, OwnRowsOnly

-----------------------------------------------------------------------------
(* What becomes of a manifest.  The table of rows is a parameter, so that  *)
(* the same predicates speak of the state before and after a step.         *)

Taken(rs, k) == \E i \in Id : rs[i] # NoRow /\ rs[i].key = k
OfOther(rs, k, s) == \E i \in Id : rs[i] # NoRow /\ rs[i].key = k /\ rs[i].owner # s

\* The unique index of the repository.
Unique(rs) ==
    \A i, j \in Id : rs[i] # NoRow /\ rs[j] # NoRow /\ rs[i].key = rs[j].key => i = j

\* What the sync has read is what is stored.
ReadsCurrent(rs, c) ==
    /\ c.existing = {[id |-> i, row |-> rs[i]] :
                       i \in {j \in Id : rs[j] # NoRow /\ rs[j].owner = c.service}}
    /\ \A k \in c.unchecked : k \notin YamlKey
    /\ \A k \in c.reserved : k \in YamlKey \/ OfOther(rs, k, c.service)
    /\ \A k \in DOMAIN c.routes \ (c.unchecked \cup c.reserved) :
         k \notin YamlKey /\ ~OfOther(rs, k, c.service)

\* The row is what the manifest says, but for what a user has overridden.
Conforms(r, routes) ==
    /\ r.hard = routes[r.key].hard
    /\ r.soft = routes[r.key].soft \/ "soft" \in r.overrides
    /\ r.enabled \/ "enabled" \in r.overrides

\* No pending write can meet a conflict or a locked row.
WritesApply(rs, c) ==
    /\ \A u \in c.upserts :
         /\ ~u.again /\ u.row.key \in DOMAIN c.routes /\ Conforms(u.row, c.routes)
         /\ u.id = NoId => ~Taken(rs, u.row.key)
         /\ u.id # NoId => rs[u.id] # NoRow /\ rs[u.id].key = u.row.key /\ ~rs[u.id].modified
    /\ \A u, v \in c.upserts : u.row.key = v.row.key => u = v
    /\ \A i \in c.disables : rs[i] # NoRow /\ rs[i].key \notin DOMAIN c.routes

\* What differs from the manifest is about to be written.
WritesComplete(rs, c) ==
    /\ \A k \in DOMAIN c.routes :
         k \in YamlKey \/ Taken(rs, k) \/ \E u \in c.upserts : u.row.key = k
    /\ \A i \in Id : rs[i] # NoRow /\ rs[i].owner = c.service =>
         /\ rs[i].key \notin DOMAIN c.routes => ~rs[i].enabled \/ i \in c.disables
         /\ rs[i].key \in DOMAIN c.routes \ YamlKey /\ ~rs[i].modified =>
              Conforms(rs[i], c.routes) \/ \E u \in c.upserts : u.id = i

Current(rs, c) ==
    /\ c.pc = "reserving" => ReadsCurrent(rs, c)
    /\ c.pc = "writing" => WritesApply(rs, c) /\ WritesComplete(rs, c)

\* As long as nobody else has changed a row.
FreshInv == Unique(rows) /\ \A g \in Consumer \ disturbed : Current(rows, sync[g])

\* The rows that were there keep their keys, and no other takes one of them.
LEMMA KeysStayUnique ==
    ASSUME Unique(rows), NEW i \in Id, NEW r,
           rows \in [Id -> Row \cup {NoRow}], rows' = [rows EXCEPT ![i] = r],
           r # NoRow => \A j \in Id \ {i} : rows[j] # NoRow => rows[j].key # r.key
    PROVE  Unique(rows')
BY DEF Unique

\* The differences a current reading leads to.
LEMMA DiffIsCurrent ==
    ASSUME rows \in [Id -> Row \cup {NoRow}], Unique(rows),
           NEW c \in Reserving, c.unchecked = {}, ReadsCurrent(rows, c), NEW d,
           d.service = c.service, d.routes = c.routes,
           d.upserts = Upserts(c), d.disables = Disables(c)
    PROVE  WritesApply(rows, d) /\ WritesComplete(rows, d)
<1> DEFINE accepted == DOMAIN c.routes \ c.reserved
           known == {e \in c.existing : e.row.key \in accepted}
           fresh == accepted \ {e.row.key : e \in known}
<1>1. \A e : e \in c.existing <=>
             \E i \in Id : /\ rows[i] # NoRow /\ rows[i].owner = c.service
                           /\ e = [id |-> i, row |-> rows[i]]
  BY DEF ReadsCurrent
<1>2. \A e \in c.existing : /\ e.id \in Id /\ e.row = rows[e.id] /\ e.row # NoRow
                            /\ e.row.owner = c.service /\ e.row \in Row
                            /\ e = [id |-> e.id, row |-> e.row]
  BY <1>1
<1>3. \A k \in accepted : k \notin YamlKey /\ ~OfOther(rows, k, c.service)
  BY DEF ReadsCurrent
<1>4. ASSUME NEW k, NEW ex
      PROVE  Model(c, k, ex).key = k /\ Model(c, k, ex).overrides = ex.overrides
             /\ Conforms(Model(c, k, ex), c.routes)
  BY DEF Model, Merged, Conforms
<1>5. ASSUME NEW k PROVE NewRow(c, k).key = k /\ Conforms(NewRow(c, k), c.routes)
  BY DEF NewRow, Model, Merged, Conforms
<1>6. \A u : u \in Upserts(c) <=>
        \/ \E e \in known : /\ ~e.row.modified /\ Model(c, e.row.key, e.row) # e.row
                            /\ u = [id |-> e.id, again |-> FALSE, row |-> Model(c, e.row.key, e.row)]
        \/ \E k \in fresh : u = [id |-> NoId, again |-> FALSE, row |-> NewRow(c, k)]
  BY DEF Upserts
<1>7. \A k \in fresh : ~Taken(rows, k)
  <2> SUFFICES ASSUME NEW k \in fresh, NEW i \in Id, rows[i] # NoRow, rows[i].key = k
               PROVE  FALSE
    BY DEF Taken
  <2>1. rows[i].owner = c.service
    BY <1>3 DEF OfOther
  <2>2. [id |-> i, row |-> rows[i]] \in c.existing
    BY <1>1, <2>1
  <2> QED BY <2>2
<1>8. ASSUME NEW e \in known, NEW f \in known, e.row.key = f.row.key PROVE e = f
  BY <1>2, <1>8 DEF Unique
<1>9. WritesApply(rows, d)
  <2>1. ASSUME NEW u \in Upserts(c)
        PROVE  /\ ~u.again /\ u.row.key \in accepted /\ Conforms(u.row, c.routes)
               /\ u.id = NoId => ~Taken(rows, u.row.key)
               /\ u.id # NoId => /\ rows[u.id] # NoRow /\ rows[u.id].key = u.row.key
                                 /\ ~rows[u.id].modified
    <3>1. CASE \E k \in fresh : u = [id |-> NoId, again |-> FALSE, row |-> NewRow(c, k)]
      BY <1>5, <1>7, <3>1
    <3>2. ASSUME NEW e \in known, ~e.row.modified,
                 u = [id |-> e.id, again |-> FALSE, row |-> Model(c, e.row.key, e.row)]
          PROVE  /\ ~u.again /\ u.row.key \in accepted /\ Conforms(u.row, c.routes)
                 /\ u.id # NoId
                 /\ rows[u.id] # NoRow /\ rows[u.id].key = u.row.key /\ ~rows[u.id].modified
      BY <1>2, <1>4, <3>2 DEF Id, NoId
    <3> QED BY <1>6, <3>1, <3>2
  <2>2. ASSUME NEW u \in Upserts(c), NEW v \in Upserts(c), u.row.key = v.row.key PROVE u = v
    <3>1. ASSUME NEW w \in Upserts(c)
          PROVE  \/ \E e \in known : /\ w.row.key = e.row.key
                                     /\ w = [id |-> e.id, again |-> FALSE,
                                             row |-> Model(c, e.row.key, e.row)]
                 \/ /\ w.row.key \in fresh
                    /\ w = [id |-> NoId, again |-> FALSE, row |-> NewRow(c, w.row.key)]
      BY <1>4, <1>5, <1>6
    <3>2. \A e \in known : e.row.key \notin fresh
      OBVIOUS
    <3> HIDE DEF fresh, known
    <3>3. CASE u.row.key \in fresh
      <4>1. v.row.key \in fresh
        BY <2>2, <3>3
      <4>2. /\ u = [id |-> NoId, again |-> FALSE, row |-> NewRow(c, u.row.key)]
            /\ v = [id |-> NoId, again |-> FALSE, row |-> NewRow(c, v.row.key)]
        BY <3>1, <3>2, <3>3, <4>1
      <4> QED BY <2>2, <4>2
    <3>4. CASE u.row.key \notin fresh
      <4>1. PICK e \in known : /\ u.row.key = e.row.key
                               /\ u = [id |-> e.id, again |-> FALSE,
                                       row |-> Model(c, e.row.key, e.row)]
        BY <3>1, <3>4
      <4>2. PICK f \in known : /\ v.row.key = f.row.key
                               /\ v = [id |-> f.id, again |-> FALSE,
                                       row |-> Model(c, f.row.key, f.row)]
        BY <2>2, <3>1, <3>4
      <4>3. e = f
        BY <1>8, <2>2, <4>1, <4>2
      <4> QED BY <4>1, <4>2, <4>3
    <3> QED BY <3>3, <3>4
  <2>3. \A i \in Disables(c) : rows[i] # NoRow /\ rows[i].key \notin DOMAIN c.routes
    BY <1>2 DEF Disables
  <2> QED BY <2>1, <2>2, <2>3 DEF WritesApply
<1>10. WritesComplete(rows, d)
  <2>1. ASSUME NEW k \in DOMAIN c.routes
        PROVE  k \in YamlKey \/ Taken(rows, k) \/ \E u \in Upserts(c) : u.row.key = k
    <3>1. CASE k \in c.reserved
      BY <3>1 DEF ReadsCurrent, OfOther, Taken
    <3>2. CASE \E e \in known : e.row.key = k
      BY <1>2, <3>2 DEF Taken
    <3>3. CASE k \in fresh
      <4>1. [id |-> NoId, again |-> FALSE, row |-> NewRow(c, k)] \in Upserts(c)
        BY <1>6, <3>3
      <4> QED BY <1>5, <4>1
    <3> QED BY <3>1, <3>2, <3>3
  <2>2. ASSUME NEW i \in Id, rows[i] # NoRow, rows[i].owner = c.service
        PROVE  /\ rows[i].key \notin DOMAIN c.routes => ~rows[i].enabled \/ i \in Disables(c)
               /\ rows[i].key \in DOMAIN c.routes \ YamlKey /\ ~rows[i].modified =>
                    Conforms(rows[i], c.routes) \/ \E u \in Upserts(c) : u.id = i
    <3>1. PICK e \in c.existing : e = [id |-> i, row |-> rows[i]]
      BY <1>1, <2>2
    <3>2. e.id = i /\ e.row = rows[i]
      BY <3>1
    <3>3. rows[i].key \notin DOMAIN c.routes => ~rows[i].enabled \/ i \in Disables(c)
      BY <3>2 DEF Disables
    <3>4. ASSUME rows[i].key \in DOMAIN c.routes \ YamlKey, ~rows[i].modified
          PROVE  Conforms(rows[i], c.routes) \/ \E u \in Upserts(c) : u.id = i
      <4>1. rows[i].key \in accepted
        BY <2>2, <3>4 DEF ReadsCurrent, OfOther, Unique
      <4>2. CASE Model(c, e.row.key, e.row) = e.row
        BY <1>4, <3>2, <4>2
      <4>3. CASE Model(c, e.row.key, e.row) # e.row
        <5>1. [id |-> e.id, again |-> FALSE, row |-> Model(c, e.row.key, e.row)] \in Upserts(c)
          BY <1>6, <3>2, <3>4, <4>1, <4>3
        <5> QED BY <3>2, <5>1
      <4> QED BY <4>2, <4>3
    <3> QED BY <3>3, <3>4
  <2> QED BY <2>1, <2>2 DEF WritesComplete
<1> QED BY <1>9, <1>10

\* A write brings the table closer to the manifest and leaves the others valid.
LEMMA WriteIsCurrent ==
    ASSUME rows \in [Id -> Row \cup {NoRow}], Unique(rows),
           NEW c \in Writing, WritesApply(rows, c), WritesComplete(rows, c),
           NEW u \in c.upserts, NEW i \in Id, u.row # NoRow,
           rows' = [rows EXCEPT ![i] = u.row],
           (u.id = NoId /\ rows[i] = NoRow) \/ u.id = i,
           NEW d, d.service = c.service, d.routes = c.routes,
           d.upserts = c.upserts \ {u}, d.disables = c.disables
    PROVE  Unique(rows') /\ WritesApply(rows', d) /\ WritesComplete(rows', d)
<1>1. /\ u.row.key \in DOMAIN c.routes /\ Conforms(u.row, c.routes)
      /\ u.id = NoId => ~Taken(rows, u.row.key)
      /\ u.id # NoId => rows[i] # NoRow /\ rows[i].key = u.row.key
  BY DEF WritesApply
<1>2. NoId \notin Id
  BY DEF Id, NoId
<1>3. Unique(rows')
  <2>1. \A j \in Id \ {i} : rows[j] # NoRow => rows[j].key # u.row.key
    BY <1>1, <1>2 DEF Unique, Taken
  <2> QED BY <2>1, KeysStayUnique
<1>4. /\ rows'[i] = u.row /\ rows'[i] # NoRow
      /\ \A j \in Id \ {i} : rows'[j] = rows[j]
  OBVIOUS
<1>5. \A k : Taken(rows', k) <=> Taken(rows, k) \/ k = u.row.key
  <2>1. rows[i] # NoRow => rows[i].key = u.row.key
    BY <1>1, <1>2
  <2> QED BY <1>4, <2>1 DEF Taken
<1>6. WritesApply(rows', d)
  <2>1. ASSUME NEW v \in c.upserts, v # u
        PROVE  /\ ~v.again /\ v.row.key \in DOMAIN c.routes /\ Conforms(v.row, c.routes)
               /\ v.id = NoId => ~Taken(rows', v.row.key)
               /\ v.id # NoId => /\ rows'[v.id] # NoRow /\ rows'[v.id].key = v.row.key
                                 /\ ~rows'[v.id].modified
    <3>1. v.row.key # u.row.key
      BY <2>1 DEF WritesApply
    <3>2. v.id # NoId => v.id \in Id /\ v.id # i
      BY <1>1, <1>2, <3>1 DEF WritesApply, Writing, Write
    <3>3. /\ ~v.again /\ v.row.key \in DOMAIN c.routes /\ Conforms(v.row, c.routes)
          /\ v.id = NoId => ~Taken(rows, v.row.key)
          /\ v.id # NoId => rows[v.id] # NoRow /\ rows[v.id].key = v.row.key /\ ~rows[v.id].modified
      BY DEF WritesApply
    <3> QED BY <1>4, <1>5, <3>1, <3>2, <3>3
  <2>2. \A j \in d.disables : rows'[j] # NoRow /\ rows'[j].key \notin DOMAIN d.routes
    <3>1. ASSUME NEW j \in c.disables
          PROVE  j \in Id \ {i} /\ rows[j] # NoRow /\ rows[j].key \notin DOMAIN c.routes
      BY <1>1, <1>2 DEF WritesApply, Writing
    <3> QED BY <1>4, <3>1
  <2>3. \A v, w \in d.upserts : v.row.key = w.row.key => v = w
    BY DEF WritesApply
  <2> QED BY <2>1, <2>2, <2>3 DEF WritesApply
<1>7. WritesComplete(rows', d)
  <2>1. ASSUME NEW k \in DOMAIN c.routes
        PROVE  k \in YamlKey \/ Taken(rows', k) \/ \E v \in d.upserts : v.row.key = k
    BY <1>5 DEF WritesComplete
  <2>2. ASSUME NEW j \in Id \ {i}, rows'[j] # NoRow, rows'[j].owner = c.service
        PROVE  /\ rows'[j].key \notin DOMAIN c.routes => ~rows'[j].enabled \/ j \in c.disables
               /\ rows'[j].key \in DOMAIN c.routes \ YamlKey /\ ~rows'[j].modified =>
                    Conforms(rows'[j], c.routes) \/ \E v \in d.upserts : v.id = j
    <3>1. u.id # j
      BY <1>2
    <3> QED BY <1>4, <2>2, <3>1 DEF WritesComplete
  <2> QED BY <1>1, <1>4, <2>1, <2>2 DEF WritesComplete
<1> QED BY <1>3, <1>6, <1>7

\* Switching a row off disturbs no other write.
LEMMA SwitchOffIsCurrent ==
    ASSUME rows \in [Id -> Row \cup {NoRow}], Unique(rows),
           NEW c \in Writing, WritesApply(rows, c), WritesComplete(rows, c),
           NEW i \in c.disables, NEW r \in Row, r # NoRow, r = [rows[i] EXCEPT !.enabled = FALSE],
           rows' = [rows EXCEPT ![i] = r],
           NEW d, d.service = c.service, d.routes = c.routes,
           d.upserts = c.upserts, d.disables = c.disables \ {i}
    PROVE  Unique(rows') /\ WritesApply(rows', d) /\ WritesComplete(rows', d)
<1>1. /\ i \in Id /\ rows[i] \in Row /\ rows[i] # NoRow
      /\ rows[i].key \notin DOMAIN c.routes
  BY DEF WritesApply, Writing
<1>2. /\ r.key = rows[i].key /\ r.owner = rows[i].owner /\ r.modified = rows[i].modified
      /\ ~r.enabled
  BY <1>1 DEF Row
<1>3. /\ rows'[i] = r /\ \A j \in Id \ {i} : rows'[j] = rows[j]
  BY <1>1
<1>4. Unique(rows')
  BY <1>1, <1>2, <1>3 DEF Unique
<1>5. \A k : Taken(rows', k) <=> Taken(rows, k)
  BY <1>1, <1>2, <1>3 DEF Taken
<1>6. WritesApply(rows', d)
  <2>1. ASSUME NEW v \in c.upserts, v.id # NoId
        PROVE  rows'[v.id] # NoRow /\ rows'[v.id].key = v.row.key /\ ~rows'[v.id].modified
    BY <1>1, <1>2, <1>3, <2>1 DEF WritesApply, Writing, Write
  <2>2. \A j \in d.disables : rows'[j] # NoRow /\ rows'[j].key \notin DOMAIN d.routes
    BY <1>3 DEF WritesApply, Writing
  <2>3. \A v \in c.upserts : v.id = NoId => ~Taken(rows', v.row.key)
    BY <1>5 DEF WritesApply
  <2> QED BY <2>1, <2>2, <2>3 DEF WritesApply
<1>7. WritesComplete(rows', d)
  <2>1. ASSUME NEW j \in Id \ {i}, rows'[j] # NoRow, rows'[j].owner = c.service
        PROVE  /\ rows'[j].key \notin DOMAIN c.routes => ~rows'[j].enabled \/ j \in d.disables
               /\ rows'[j].key \in DOMAIN c.routes \ YamlKey /\ ~rows'[j].modified =>
                    Conforms(rows'[j], c.routes) \/ \E v \in d.upserts : v.id = j
    BY <1>3, <2>1 DEF WritesComplete
  <2>2. \A k \in DOMAIN d.routes :
          k \in YamlKey \/ Taken(rows', k) \/ \E v \in d.upserts : v.row.key = k
    BY <1>5 DEF WritesComplete
  <2>3. rows'[i].key \notin DOMAIN c.routes /\ ~rows'[i].enabled
    BY <1>1, <1>2, <1>3
  <2>4. ASSUME NEW j \in Id, rows'[j] # NoRow, rows'[j].owner = c.service
        PROVE  /\ rows'[j].key \notin DOMAIN c.routes => ~rows'[j].enabled \/ j \in d.disables
               /\ rows'[j].key \in DOMAIN c.routes \ YamlKey /\ ~rows'[j].modified =>
                    Conforms(rows'[j], c.routes) \/ \E v \in d.upserts : v.id = j
    <3>1. CASE j = i
      BY <2>3, <3>1
    <3> QED BY <2>1, <2>4, <3>1
  <2> QED BY <2>2, <2>4 DEF WritesComplete
<1> QED BY <1>4, <1>6, <1>7

\* A step that is not of h leaves h current, or changes a row under it.
LEMMA OthersStayCurrent ==
    ASSUME FreshInv, NEW h \in Consumer, sync'[h] = sync[h], h \in disturbed => h \in disturbed',
           rows' = rows \/ sync[h] = Idle \/ h \in disturbed'
    PROVE  h \notin disturbed' => Current(rows', sync'[h])
BY DEF FreshInv, Current, Idle

\* What the sync does to a row it may not touch.
LockKept(g) ==
    \A i \in Id : g \notin disturbed /\ rows[i] # NoRow /\ rows'[i] # rows[i] /\ rows[i].modified =>
                    rows'[i] = [rows[i] EXCEPT !.enabled = FALSE]

LEMMA ReceiveFresh ==
    ASSUME IInv, FreshInv, NEW g \in Consumer, Receive(g)
    PROVE  UNCHANGED rows /\ disturbed' = disturbed \ {g} /\ Current(rows', sync'[g])
<1>0. PICK s \in Service, announced \in SUBSET Key : \E routes \in [announced -> Route] :
         sync' = [sync EXCEPT ![g] =
                    [pc |-> "reserving", service |-> s, routes |-> routes,
                     existing |-> Stored(LAMBDA r : r.owner = s),
                     unchecked |-> announced \ YamlKey, reserved |-> announced \cap YamlKey]]
  BY DEF Receive
<1>1. PICK routes \in [announced -> Route] :
         sync' = [sync EXCEPT ![g] =
                    [pc |-> "reserving", service |-> s, routes |-> routes,
                     existing |-> Stored(LAMBDA r : r.owner = s),
                     unchecked |-> announced \ YamlKey, reserved |-> announced \cap YamlKey]]
  BY <1>0
<1> DEFINE c == [pc |-> "reserving", service |-> s, routes |-> routes,
                 existing |-> Stored(LAMBDA r : r.owner = s),
                 unchecked |-> announced \ YamlKey, reserved |-> announced \cap YamlKey]
<1>2. sync'[g] = c
  BY <1>1 DEF IInv, Typed
<1>3. UNCHANGED rows /\ disturbed' = disturbed \ {g}
  BY DEF Receive
<1>4. ReadsCurrent(rows, c)
  <2>1. c.existing = {[id |-> i, row |-> rows[i]] :
                        i \in {j \in Id : rows[j] # NoRow /\ rows[j].owner = c.service}}
    BY DEF Stored
  <2>2. DOMAIN c.routes = c.unchecked \cup c.reserved
    OBVIOUS
  <2>3. (\A k \in c.unchecked : k \notin YamlKey) /\ \A k \in c.reserved : k \in YamlKey
    OBVIOUS
  <2> HIDE DEF c
  <2> QED BY <2>1, <2>2, <2>3 DEF ReadsCurrent
<1> QED BY <1>2, <1>3, <1>4 DEF Current

LEMMA ReserveFresh ==
    ASSUME IInv, NEW g \in Consumer, Current(rows, sync[g]), NEW k \in Key, Reserve(g, k)
    PROVE  Current(rows', sync'[g])
<1> DEFINE c == sync[g]
           d == sync'[g]
<1>1. c \in Reserving /\ ReadsCurrent(rows, c) /\ k \in c.unchecked /\ UNCHANGED rows
  BY DEF Reserve, IInv, Typed, Idle, Writing, Current
<1>2. (Stored(LAMBDA r : r.key = k /\ r.owner # c.service) # {}) <=> OfOther(rows, k, c.service)
  BY DEF Stored, OfOther
<1>3. /\ d.pc = "reserving" /\ d.service = c.service /\ d.routes = c.routes
      /\ d.existing = c.existing /\ d.unchecked = c.unchecked \ {k}
      /\ d.reserved = IF OfOther(rows, k, c.service) THEN c.reserved \cup {k} ELSE c.reserved
  <2>1. sync' = [sync EXCEPT ![g].unchecked = @ \ {k},
                  ![g].reserved = IF OfOther(rows, k, c.service) THEN @ \cup {k} ELSE @]
    BY <1>2 DEF Reserve
  <2> QED BY <1>1, <2>1 DEF IInv, Typed, Reserving
<1>4. ReadsCurrent(rows, d)
  BY <1>1, <1>3 DEF ReadsCurrent
<1> QED BY <1>1, <1>3, <1>4 DEF Current

LEMMA DiffFresh ==
    ASSUME IInv, Unique(rows), NEW g \in Consumer, Current(rows, sync[g]), Diff(g)
    PROVE  Current(rows', sync'[g])
<1> DEFINE c == sync[g]
           d == sync'[g]
<1>1. /\ c \in Reserving /\ ReadsCurrent(rows, c) /\ c.unchecked = {} /\ UNCHANGED rows
  BY DEF Diff, IInv, Typed, Idle, Writing, Current
<1>2. /\ d.pc = "writing" /\ d.service = c.service /\ d.routes = c.routes
      /\ d.upserts = Upserts(c) /\ d.disables = Disables(c)
  BY DEF Diff, IInv, Typed
<1>3. rows \in [Id -> Row \cup {NoRow}]
  BY DEF IInv, Typed
<1>4. WritesApply(rows, d) /\ WritesComplete(rows, d)
  <2> HIDE DEF c, d
  <2> QED BY <1>1, <1>2, <1>3, DiffIsCurrent
<1> QED BY <1>1, <1>2, <1>4 DEF Current

LEMMA UpsertFresh ==
    ASSUME IInv, Unique(rows), NEW g \in Consumer, sync[g].pc = "writing",
           NEW u \in sync[g].upserts, Upsert(g, u)
    PROVE  /\ Unique(rows')
           /\ g \notin disturbed /\ Current(rows, sync[g]) => Current(rows', sync'[g]) /\ LockKept(g)
<1> DEFINE c == sync[g]
           d == sync'[g]
<1>1. c \in Writing /\ u \in Write /\ rows \in [Id -> Row \cup {NoRow}]
  BY DEF IInv, Typed, Idle, Reserving, Writing
<1>2. /\ d.pc = "writing" /\ d.service = c.service /\ d.routes = c.routes
      /\ d.upserts = c.upserts \ {u} /\ d.disables = c.disables
  BY <1>1 DEF Upsert, IInv, Typed, Writing
<1>3. u.row # NoRow
  BY <1>1, NoRowAssumption DEF Write
<1>4. CASE u.id = NoId
  <2>1. PICK i \in Id : rows' = [rows EXCEPT ![i] = u.row] /\ rows[i] = NoRow
    <3>1. inserted + 1 \in Id /\ rows[inserted + 1] = NoRow
      BY <1>4 DEF Upsert, IInv, Typed, Id
    <3> QED BY <1>4, <3>1 DEF Upsert
  <2>2. \A j \in Id \ {i} : rows[j] # NoRow => rows[j].key # u.row.key
    BY <1>4 DEF Upsert, Conflicts, KeyTaken, Id, NoId
  <2>3. Unique(rows')
    BY <1>1, <2>1, <2>2, KeysStayUnique
  <2>4. LockKept(g)
    BY <1>1, <2>1 DEF LockKept
  <2>5. ASSUME WritesApply(rows, c), WritesComplete(rows, c)
        PROVE  WritesApply(rows', d) /\ WritesComplete(rows', d)
    <3> HIDE DEF c, d
    <3>1. u \in c.upserts
      BY DEF c
    <3> QED BY <1>1, <1>2, <1>3, <1>4, <2>1, <2>5, <3>1, WriteIsCurrent
  <2> QED BY <1>2, <2>3, <2>4, <2>5 DEF Current
<1>5. CASE u.id # NoId
  <2> DEFINE i == u.id
  <2>1. i \in Id /\ rows' = [rows EXCEPT ![i] = IF @ = NoRow THEN NoRow ELSE u.row]
    BY <1>1, <1>5 DEF Upsert, Write
  <2>2. CASE rows[i] = NoRow
    <3>1. rows' = rows
      BY <1>1, <2>1, <2>2
    <3>2. ~WritesApply(rows, c)
      BY <1>5, <2>2 DEF WritesApply
    <3> QED BY <1>2, <3>1, <3>2 DEF Current, LockKept
  <2>3. CASE rows[i] # NoRow
    <3>1. rows' = [rows EXCEPT ![i] = u.row]
      BY <2>1, <2>3
    <3>2. \A j \in Id \ {i} : rows[j] # NoRow => rows[j].key # u.row.key
      BY <2>1, <2>3 DEF Upsert, Conflicts, KeyTaken
    <3>3. Unique(rows')
      BY <1>1, <2>1, <3>1, <3>2, KeysStayUnique
    <3>4. WritesApply(rows, c) => LockKept(g)
      BY <1>1, <1>5, <2>1, <3>1 DEF LockKept, WritesApply
    <3>5. ASSUME WritesApply(rows, c), WritesComplete(rows, c)
          PROVE  WritesApply(rows', d) /\ WritesComplete(rows', d)
      <4>1. u \in c.upserts /\ u.id = i
        OBVIOUS
      <4> HIDE DEF c, d, i
      <4>2. i \in Id
        BY <2>1
      <4> QED BY ONLY <1>1, <1>2, <1>3, <3>1, <3>5, <4>1, <4>2, Unique(rows), WriteIsCurrent
    <3> QED BY <1>2, <3>3, <3>4, <3>5 DEF Current
  <2> QED BY <2>2, <2>3
<1> QED BY <1>4, <1>5

LEMMA DisableFresh ==
    ASSUME IInv, Unique(rows), NEW g \in Consumer, NEW i \in Id, Disable(g, i)
    PROVE  /\ Unique(rows')
           /\ LockKept(g)
           /\ g \notin disturbed /\ Current(rows, sync[g]) => Current(rows', sync'[g])
<1> DEFINE c == sync[g]
           d == sync'[g]
<1>1. /\ c \in Writing /\ i \in c.disables /\ c.upserts = {} /\ c.pc = "writing"
      /\ rows \in [Id -> Row \cup {NoRow}]
      /\ rows' = [rows EXCEPT ![i] = IF @ = NoRow THEN NoRow ELSE [@ EXCEPT !.enabled = FALSE]]
  BY DEF Disable, IInv, Typed, Idle, Reserving, Writing
<1>2. /\ d.pc = "writing" /\ d.service = c.service /\ d.routes = c.routes
      /\ d.upserts = c.upserts /\ d.disables = c.disables \ {i}
  BY <1>1 DEF Disable, IInv, Typed, Writing
<1>3. CASE rows[i] = NoRow
  <2>1. rows' = rows
    BY <1>1, <1>3
  <2>2. ~WritesApply(rows, c)
    BY <1>1, <1>3 DEF WritesApply
  <2> QED BY <1>1, <2>1, <2>2 DEF Current, LockKept
<1>4. CASE rows[i] # NoRow
  <2> DEFINE r == [rows[i] EXCEPT !.enabled = FALSE]
  <2>1. r \in Row /\ r # NoRow /\ rows' = [rows EXCEPT ![i] = r] /\ r.key = rows[i].key
    BY <1>1, <1>4, NoRowAssumption DEF Row
  <2>2. Unique(rows')
    BY <1>1, <1>4, <2>1 DEF Unique
  <2>3. LockKept(g)
    BY <1>1, <2>1 DEF LockKept
  <2>4. ASSUME WritesApply(rows, c), WritesComplete(rows, c)
        PROVE  WritesApply(rows', d) /\ WritesComplete(rows', d)
    <3>1. r = [rows[i] EXCEPT !.enabled = FALSE] /\ i \in c.disables /\ c \in Writing
      BY <1>1
    <3> HIDE DEF c, d, r
    <3>2. /\ r \in Row /\ r # NoRow /\ rows' = [rows EXCEPT ![i] = r]
          /\ rows \in [Id -> Row \cup {NoRow}]
      BY <1>1, <2>1
    <3> QED BY ONLY <1>2, <2>4, <3>1, <3>2, Unique(rows), SwitchOffIsCurrent
  <2> QED BY <1>1, <1>2, <2>2, <2>3, <2>4 DEF Current
<1> QED BY <1>3, <1>4

\* A current sync meets no conflict.
LEMMA NoConflict ==
    ASSUME Unique(rows), NEW c \in Writing, WritesApply(rows, c), NEW u \in c.upserts
    PROVE  ~Conflicts(u)
BY DEF WritesApply, Conflicts, KeyTaken, Taken, Unique, Writing, Write, Id, NoId

LEMMA HandleFresh ==
    ASSUME IInv, FreshInv, NEW g \in Consumer, Handle(g)
    PROVE  FreshInv' /\ LockKept(g)
<1>1. \A h \in Consumer \ {g} : sync'[h] = sync[h]
  BY HandleKeeps
<1>2. g \notin disturbed => Current(rows, sync[g])
  BY DEF FreshInv
<1>3. Unique(rows)
  BY DEF FreshInv
<1>4. SUFFICES
        /\ Unique(rows') /\ LockKept(g)
        /\ g \notin disturbed' => Current(rows', sync'[g])
        /\ \A h \in Consumer \ {g} : /\ h \in disturbed => h \in disturbed'
                                     /\ rows' = rows \/ sync[h] = Idle \/ h \in disturbed'
  BY <1>1, OthersStayCurrent DEF FreshInv
<1>5. CASE Receive(g)
  BY <1>3, <1>5, ReceiveFresh DEF LockKept
<1>6. CASE Diff(g)
  <2>1. UNCHANGED <<rows, disturbed>>
    BY <1>6 DEF Diff, history
  <2> QED BY <1>2, <1>3, <1>6, <2>1, DiffFresh DEF LockKept
<1>7. CASE Finish(g) \/ HandleFails(g)
      \/ \E u \in sync[g].upserts : sync[g].pc = "writing" /\ SecondConflict(g, u)
  <2>1. UNCHANGED <<rows, disturbed>> /\ sync'[g] = Idle
    BY <1>7 DEF Finish, HandleFails, SecondConflict, history, IInv, Typed
  <2> QED BY <1>3, <2>1 DEF LockKept, Current, Idle
<1>8. CASE \E k \in Key : Reserve(g, k)
  <2>1. UNCHANGED <<rows, disturbed>>
    BY <1>8 DEF Reserve, history
  <2> QED BY <1>2, <1>3, <1>8, <2>1, ReserveFresh DEF LockKept
<1>9. ASSUME sync[g].pc = "writing", NEW u \in sync[g].upserts, Upsert(g, u)
      PROVE  /\ Unique(rows') /\ LockKept(g)
             /\ g \notin disturbed' => Current(rows', sync'[g])
             /\ \A h \in Consumer \ {g} :
                  /\ h \in disturbed => h \in disturbed'
                  /\ rows' = rows \/ sync[h] = Idle \/ h \in disturbed'
  <2>1. DisturbsOthers({g})
    BY <1>9 DEF Upsert
  <2>2. g \in disturbed' <=> g \in disturbed
    BY <2>1 DEF DisturbsOthers
  <2>3. g \in disturbed => LockKept(g)
    BY DEF LockKept
  <2> QED BY <1>2, <1>3, <1>9, <2>1, <2>2, <2>3, UpsertFresh DEF DisturbsOthers
<1>10. ASSUME sync[g].pc = "writing", NEW u \in sync[g].upserts, Reconcile(g, u)
       PROVE  /\ UNCHANGED <<rows, disturbed>> /\ g \in disturbed /\ LockKept(g)
  <2>1. UNCHANGED <<rows, disturbed>> /\ Conflicts(u)
    BY <1>10 DEF Reconcile, history
  <2>2. sync[g] \in Writing
    BY <1>10 DEF IInv, Typed, Idle, Reserving
  <2> QED BY <1>2, <1>3, <1>10, <2>1, <2>2, NoConflict DEF Current, LockKept
<1>11. ASSUME NEW i \in Id, Disable(g, i)
       PROVE  /\ Unique(rows') /\ LockKept(g)
              /\ g \notin disturbed' => Current(rows', sync'[g])
              /\ \A h \in Consumer \ {g} :
                   /\ h \in disturbed => h \in disturbed'
                   /\ rows' = rows \/ sync[h] = Idle \/ h \in disturbed'
  <2>1. DisturbsOthers({g})
    BY <1>11 DEF Disable
  <2>2. g \in disturbed' <=> g \in disturbed
    BY <2>1 DEF DisturbsOthers
  <2> QED BY <1>2, <1>3, <1>11, <2>1, <2>2, DisableFresh DEF DisturbsOthers
<1> QED BY <1>3, <1>5, <1>6, <1>7, <1>8, <1>9, <1>10, <1>11 DEF Handle

LEMMA UserFresh == ASSUME IInv, FreshInv, User PROVE FreshInv'
<1>1. UNCHANGED sync
  BY UserKeeps
<1>2. Unique(rows) /\ rows \in [Id -> Row \cup {NoRow}]
  BY DEF FreshInv, IInv, Typed
<1>3. DisturbsOthers({}) \/ UNCHANGED <<rows, disturbed>>
  BY DEF User, Create, Remove, ReadForUpdate, Update
<1>4. Unique(rows')
  <2>1. ASSUME NEW k \in Key, NEW route \in Route, Create(k, route) PROVE Unique(rows')
    <3> DEFINE r == [owner |-> "manual", key |-> k, hard |-> route.hard, soft |-> route.soft,
                     enabled |-> TRUE, modified |-> FALSE, overrides |-> {}]
    <3>1. /\ inserted + 1 \in Id /\ rows' = [rows EXCEPT ![inserted + 1] = r]
          /\ ~KeyTaken(k, NoId)
      BY <2>1 DEF Create, IInv, Typed, Id
    <3>2. r.key = k
      OBVIOUS
    <3>3. \A j \in Id : rows[j] # NoRow => rows[j].key # k
      BY <3>1 DEF KeyTaken, Id, NoId
    <3> HIDE DEF r
    <3> QED BY ONLY <1>2, <3>1, <3>2, <3>3, KeysStayUnique
  <2>2. ASSUME NEW i \in Id, Remove(i) PROVE Unique(rows')
    BY <1>2, <2>2 DEF Remove, Unique
  <2>3. CASE Update
    <3> DEFINE i == edit.id
    <3>1. i \in Id /\ edit.field \in {"key", "hard", "soft", "enabled", "release"}
      BY <2>3 DEF Update, IInv, Typed
    <3>2. CASE rows' = rows
      BY <1>2, <3>2
    <3>3. CASE rows' # rows
      <4> DEFINE r == [rows[i] EXCEPT !.modified = Locks \/ edit.was.modified,
                                      !.overrides = OverridesAfter]
                 new == IF edit.field = "release" THEN r ELSE [r EXCEPT ![edit.field] = edit.val]
      <4>1. /\ rows[i] # NoRow /\ ~(edit.field = "key" /\ KeyTaken(edit.val, i))
            /\ rows' = [rows EXCEPT ![i] = new]
        BY <2>3, <3>3 DEF Update
      <4>2. rows[i] \in Row
        BY <1>2, <3>1, <4>1
      <4>3. r.key = rows[i].key /\ DOMAIN r = DOMAIN rows[i] /\ "key" \in DOMAIN rows[i]
        BY <4>2 DEF Row
      <4>4. new.key = IF edit.field = "key" THEN edit.val ELSE rows[i].key
        BY <3>1, <4>3
      <4>5. \A j \in Id \ {i} : rows[j] # NoRow => rows[j].key # new.key
        BY <1>2, <3>1, <4>1, <4>4 DEF KeyTaken, Unique
      <4> HIDE DEF i, new
      <4> QED BY <1>2, <3>1, <4>1, <4>5, KeysStayUnique
    <3> QED BY <3>2, <3>3
  <2>4. CASE UNCHANGED rows
    BY <1>2, <2>4
  <2> QED BY <2>1, <2>2, <2>3, <2>4 DEF User, ReadForUpdate
<1> QED BY <1>1, <1>3, <1>4, OthersStayCurrent DEF FreshInv, DisturbsOthers

LEMMA NextFresh == IInv /\ FreshInv /\ [Next]_vars => FreshInv'
<1> SUFFICES ASSUME IInv, FreshInv, [Next]_vars PROVE FreshInv'
  OBVIOUS
<1>1. CASE UNCHANGED vars
  BY <1>1 DEF vars, history, FreshInv, Current
<1> QED BY <1>1, HandleFresh, UserFresh DEF Next

LEMMA InitFresh == Init => FreshInv
BY DEF Init, FreshInv, Unique, Current, Idle

\* No step of the sync changes a row a user has locked, but to switch it off,
\* as long as the row was not locked behind its back (diffRoutes skips rows that
\* are modified, route-diff.ts:56).
THEOREM LockedRowsSurvive == Spec => LockedContentKept
<1>1. Init => IInv /\ FreshInv
  BY InitIInv, InitFresh
<1>2. (IInv /\ FreshInv) /\ [Next]_vars => (IInv /\ FreshInv)'
  BY NextIInv, NextFresh
<1>3. (IInv /\ FreshInv) /\ [Next]_vars =>
        [\A g \in Consumer \ disturbed, i \in Id :
           rows[i] # NoRow /\ rows'[i] # rows[i] /\ sync'[g] # sync[g] /\ rows[i].modified =>
             rows'[i] = [rows[i] EXCEPT !.enabled = FALSE]]_vars
  <2> SUFFICES ASSUME IInv, FreshInv, Next, NEW g \in Consumer \ disturbed, sync'[g] # sync[g]
               PROVE  LockKept(g)
    BY DEF LockKept
  <2>1. Handle(g)
    BY UserKeeps, HandleKeeps DEF Next
  <2> QED BY <2>1, HandleFresh
<1> QED BY <1>1, <1>2, <1>3, PTL DEF Spec, LockedContentKept

\* A manifest that is through has been applied, whatever was stored before
\* (handle and diffRoutes: everything that differs is written, in one pass).
THEOREM ManifestsApply == Spec => []ManifestApplied
<1>1. Init => IInv /\ FreshInv
  BY InitIInv, InitFresh
<1>2. (IInv /\ FreshInv) /\ [Next]_vars => (IInv /\ FreshInv)'
  BY NextIInv, NextFresh
<1>3. IInv /\ FreshInv => ManifestApplied
  <2> SUFFICES ASSUME IInv, FreshInv, NEW g \in Consumer \ disturbed,
                      sync[g].pc = "writing", sync[g].upserts = {}, sync[g].disables = {}
               PROVE  LET c == sync[g]
                          own == {rows[i] : i \in {j \in Id : rows[j] # NoRow
                                                              /\ rows[j].owner = c.service}}
                      IN  /\ \A k \in DOMAIN c.routes : k \in YamlKey \/ KeyTaken(k, NoId)
                          /\ \A r \in own : r.key \notin DOMAIN c.routes => ~r.enabled
                          /\ \A r \in own : r.key \in DOMAIN c.routes \ YamlKey /\ ~r.modified =>
                               Conforms(r, c.routes)
    BY DEF ManifestApplied, Conforms
  <2>1. WritesComplete(rows, sync[g])
    BY DEF FreshInv, Current
  <2> QED BY <2>1 DEF WritesComplete, Taken, KeyTaken, Id, NoId
<1> QED BY <1>1, <1>2, <1>3, PTL DEF Spec

-----------------------------------------------------------------------------
\* Writes are pending only where a reload is due, and one that is due is owed.
ReloadDue ==
    /\ failures \in Nat
    /\ \A g \in Consumer :
         sync[g].pc = "writing" /\ (sync[g].upserts # {} \/ sync[g].disables # {}) =>
           sync[g].changed
    /\ failures = 0 /\ dirty => \E g \in Consumer : sync[g].pc = "writing" /\ sync[g].changed

LEMMA HandleReload ==
    ASSUME IInv, ReloadDue, NEW g \in Consumer, Handle(g)
    PROVE  ReloadDue'
<1>1. \A h \in Consumer \ {g} : sync'[h] = sync[h]
  BY HandleKeeps
<1>2. SUFFICES
        /\ failures' \in Nat
        /\ sync'[g].pc = "writing" /\ (sync'[g].upserts # {} \/ sync'[g].disables # {}) =>
             sync'[g].changed
        /\ failures' = 0 /\ dirty' =>
             \/ sync'[g].pc = "writing" /\ sync'[g].changed
             \/ /\ failures = 0 /\ dirty
                /\ ~(sync[g].pc = "writing" /\ sync[g].changed)
  BY <1>1 DEF ReloadDue
<1>3. sync \in [Consumer -> {Idle} \cup Reserving \cup Writing]
  BY DEF IInv, Typed
<1>4. CASE Receive(g) \/ \E k \in Key : Reserve(g, k)
  <2>1. /\ sync[g].pc # "writing" /\ sync'[g].pc # "writing" /\ UNCHANGED <<dirty, failures>>
    <3>1. CASE Receive(g)
      BY <1>3, <3>1 DEF Receive, Idle
    <3>2. ASSUME NEW k \in Key, Reserve(g, k)
          PROVE  /\ sync[g].pc = "reserving" /\ sync'[g].pc = "reserving"
                 /\ UNCHANGED <<dirty, failures>>
      <4>1. sync[g] \in Reserving /\ sync[g].pc = "reserving" /\ UNCHANGED <<dirty, failures>>
        BY <1>3, <3>2 DEF Reserve, Idle, Writing, history, bounds
      <4>2. sync'[g].pc = sync[g].pc
        BY <1>3, <3>2, <4>1 DEF Reserve, Reserving
      <4> QED BY <4>1, <4>2
    <3> QED BY <1>4, <3>1, <3>2
  <2> QED BY <2>1 DEF ReloadDue
<1>5. CASE Diff(g)
  <2>1. /\ sync[g].pc = "reserving" /\ UNCHANGED <<dirty, failures>>
        /\ sync'[g].changed <=> sync'[g].upserts # {} \/ sync'[g].disables # {}
    BY <1>3, <1>5 DEF Diff, history, bounds
  <2> QED BY <2>1 DEF ReloadDue
<1>6. CASE HandleFails(g) \/ \E u \in sync[g].upserts : SecondConflict(g, u)
  <2>1. failures' = failures + 1 /\ sync'[g] = Idle
    BY <1>3, <1>6 DEF HandleFails, SecondConflict
  <2> QED BY <2>1 DEF ReloadDue, Idle
<1>7. CASE Finish(g)
  <2>1. /\ sync'[g] = Idle /\ failures' = failures
        /\ dirty' = IF sync[g].changed THEN FALSE ELSE dirty
    BY <1>3, <1>7 DEF Finish, bounds
  <2> QED BY <2>1 DEF ReloadDue, Idle
<1>8. ASSUME sync[g].pc = "writing", NEW u \in sync[g].upserts,
             Upsert(g, u) \/ Reconcile(g, u)
      PROVE  sync'[g].pc = "writing" /\ sync'[g].changed /\ failures' = failures
  <2>1. sync[g] \in Writing /\ sync[g].changed
    BY <1>3, <1>8 DEF ReloadDue, Idle, Reserving
  <2>2. sync'[g].pc = sync[g].pc /\ sync'[g].changed = sync[g].changed
    <3>1. CASE Upsert(g, u)
      BY <1>3, <2>1, <3>1 DEF Upsert, Writing
    <3>2. CASE Reconcile(g, u)
      BY <1>3, <2>1, <3>2 DEF Reconcile, Writing
    <3> QED BY <1>8, <3>1, <3>2
  <2> QED BY <1>8, <2>1, <2>2 DEF Upsert, Reconcile, bounds
<1>9. ASSUME NEW i \in Id, Disable(g, i)
      PROVE  sync'[g].pc = "writing" /\ sync'[g].changed /\ failures' = failures
  <2>1. sync[g] \in Writing /\ sync[g].changed
    BY <1>3, <1>9 DEF ReloadDue, Idle, Reserving, Disable
  <2>2. sync'[g].pc = sync[g].pc /\ sync'[g].changed = sync[g].changed
    BY <1>3, <1>9, <2>1 DEF Disable, Writing
  <2> QED BY <1>9, <2>1, <2>2 DEF Disable, bounds
<1> QED BY <1>4, <1>5, <1>6, <1>7, <1>8, <1>9 DEF Handle, ReloadDue

LEMMA NextReload == IInv /\ ReloadDue /\ [Next]_vars => ReloadDue'
<1> SUFFICES ASSUME IInv, ReloadDue, [Next]_vars PROVE ReloadDue'
  OBVIOUS
<1>1. CASE UNCHANGED vars
  BY <1>1 DEF vars, history, bounds, ReloadDue
<1>2. CASE User
  <2>1. UNCHANGED <<sync, dirty, failures>>
    BY <1>2 DEF User, UserCalls, Create, Remove, ReadForUpdate, Update, bounds
  <2> QED BY <2>1 DEF ReloadDue
<1> QED BY <1>1, <1>2, HandleReload DEF Next

\* Once the sync is idle every write was followed by a call of triggerReload,
\* whichever consumer made it, unless a call has failed (handle: the counts of
\* the diff decide, before the writes are made).
THEOREM WritesReload == Spec => []ReloadAfterChange
<1>1. Init => IInv /\ ReloadDue
  <2>1. Init => ReloadDue
    BY DEF Init, ReloadDue, Idle
  <2> QED BY <2>1, InitIInv
<1>2. (IInv /\ ReloadDue) /\ [Next]_vars => (IInv /\ ReloadDue)'
  BY NextIInv, NextReload
<1>3. IInv /\ ReloadDue => ReloadAfterChange
  BY DEF ReloadDue, ReloadAfterChange, Quiet, Idle
<1> QED BY <1>1, <1>2, <1>3, PTL DEF Spec

=============================================================================
