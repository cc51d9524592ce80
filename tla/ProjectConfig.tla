--------------------------- MODULE ProjectConfig ---------------------------
(***************************************************************************)
(* The configuration of a project as the schematics edit it: each run of   *)
(* one reads config.yaml (and app.module.ts, main.ts), upserts entries by  *)
(* name and writes the file back.  Nobody prompts: an option left out has  *)
(* its default.  Next to them, the boot of the application that reads the  *)
(* result: BrokerService and the metadata scanner throw or they do not.    *)
(*                                                                         *)
(* A section of the file is a sequence of entries.  No schematic removes   *)
(* one, so an empty sequence is a section that is not there.               *)
(***************************************************************************)
EXTENDS Naturals, SequencesExt

CONSTANTS
    Option,    \* the command lines tried: records, one per schematic and options
    Decorated, \* topics a @BrokerAction of the application is bound to
    MaxRuns,   \* bound: schematics run
    None       \* an option left out, a field that is undefined

VARIABLES
    config, \* the project's files
    last,   \* the command line of the last run
    runs    \* schematics run so far

vars == <<config, last, runs>>

-----------------------------------------------------------------------------
(* yaml-config.util and broker-yaml.util                                   *)

IndexOf(seq, name) == SelectInSeq(seq, LAMBDA item : item.name = name)

Has(seq, name) == IndexOf(seq, name) # 0

\* The fields given are set on the entry that is there, the others stay.
Merge(old, item) == [f \in DOMAIN old |-> IF item[f] = None THEN old[f] ELSE item[f]]

\* Mutant: the entry is appended without a look for its name.
upsertSeqItemByKey_appends(seq, item, overwrite) == Append(seq, item)

upsertSeqItemByKey(seq, item, overwrite) ==
    LET i == IndexOf(seq, item.name)
    IN  IF i = 0 THEN Append(seq, item)
        ELSE IF overwrite THEN [seq EXCEPT ![i] = Merge(@, item)] ELSE seq

setIn(c, path, value) == [c EXCEPT !.scalar[path] = value]

\* A scalar the add-gateway schematic seeds, unless it is there.
SeedIn(c, path, value) == IF c.scalar[path] = None THEN setIn(c, path, value) ELSE c

ensureExchange(c, name, type, overwrite) ==
    [c EXCEPT !.exchanges = upsertSeqItemByKey(@, [name |-> name, type |-> type], overwrite)]

ensureQueue(c, name, exchange, key, overwrite) ==
    [c EXCEPT !.queues =
        upsertSeqItemByKey(@, [name |-> name, exchange |-> exchange, key |-> key], overwrite)]

ensureTopic(c, name, mode, queue, exchange, key, retry, overwrite) ==
    [c EXCEPT !.topics = upsertSeqItemByKey(@,
        [name |-> name, mode |-> mode, queue |-> queue, exchange |-> exchange, key |-> key,
         retry |-> retry], overwrite)]

getExchangeType(c, name) ==
    LET i == IndexOf(c.exchanges, name) IN IF i = 0 THEN None ELSE c.exchanges[i].type

routingKeyRequired(c, exchange) == getExchangeType(c, exchange) = "topic"

\* The key given, or the name where a topic exchange must have one.
KeyOr(required, key, name) == IF required /\ key = None THEN name ELSE key

\* A module entry goes into AppModule unless its sentinel is there.
wireAppModule(c, entries) ==
    [c EXCEPT !.modules =
        [s \in DOMAIN @ |-> IF s \in DOMAIN entries /\ @[s] = None THEN entries[s] ELSE @[s]]]

-----------------------------------------------------------------------------
(* The schematics                                                          *)

Template == [
    exchanges |-> <<[name |-> "example.fanout", type |-> "fanout"]>>,
    queues |-> <<[name |-> "example.queue", exchange |-> "example.fanout", key |-> "example"]>>,
    topics |-> <<[name |-> "example.topic", mode |-> "event", queue |-> None,
                  exchange |-> "example.fanout", key |-> "example", retry |-> None]>>]

Sentinel == {"ConfigModule", "BrokerModule", "ProxyModule", "AclModule", "GatewayAdminModule"}
Scalar == {"connection_name", "retry", "routeDiscovery", "replyQueue", "ws", "limits",
           "reloadTopic", "metrics", "loadConfig"}

EmptyConfig == [
    file |-> FALSE, exchanges |-> <<>>, queues |-> <<>>, topics |-> <<>>, bindings |-> <<>>,
    paths |-> <<>>, events |-> <<>>, providers |-> <<>>, scalar |-> [s \in Scalar |-> None],
    modules |-> [s \in Sentinel |-> None], adapter |-> FALSE, bodyParser |-> FALSE]

coreEntries == [s \in {"ConfigModule", "BrokerModule"} |-> {}]

ensureBaseConfig(c) ==
    IF c.file THEN c
    ELSE [c EXCEPT !.exchanges = Template.exchanges, !.queues = Template.queues,
                   !.topics = Template.topics, !.scalar["connection_name"] = "<APP_NAME>"]

NestAdd(c, o) == wireAppModule(ensureBaseConfig(c), coreEntries)

AddExchange(c, o) ==
    LET d == ensureExchange(c, o.name, o.type, o.overwrite)
    IN  IF o.withQueue
        THEN ensureQueue(d, o.queue, o.name, KeyOr(o.type = "topic", o.key, o.queue), FALSE)
        ELSE d

\* Mutant: a queue left without a key gets none, whatever its exchange.
AddQueue_keyless(c, o) ==
    LET create == ~Has(c.exchanges, o.exchange) /\ o.exchangeType # None
        d == IF create THEN ensureExchange(c, o.exchange, o.exchangeType, FALSE) ELSE c
    IN  ensureQueue(d, o.name, o.exchange, o.key, o.overwrite)

AddQueue(c, o) ==
    LET create == ~Has(c.exchanges, o.exchange) /\ o.exchangeType # None
        d == IF create THEN ensureExchange(c, o.exchange, o.exchangeType, FALSE) ELSE c
        key == KeyOr(routingKeyRequired(d, o.exchange), o.key, o.name)
    IN  ensureQueue(d, o.name, o.exchange, key, o.overwrite)

AddTopic(c, o) ==
    LET queue == IF o.mode \in {"rpc", "handle"} /\ o.queue = None THEN o.name ELSE o.queue
        d == IF o.createDeps /\ ~Has(c.exchanges, o.exchange)
             THEN ensureExchange(c, o.exchange, "direct", FALSE) ELSE c
        key == KeyOr(routingKeyRequired(d, o.exchange), o.key, o.name)
        e == IF o.createDeps /\ queue # None /\ ~Has(d.queues, queue)
             THEN ensureQueue(d, queue, o.exchange, key, FALSE) ELSE d
    IN  ensureTopic(e, o.name, o.mode, queue, o.exchange, key, o.retry, o.overwrite)

\* A binding has no name: its source, destination and pattern are its identity.
AddExchangeBinding(c, o) ==
    [c EXCEPT !.bindings = upsertSeqItemByKey(@,
        [name |-> <<o.source, o.destination, o.pattern>>, args |-> o.args], o.overwrite)]

AddReplyQueue(c, o) == setIn(c, "replyQueue", o.queue)

AddRoute(c, o) ==
    [c EXCEPT !.paths =
        upsertSeqItemByKey(@, [name |-> o.name, topic |-> o.topic, auth |-> o.auth], o.overwrite)]

\* Only the fields of the type chosen are written.
AddWsEvent(c, o) ==
    LET item == IF o.type = "http" THEN [name |-> o.name, type |-> "http", url |-> o.url, auth |-> None]
                ELSE [name |-> o.name, type |-> "ws", url |-> None, auth |-> o.auth]
    IN  [c EXCEPT !.events = upsertSeqItemByKey(@, item, o.overwrite)]

AddAuthProvider(c, o) ==
    LET secret == IF o.type \in {"jwt", "basic", "str-compare"} THEN o.secret ELSE None
    IN  [c EXCEPT !.providers =
            upsertSeqItemByKey(@, [name |-> o.name, type |-> o.type, secret |-> secret], o.overwrite)]

EnableRetry(c, o) ==
    LET policy == IF o.dlx = None THEN "drop" ELSE o.dlx
        d == IF o.dlx # None THEN ensureExchange(c, o.dlx, "topic", FALSE) ELSE c
        i == IndexOf(d.topics, o.topic)
    IN  IF o.scope = "broker" THEN setIn(d, "retry", policy)
        ELSE IF o.topic = None THEN c
        ELSE IF i = 0 THEN d ELSE [d EXCEPT !.topics[i].retry = policy]

AddMetricsTopic(c, o) ==
    LET d == ensureQueue(c, o.queue, o.exchange, o.queue, o.overwrite)
        e == ensureTopic(d, o.topic, "handle", o.queue, o.exchange, o.queue, None, o.overwrite)
    IN  setIn(e, "metrics", o.topic)

EnableRouteDiscovery(c, o) ==
    ensureExchange(setIn(c, "routeDiscovery", o.serviceName), o.exchange, "fanout", FALSE)

\* configure-broker, set-connection-name, enable-load-config.
SetScalar(c, o) == setIn(c, o.path, o.value)

HardenGateway(c, o) ==
    LET d == setIn(c, o.path, o.value)
    IN  [d EXCEPT !.bodyParser = @ \/ (o.path = "limits" /\ o.patchMain)]

-----------------------------------------------------------------------------
(* add-gateway                                                             *)

AclInfra(c, o) ==
    LET d == ensureQueue(c, "rlb-acl", o.exchange, "rlb-acl", o.overwrite)
    IN  ensureTopic(d, "rlb-acl", "rpc", "rlb-acl", o.exchange, "rlb-acl", None, o.overwrite)

AdminInfra(c, o) ==
    LET admin == "rlb-gateway-admin"
        control == "rlb-gateway-control"
        d == ensureQueue(c, admin, o.exchange, admin, o.overwrite)
        e == ensureTopic(d, admin, "rpc", admin, o.exchange, admin, None, o.overwrite)
    IN  ensureTopic(e, control, "broadcast", None, o.exchange, control, None, o.overwrite)

RouteSyncInfra(c, o) ==
    ensureQueue(ensureExchange(c, o.routeExchange, "fanout", o.overwrite),
                "rlb-route-sync", o.routeExchange, None, o.overwrite)

GatewaySection(c, anyAdmin) ==
    LET d == SeedIn(c, "ws", "heartbeat")
        e == SeedIn(SeedIn(d, "reloadTopic", "rlb-gateway-control"), "metrics", "rlb-gateway-admin")
    IN  IF anyAdmin THEN SeedIn(e, "loadConfig", "rlb-gateway-admin") ELSE d

ManagementPaths(c, o, topic) ==
    [c EXCEPT !.paths =
        upsertSeqItemByKey(@, [name |-> topic, topic |-> topic, auth |-> None], o.overwrite)]

moduleEntries(o, anyAdmin) ==
    [s \in {"ConfigModule", "BrokerModule", "ProxyModule"}
           \cup (IF o.acl THEN {"AclModule"} ELSE {})
           \cup (IF anyAdmin THEN {"GatewayAdminModule"} ELSE {}) |->
        CASE s = "ProxyModule" -> {f \in {"acl", "admin"} : o[f]}
          [] s = "GatewayAdminModule" -> {f \in {"routeReception"} : o[f]}
          [] OTHER -> {}]

AddGateway(c, o) ==
    LET anyAdmin == o.admin \/ o.routeReception
        c1 == ensureExchange(setIn(c, "routeDiscovery", None), o.exchange, "direct", o.overwrite)
        c2 == IF o.acl THEN AclInfra(c1, o) ELSE c1
        c3 == IF anyAdmin THEN AdminInfra(c2, o) ELSE c2
        c4 == IF o.routeReception THEN RouteSyncInfra(c3, o) ELSE c3
        c5 == GatewaySection(c4, anyAdmin)
        c6 == IF o.acl THEN ManagementPaths(c5, o, "rlb-acl") ELSE c5
        c7 == IF anyAdmin THEN ManagementPaths(c6, o, "rlb-gateway-admin") ELSE c6
    IN  [wireAppModule(c7, moduleEntries(o, anyAdmin)) EXCEPT !.adapter = TRUE]

-----------------------------------------------------------------------------
Init ==
    /\ config = EmptyConfig
    /\ last = None
    /\ runs = 0

\* A run reads the files, edits what it read and writes it all.
Run(schematic, Edit(_, _)) ==
    /\ runs < MaxRuns
    /\ \E o \in {x \in Option : x.schematic = schematic} :
         /\ config' = [Edit(config, o) EXCEPT !.file = TRUE]
         /\ last' = o
    /\ runs' = runs + 1

RunCore ==
    \/ Run("nest-add", NestAdd)
    \/ Run("set-scalar", SetScalar)

RunBroker ==
    \/ Run("add-exchange", AddExchange)
    \/ Run("add-queue", AddQueue)
    \/ Run("add-topic", AddTopic)
    \/ Run("add-exchange-binding", AddExchangeBinding)
    \/ Run("add-reply-queue", AddReplyQueue)
    \/ Run("enable-retry", EnableRetry)
    \/ Run("enable-route-discovery", EnableRouteDiscovery)

RunGateway ==
    \/ Run("add-gateway", AddGateway)
    \/ Run("harden-gateway", HardenGateway)
    \/ Run("add-route", AddRoute)
    \/ Run("add-ws-event", AddWsEvent)
    \/ Run("add-auth-provider", AddAuthProvider)
    \/ Run("add-metrics-topic", AddMetricsTopic)

Next == RunCore \/ RunBroker \/ RunGateway

Spec == Init /\ [][Next]_vars

-----------------------------------------------------------------------------
(* The boot                                                                *)

Entry(seq, name) ==
    LET i == IndexOf(seq, name) IN IF i = 0 THEN None ELSE seq[i]

\* applyServiceName: the explicit name, else the publisher's service name.
ConnectionName(c) ==
    IF c.scalar["connection_name"] # None THEN c.scalar["connection_name"]
    ELSE c.scalar["routeDiscovery"]

\* "Queue ... has no routing key", or a TypeError where there is no queue.
KeyMissing(c, t) ==
    LET q == Entry(c.queues, t.queue)
    IN  /\ routingKeyRequired(c, IF q = None THEN t.exchange ELSE q.exchange)
        /\ IF q = None THEN TRUE ELSE q.key = None

\* Both look the queue and the exchange of a topic up in sections that must be
\* there.
Resolves(c, t) == c.queues # <<>> /\ c.exchanges # <<>> /\ ~KeyMissing(c, t)

\* BrokerService.onModuleInit does not throw at this topic.
PoolsTopic(c, t) ==
    /\ t.mode = "broadcast" /\ t.key # None => ConnectionName(c) # None
    /\ t.mode = "handle" => Resolves(c, t)

\* MetadataScannerService.onModuleInit does not.
BindsTopic(c, t) == t.name \in Decorated => Resolves(c, t)

Boots(c) == \A i \in DOMAIN c.topics : PoolsTopic(c, c.topics[i]) /\ BindsTopic(c, c.topics[i])

-----------------------------------------------------------------------------
(* Properties                                                              *)

\* Every step of every schematic is idempotent: run again with the same
\* options, whatever was run before, it leaves config.yaml and the wiring of the
\* application as they are.
RerunChangesNothing == [][last' = last => config' = config]_vars

\* An exchange becomes a topic exchange in the step.
MadeTopic ==
    \E e \in {config'.exchanges[i].name : i \in DOMAIN config'.exchanges} :
        routingKeyRequired(config', e) /\ ~routingKeyRequired(config, e)

\* A queue is bound to an exchange declared before with another type than the
\* run assumes.
Mistyped ==
    \/ /\ last'.schematic = "add-exchange"
       /\ last'.withQueue /\ last'.type # "topic"
       /\ routingKeyRequired(config, last'.name)
    \/ /\ last'.schematic = "add-gateway"
       /\ last'.routeReception
       /\ routingKeyRequired(config, last'.routeExchange)

\* A topic is declared and its queue, or any exchange, is not.
Undeclared ==
    \/ /\ last'.schematic = "add-topic"
       /\ ~last'.createDeps \/ last'.mode \in {"broadcast", "event"}
    \/ config'.exchanges = <<>>

\* The control topic of a gateway, or a broadcast topic that is there, and no
\* name for the connection.
Nameless == ConnectionName(config') = None

\* Between them the schematics keep the rules config.yaml is read by at boot: a
\* project that booted still boots after a run of any of them, except where the
\* run retypes an exchange under its queues, binds to an exchange of another
\* type than it takes for granted, declares a topic without its queue or
\* exchange, or leaves broadcast topics without a connection name.
BootKept ==
    [][Boots(config) /\ ~Boots(config') => MadeTopic \/ Mistyped \/ Undeclared \/ Nameless]_vars
=============================================================================
