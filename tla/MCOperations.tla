----------------------------- MODULE MCOperations -----------------------------
(* The values of the model Operations.cfg. *)
EXTENDS Operations

CONSTANTS owner, editor, p1, p2, m1, m2, i1, i2

TwoRoles == {owner, editor}
TwoCalls == {p1, p2}

MCPoint == {m1, m2}
MCError == {m1}
MCEdge == {m2}
TwoInstances == {i1, i2}

MCDecorated == {"work", "rlb-acl"}

MCOption ==
    [schematic : {"nest-add"}]
    \cup [schematic : {"set-scalar"}, path : {"connection_name"}, value : {"svc"}]
    \cup [schematic : {"add-exchange"}, name : {"rlb", "bus"}, type : {"direct", "topic"},
          withQueue : BOOLEAN, queue : {"work"}, key : {None}, overwrite : BOOLEAN]
    \cup [schematic : {"add-queue"}, name : {"work"}, exchange : {"bus"},
          exchangeType : {None, "topic"}, key : {None}, overwrite : BOOLEAN]
    \cup [schematic : {"add-topic"}, name : {"work"}, mode : {"rpc", "handle", "broadcast"},
          exchange : {"bus"}, queue : {None}, createDeps : BOOLEAN, key : {None, "k"},
          retry : {None}, overwrite : {FALSE}]
    \cup [schematic : {"add-exchange-binding"}, source : {"rlb"}, destination : {"bus"},
          pattern : {"#"}, args : {None, "a"}, overwrite : {TRUE}]
    \cup [schematic : {"add-reply-queue"}, queue : {"replies"}]
    \cup [schematic : {"enable-retry"}, scope : {"broker", "topic"}, topic : {"work"},
          dlx : {None, "bus"}]
    \cup [schematic : {"enable-route-discovery"}, serviceName : {"svc"}, exchange : {"bus"}]
    \cup [schematic : {"add-gateway"}, exchange : {"rlb"}, routeExchange : {"bus"},
          acl : BOOLEAN, admin : {FALSE}, routeReception : BOOLEAN, overwrite : {FALSE}]
    \cup [schematic : {"add-gateway"}, exchange : {"rlb"}, routeExchange : {"bus"},
          acl : {TRUE}, admin : {TRUE}, routeReception : {FALSE}, overwrite : BOOLEAN]
    \cup [schematic : {"harden-gateway"}, path : {"limits"}, value : {"10"}, patchMain : BOOLEAN]
    \cup [schematic : {"add-route"}, name : {"rlb-acl"}, topic : {"work"}, auth : {None},
          overwrite : {TRUE}]
    \cup [schematic : {"add-ws-event"}, name : {"e"}, type : {"http", "ws"}, url : {"u"},
          auth : {"jwks"}, overwrite : {TRUE}]
    \cup [schematic : {"add-auth-provider"}, name : {"p"}, type : {"jwks", "basic"},
          secret : {"s"}, overwrite : {TRUE}]
    \cup [schematic : {"add-metrics-topic"}, topic : {"metrics"}, queue : {"metrics"},
          exchange : {"bus"}, overwrite : {FALSE}]
=============================================================================
