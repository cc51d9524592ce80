--------------------------- MODULE BrokerProcess ---------------------------
(***************************************************************************)
(* The calls of BrokerCalls over the channels of AmqpConnection.  On every *)
(* connect the setup functions run again: setupInitChannel declares the    *)
(* configured topology on the default channel, and each subscription       *)
(* declares its queue, binds it and consumes.  The functions of a channel  *)
(* start together; amqplib sends the commands of a channel one at a time,  *)
(* in the order they were issued, and a command the broker refuses closes  *)
(* the channel until the next connect.  Publishes wait for the setup.      *)
(*                                                                         *)
(* Every queue is bound to one configured exchange; bindings between       *)
(* exchanges are left out.  That the declarations agree with what the      *)
(* broker already has is assumed.                                          *)
(***************************************************************************)
EXTENDS BrokerCalls, Sequences

CONSTANTS
    Channel,       \* the managed channels
    default,       \* the one publishes and replies use
    Exchange,      \* configured exchanges
    Queue,         \* configured queues, bound to exchanges
    Consumer,      \* subscriptions made at run time
    BoundTo,       \* the exchange of each queue and consumer
    ChannelOf,     \* the channel each consumer is configured for
    Durable,       \* exchanges and queues that survive a restart of the broker
    MaxAlternates  \* bound: alternate exchanges

ASSUME ProcessAssumption ==
    /\ default \in Channel
    /\ Queue \cap Consumer = {}
    /\ BoundTo \in [Queue \cup Consumer -> Exchange]
    /\ ChannelOf \in [Consumer -> Channel]
    /\ Durable \subseteq Exchange \cup Queue \cup Consumer
    /\ MaxAlternates \in Nat

VARIABLES
    alternates,  \* the number of alternate exchanges in the configuration
    link,        \* the connection is open
    exists,      \* exchanges and queues the broker has
    installed,   \* consumers whose setup function has been added
    wire,        \* commands under way on each channel, by the turn they were issued in
    answered,    \* commands the broker has carried out since the connect
    broken       \* channels the broker has closed

topologyVars == <<alternates, link, exists, installed, wire, answered, broken>>
processVars == <<vars, topologyVars>>

ProcessInit ==
    /\ Init
    /\ alternates \in 0 .. MaxAlternates
    /\ link = FALSE
    /\ exists = {} /\ installed = {} /\ answered = {} /\ broken = {}
    /\ wire = [ch \in Channel |-> <<>>]

-----------------------------------------------------------------------------
(* The setup functions *)

Cmd(op, object) == [op |-> op, on |-> object]
On(op, objects) == {Cmd(op, x) : x \in objects}

\* setupInitChannel: the alternate exchanges, the exchanges and the queues with
\* their bindings are for the default channel only.
InitCommands(ch) ==
    On("prefetch", {ch}) \cup
    IF ch # default THEN {}
    ELSE On("alternate", 1 .. alternates) \cup On("exchange", Exchange)
         \cup On("queue", Queue) \cup On("bind", Queue) \cup On("replies", {ch})

\* setupQueue, and the consume that follows it.
ConsumerCommands(ch) ==
    LET mine == {k \in installed : ChannelOf[k] = ch}
    IN  On("queue", mine) \cup On("bind", mine) \cup On("consume", mine)

Commands(ch) == InitCommands(ch) \cup ConsumerCommands(ch)

\* Mutant: the queues do not wait for the exchanges.
Awaits_queuesFirst(ch, c) ==
    CASE c.op = "alternate" -> On("prefetch", {ch}) \cup On("alternate", 1 .. c.on - 1)
      [] c.op = "queue"     -> IF c.on \in Queue THEN On("prefetch", {ch}) ELSE {}
      [] c.op = "exchange"  -> On("queue", Queue)
      [] c.op = "bind"      -> On("queue", {c.on})
      [] c.op = "replies"   -> On("bind", Queue) \cup On("exchange", Exchange)
      [] c.op = "consume"   -> On("bind", {c.on})
      [] OTHER              -> {}

\* The commands whose answers the code awaits before it issues this one.
Awaits(ch, c) ==
    LET first == On("prefetch", {ch}) \cup On("alternate", 1 .. alternates)
        exchanges == On("exchange", Exchange)
    IN  CASE c.op = "alternate" -> On("prefetch", {ch}) \cup On("alternate", 1 .. c.on - 1)
          [] c.op = "exchange"  -> first
          [] c.op = "queue"     -> IF c.on \in Queue THEN first \cup exchanges ELSE {}
          [] c.op = "bind"      -> On("queue", {c.on})
          [] c.op = "replies"   -> first \cup exchanges \cup On("bind", Queue)
          [] c.op = "consume"   -> On("bind", {c.on})
          [] OTHER              -> {}

Issued(ch, done) == {c \in Commands(ch) : Awaits(ch, c) \subseteq done}

\* The broker closes the channel over a binding to an exchange it does not have.
Refuses(c) == c.op = "bind" /\ BoundTo[c.on] \notin exists

\* A turn of the code issues the commands in cs; none is no turn.
Send(turns, cs) == IF cs = {} THEN turns ELSE Append(turns, cs)

Declare(ch) ==
    /\ wire[ch] # <<>>
    /\ \E c \in Head(wire[ch]) :
         LET now == answered \cup {c}
             left == Send(<<>>, Head(wire[ch]) \ {c}) \o Tail(wire[ch])
         IN  IF Refuses(c)
             THEN /\ broken' = broken \cup {ch}
                  /\ wire' = [wire EXCEPT ![ch] = <<>>]
                  /\ UNCHANGED <<exists, answered>>
             ELSE /\ answered' = now
                  /\ exists' = IF c.op \in {"exchange", "queue"} THEN exists \cup {c.on} ELSE exists
                  /\ wire' = [wire EXCEPT ![ch] = Send(left, Issued(ch, now) \ Issued(ch, answered))]
                  /\ UNCHANGED broken
    /\ UNCHANGED <<vars, alternates, link, installed>>

\* consumerFactory: with a channel the setup function runs at once.
Install(k) ==
    LET ch == ChannelOf[k]
    IN  /\ connected
        /\ k \notin installed
        /\ installed' = installed \cup {k}
        /\ wire' = IF ch \in broken THEN wire ELSE [wire EXCEPT ![ch] = Append(@, On("queue", {k}))]
        /\ UNCHANGED <<vars, alternates, link, exists, answered, broken>>

-----------------------------------------------------------------------------
(* The connection *)

Connect ==
    /\ ~link
    /\ link' = TRUE
    /\ wire' = [ch \in Channel |-> Send(<<On("prefetch", {ch})>>,
                                        On("queue", {k \in installed : ChannelOf[k] = ch}))]
    /\ UNCHANGED <<vars, alternates, exists, installed, answered, broken>>

\* The setup of the default channel is through: what was published meanwhile goes out.
Ready ==
    /\ link
    /\ default \notin broken
    /\ Commands(default) \subseteq answered
    /\ Reconnect
    /\ UNCHANGED topologyVars

\* The connection is lost, maybe during a setup; the broker may have restarted.
Lose ==
    /\ link
    /\ Disconnect
    /\ link' = FALSE
    /\ exists' \in {exists, exists \cap Durable}
    /\ wire' = [ch \in Channel |-> <<>>]
    /\ answered' = {} /\ broken' = {}
    /\ UNCHANGED <<alternates, installed>>

-----------------------------------------------------------------------------
Traffic ==
    \/ Caller
    \/ \E c \in Call : Expire(c) \/ Write(c) \/ Confirm(c) \/ Refuse(c)
    \/ Services

ProcessNext ==
    \/ Traffic /\ UNCHANGED topologyVars
    \/ Connect \/ Ready \/ Lose
    \/ \E ch \in Channel : Declare(ch)
    \/ \E k \in Consumer : Install(k)

ProcessSpec ==
    /\ ProcessInit /\ [][ProcessNext]_processVars
    /\ CallFairness
    /\ WF_processVars(Connect \/ Ready \/ \E ch \in Channel : Declare(ch))

-----------------------------------------------------------------------------
(* Properties *)

\* The order of the declarations holds across reconnects: the broker refuses a
\* binding only after it has forgotten the exchange and the binding was issued
\* before the exchange was declared again, which takes alternate exchanges or a
\* channel of its own.
DeclaredBeforeUse ==
    \A ch \in broken : \E k \in installed :
      ChannelOf[k] = ch /\ BoundTo[k] \notin Durable /\ (alternates > 0 \/ ch # default)

\* Every call returns, unless the setup of the channel was refused: the timer
\* only ends a request that waits for its reply, not one whose publish waits.
\* (Each call is made once: that none is outstanding again and again says it.)
CallReturns ==
    []<>(\A c \in Call : publish[c] # "off" => outcome[c] # "none" \/ default \in broken)
=============================================================================
