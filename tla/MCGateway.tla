------------------------------ MODULE MCGateway ------------------------------
(* Gateway with one RPC call and one event, two requests, three events.     *)
EXTENDS Gateway

CONSTANTS c1, c2, x1, q1, k1, jwt, basic

Calls == {c1, c2}
Events == {c2}
Twice == [c \in Call |-> 2]
OneChannel == {default}
OneExchange == {x1}
OneQueue == {q1}
OneConsumer == {k1}
AllToX == [o \in Queue \cup Consumer |-> x1]
OnDefault == [c \in Consumer |-> default]
Nothing == {}

TwoRequests == 1..2
SecondIsEvent == {2}
OnlyJwt == {jwt}
TwoPaths == {[auth |-> NoProvider, actions |-> FALSE, anonymous |-> TRUE],
             [auth |-> jwt, actions |-> TRUE, anonymous |-> FALSE]}

ThreeEvents == {"feed", "board", "desk"}
OnlyBoard == {"board"}
JwtAndBasic == {jwt, basic}
EventDefs == [feed  |-> [auth |-> jwt, required |-> TRUE, actions |-> FALSE],
              board |-> [auth |-> basic, required |-> FALSE, actions |-> FALSE],
              desk  |-> [auth |-> basic, required |-> TRUE, actions |-> TRUE]]
TwoFrames == 1..2
=============================================================================
