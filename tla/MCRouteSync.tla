---------------------------- MODULE MCRouteSync ----------------------------
(* RouteSync with two services, two routes and two consumers. *)
EXTENDS RouteSync, TLC

CONSTANTS s1, s2, k1, k2, v1, v2, g1, g2

TwoServices == {s1, s2}
TwoKeys == {k1, k2}
TwoVals == {v1, v2}
TwoRoutes == {[hard |-> v, soft |-> v] : v \in Val}
TwoConsumers == {g1, g2}

\* Values, services and consumers are interchangeable.
SyncSymmetry == Permutations(Val) \cup Permutations(Service) \cup Permutations(Consumer)
=============================================================================
