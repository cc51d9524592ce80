------------------------ MODULE MCConsumerLifecycle ------------------------
(* ConsumerLifecycle with two topics, one of them an RPC topic. *)
EXTENDS ConsumerLifecycle

CONSTANTS t1, t2, m1, m2

TwoTopics == {t1, t2}
OnlyT2 == {t2}
TwoMsgs == {m1, m2}
ByTopic == [m \in Msg |-> IF m = m2 THEN t2 ELSE t1]
=============================================================================
