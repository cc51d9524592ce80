-------------------------- MODULE MCRetryConsumer --------------------------
(* RetryConsumer on small sets of messages, copies and callback runs. *)
EXTENDS RetryConsumer, TLC

CONSTANTS m1, m2, m3, c1, c2, c3, s1, s2

OneMsg == {m1}
TwoMsgs == {m1, m2}
NoMsgs == {}
ThreeMsgs == {m1, m2, m3}
OnlyM2 == {m2}
OnlyM3 == {m3}
ThreeCopies == {c1, c2, c3}
TwoSlots == {s1, s2}
AllOutcomes == {"ok", "throw", "requeue", "reject"}
NoRequeue == {"ok", "throw", "reject"}
OkOrThrow == {"ok", "throw"}

\* Copy names and slots are interchangeable: no formula tells them apart.
CopySlotSymmetry == Permutations(Copy) \cup Permutations(Slot)
=============================================================================
