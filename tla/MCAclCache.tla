----------------------------- MODULE MCAclCache -----------------------------
(* AclCache with one or two instances, users and checks. *)
EXTENDS AclCache, TLC

CONSTANTS i1, i2, u1, u2, k1, k2

OneInst == {i1}
TwoInsts == {i1, i2}
OneUser == {u1}
TwoUsers == {u1, u2}
OneCheck == {k1}
TwoChecks == {k1, k2}

\* Instances and checks are interchangeable; users are not, because an idle
\* check names a chosen one.
InstCheckSymmetry == Permutations(Inst) \cup Permutations(Check)
=============================================================================
