--------------------------- MODULE AclCacheProofs ---------------------------
(***************************************************************************)
(* What a cache keeps once grants and revokes and the checks they met are  *)
(* over, for any instances, users and checks: nothing the database does    *)
(* not support, in RAM without a shared store, and in the store of a       *)
(* single instance.                                                        *)
(***************************************************************************)
EXTENDS AclCache, TLAPS

\* A check in progress is one of an instance.
Running == \A k \in Check : check[k].pc # "idle" => check[k].inst \in Inst

TypeInv == TypeOK /\ Running

-----------------------------------------------------------------------------
(* What no fault and no change of roles has disturbed *)

Calm == faults = 0 /\ roleChanges = 0

\* The half of a decision that comes from the roles is right.
RolesAreRight ==
    /\ \A i \in Inst : memo[i] \in {"none", RolesSay}
    /\ \A k \in Check :
         /\ check[k].pc = "gotRoles" => check[k].val = RolesSay
         /\ check[k].pc = "askGrants" => roleHas

\* An invalidation of the user's decisions is on its way to the instance.
Pending(i, u) ==
    \/ \E j \in Inst : mutation[j].pc # "idle" /\ Covers(mutation[j].scope, u)
    \/ \E scope \in inbox[i] : Covers(scope, u)

\* A decision that will be cached although it is no longer right.
StaleCheck(c) == c.pc = "gotGrants" /\ c.seen = gen[c.inst] /\ c.val # Truth(c.user)

\* Without a shared store, what is wrong in RAM will be invalidated, and so
\* will what is about to be put there.
RamWillBeRight ==
    /\ RolesAreRight
    /\ \A k \in Check : StaleCheck(check[k]) => Pending(check[k].inst, check[k].user)
    /\ \A i \in Inst, u \in User : ram[i][u] \notin {"none", Truth(u)} => Pending(i, u)

NoStore == \A k \in Check : check[k].pc \notin {"askL2", "gotL2"}

RamInv == NoStore /\ (Calm => RamWillBeRight)

\* With one instance, what is wrong in the store will be deleted.
L2WillBeRight ==
    /\ RolesAreRight
    /\ \A k \in Check : StaleCheck(check[k]) =>
         \E i \in Inst : mutation[i].pc = "written" /\ Covers(mutation[i].scope, check[k].user)
    /\ \A u \in User : l2[u] \notin {"none", Truth(u)} =>
         \E i \in Inst :
           /\ Covers(mutation[i].scope, u)
           /\ \/ mutation[i].pc \in {"written", "listing"}
              \/ mutation[i].pc = "deleting" /\ u \in mutation[i].keys

L2Inv == (~HasL2 => \A u \in User : l2[u] = "none") /\ (Calm => L2WillBeRight)

-----------------------------------------------------------------------------
(* Types *)

\* What resolveAllowed makes of a check: it asks for the roles, for the grants
\* or for nothing, as the memo says.
LEMMA Resolved ==
    ASSUME TypeOK, NEW c \in CheckState, c.inst \in Inst
    PROVE  /\ resolveAllowed(c) \in CheckState
           /\ resolveAllowed(c).inst = c.inst /\ resolveAllowed(c).user = c.user
           /\ resolveAllowed(c).seen = gen[c.inst]
           /\ \/ memo[c.inst] = "none" /\ resolveAllowed(c).pc = "askRoles"
              \/ memo[c.inst] = "allow" /\ resolveAllowed(c).pc = "askGrants"
              \/ /\ memo[c.inst] = "deny" /\ resolveAllowed(c).pc = "gotGrants"
                 /\ resolveAllowed(c).val = "deny"
<1>0. memo[c.inst] \in {"none", "allow", "deny"} /\ gen[c.inst] \in Nat
  BY DEF TypeOK, Cached, Decision
<1>1. CASE memo[c.inst] = "none"
  BY <1>0, <1>1 DEF resolveAllowed, CheckState, Cached
<1>2. CASE memo[c.inst] = "allow"
  BY <1>0, <1>2 DEF resolveAllowed, CheckState, Cached
<1>3. CASE memo[c.inst] = "deny"
  BY <1>0, <1>3 DEF resolveAllowed, CheckState, Cached, Decision
<1> QED BY <1>0, <1>1, <1>2, <1>3

LEMMA IdleTypes == IdleCheck \in CheckState /\ IdleCheck.pc = "idle" /\ IdleMutation \in MutationState
<1>1. (CHOOSE u \in User : TRUE) \in User
  BY AclAssumption
<1> QED BY <1>1 DEF IdleCheck, IdleMutation, CheckState, MutationState, Scope, Cached

LEMMA MutationTypes ==
    ASSUME NEW mu \in MutationState
    PROVE  /\ \A scope \in Scope : [mu EXCEPT !.pc = "written", !.scope = scope] \in MutationState
           /\ [mu EXCEPT !.pc = "listing"] \in MutationState
           /\ [mu EXCEPT !.pc = "deleting"] \in MutationState
           /\ \A keys \in SUBSET User :
                [mu EXCEPT !.pc = "deleting", !.keys = keys] \in MutationState
           /\ [mu EXCEPT !.pc = "publishing", !.keys = {}] \in MutationState
BY DEF MutationState

LEMMA InitType == Init => TypeInv
BY IdleTypes, AclAssumption DEF Init, TypeInv, TypeOK, Running, Cached

\* A step that changes one check, for one that is well typed and not ahead.
LEMMA CheckKeepsType ==
    ASSUME TypeInv, NEW k \in Check, NEW c \in CheckState, check' = [check EXCEPT ![k] = c],
           c.pc # "idle" => c.inst \in Inst /\ c.seen <= gen[c.inst],
           UNCHANGED <<db, gen, mutation, inbox, counts>>,
           ram' \in [Inst -> [User -> Cached]], memo' \in [Inst -> Cached],
           l2' \in [User -> Cached]
    PROVE  TypeInv'
BY DEF TypeInv, TypeOK, Running, db, counts

\* A step of no check: generations only grow.
LEMMA OtherKeepsType ==
    ASSUME TypeInv, UNCHANGED check, gen' \in [Inst -> Nat], \A i \in Inst : gen'[i] >= gen[i],
           granted' \subseteq User, roleHas' \in BOOLEAN,
           ram' \in [Inst -> [User -> Cached]], memo' \in [Inst -> Cached],
           l2' \in [User -> Cached],
           mutation' \in [Inst -> MutationState], inbox' \in [Inst -> SUBSET Scope],
           mutations' \in 0 .. MaxMutations, roleChanges' \in 0 .. MaxRoleChanges,
           faults' \in 0 .. MaxFaults
    PROVE  TypeInv'
<1>1. ASSUME NEW k \in Check, check[k].pc # "idle"
      PROVE  check[k].seen <= gen'[check[k].inst]
  <2>1. check[k].inst \in Inst /\ check[k].seen \in Nat /\ check[k].seen <= gen[check[k].inst]
    BY <1>1 DEF TypeInv, TypeOK, Running, CheckState
  <2>2. gen[check[k].inst] \in Nat /\ gen'[check[k].inst] \in Nat
    BY <2>1 DEF TypeInv, TypeOK
  <2> QED BY <2>1, <2>2
<1> QED BY <1>1 DEF TypeInv, TypeOK, Running

\* The steps of the checks.
LEMMA ChecksKeepType ==
    ASSUME TypeInv, NEW k \in Check,
           \/ \E i \in Inst, u \in User : CheckAction(k, i, u)
           \/ StoreStep(k) \/ CheckStep(k) \/ Deadline(k)
    PROVE  TypeInv'
<1>0. /\ check[k] \in CheckState /\ TypeOK
      /\ check[k].pc # "idle" => check[k].inst \in Inst /\ check[k].seen <= gen[check[k].inst]
  BY DEF TypeInv, TypeOK, Running
<1>00. /\ ram \in [Inst -> [User -> Cached]] /\ memo \in [Inst -> Cached] /\ l2 \in [User -> Cached]
       /\ gen \in [Inst -> Nat] /\ check \in [Check -> CheckState]
  BY DEF TypeInv, TypeOK
<1>1. ASSUME NEW i \in Inst, NEW u \in User, CheckAction(k, i, u) PROVE TypeInv'
  <2> DEFINE c == [IdleCheck EXCEPT !.inst = i, !.user = u]
  <2>1. c \in CheckState /\ c.inst = i /\ c.seen = 0
    BY IdleTypes DEF CheckState, IdleCheck
  <2>2. gen[i] \in Nat
    BY <1>0 DEF TypeOK
  <2>3. CASE HasL2
    <3> DEFINE d == [c EXCEPT !.pc = "askL2"]
    <3>1. d \in CheckState /\ d.inst = i /\ d.seen = 0
      BY <2>1 DEF CheckState
    <3>2. check' = [check EXCEPT ![k] = d] /\ UNCHANGED <<db, local, l2, mutation, inbox, counts>>
      BY <1>1, <2>3 DEF CheckAction
    <3> HIDE DEF d
    <3>3. d.inst \in Inst /\ d.seen <= gen[d.inst]
      BY <2>2, <3>1
    <3> QED BY <1>00, <3>1, <3>2, <3>3, CheckKeepsType DEF local
  <2>4. CASE ~HasL2
    <3> HIDE DEF c
    <3>1. resolveAllowed(c) \in CheckState /\ resolveAllowed(c).inst = i
          /\ resolveAllowed(c).seen = gen[i]
      BY <1>0, <2>1, Resolved
    <3>2. /\ check' = [check EXCEPT ![k] = resolveAllowed(c)]
          /\ UNCHANGED <<db, local, l2, mutation, inbox, counts>>
      BY <1>1, <2>4, Zenon DEF CheckAction, c
    <3> DEFINE d == resolveAllowed(c)
    <3> HIDE DEF d
    <3>3. d \in CheckState /\ check' = [check EXCEPT ![k] = d]
      BY <3>1, <3>2 DEF d
    <3>4. d.inst \in Inst /\ d.seen <= gen[d.inst]
      BY <2>2, <3>1 DEF d
    <3> QED BY <1>00, <3>2, <3>3, <3>4, CheckKeepsType DEF local
  <2> QED BY <2>3, <2>4
<1>2. CASE L2Answers(k)
  <2>0. l2[check[k].user] \in Cached /\ "none" \in Cached
    BY <1>0, <1>00 DEF CheckState, Cached
  <2>1. PICK v \in Cached : check' = [check EXCEPT ![k] = [@ EXCEPT !.pc = "gotL2", !.val = v]]
    BY <1>2, <2>0 DEF L2Answers
  <2>2. [check[k] EXCEPT !.pc = "gotL2", !.val = v] \in CheckState
    BY <1>0 DEF CheckState
  <2> QED BY <1>0, <1>2, <2>1, <2>2, CheckKeepsType DEF L2Answers, TypeOK, local, CheckState
<1>3. CASE L2Returns(k)
  <2>1. CASE check[k].val = "none"
    <3>1. /\ resolveAllowed(check[k]) \in CheckState
          /\ resolveAllowed(check[k]).inst = check[k].inst /\ check[k].inst \in Inst
          /\ resolveAllowed(check[k]).seen = gen[check[k].inst]
      BY <1>0, <1>3, Resolved DEF L2Returns
    <3>2. gen[check[k].inst] \in Nat
      BY <1>0, <3>1 DEF TypeOK
    <3> QED BY <1>0, <1>3, <2>1, <3>1, <3>2, CheckKeepsType DEF L2Returns, TypeOK
  <2>2. CASE check[k].val # "none"
    <3>0. check[k].val \in Cached
      BY <1>0 DEF CheckState
    <3>1. ram' \in [Inst -> [User -> Cached]]
      BY <1>00, <1>3, <2>2, <3>0 DEF L2Returns
    <3> QED BY <1>0, <1>3, <2>2, <3>1, IdleTypes, CheckKeepsType DEF L2Returns, TypeOK
  <2> QED BY <2>1, <2>2
<1>4. CASE RolesListed(k)
  <2>1. [check[k] EXCEPT !.pc = "gotRoles", !.val = RolesSay] \in CheckState
    BY <1>0 DEF CheckState, RolesSay, Cached, Decision
  <2>2. /\ check' = [check EXCEPT ![k] = [@ EXCEPT !.pc = "gotRoles", !.val = RolesSay]]
        /\ UNCHANGED <<db, local, l2, mutation, inbox, counts>> /\ check[k].pc # "idle"
    BY <1>4 DEF RolesListed
  <2>3. /\ [check[k] EXCEPT !.pc = "gotRoles", !.val = RolesSay].inst = check[k].inst
        /\ [check[k] EXCEPT !.pc = "gotRoles", !.val = RolesSay].seen = check[k].seen
    BY <1>0 DEF CheckState
  <2> QED BY <1>0, <1>00, <2>1, <2>2, <2>3, CheckKeepsType DEF local
<1>5. CASE RolesReturn(k)
  <2>1. /\ [check[k] EXCEPT !.pc = "askGrants"] \in CheckState
        /\ [check[k] EXCEPT !.pc = "gotGrants"] \in CheckState
    BY <1>0 DEF CheckState
  <2>2. memo' \in [Inst -> Cached]
    BY <1>0, <1>5 DEF RolesReturn, TypeOK, CheckState
  <2> QED BY <1>0, <1>5, <2>1, <2>2, CheckKeepsType DEF RolesReturn, TypeOK, CheckState
<1>6. CASE GrantsListed(k)
  <2>1. [check[k] EXCEPT !.pc = "gotGrants", !.val = GrantsSay(check[k].user)] \in CheckState
    BY <1>0 DEF CheckState, GrantsSay, Cached, Decision
  <2> DEFINE c == [check[k] EXCEPT !.pc = "gotGrants", !.val = GrantsSay(check[k].user)]
  <2>2. /\ check' = [check EXCEPT ![k] = c]
        /\ UNCHANGED <<db, local, l2, mutation, inbox, counts>> /\ check[k].pc # "idle"
    BY <1>6 DEF GrantsListed
  <2>3. c.inst = check[k].inst /\ c.seen = check[k].seen
    BY <1>0 DEF CheckState
  <2> HIDE DEF c
  <2> QED BY <1>0, <1>00, <2>1, <2>2, <2>3, CheckKeepsType DEF local, c
<1>7. CASE Decide(k)
  <2>1. check[k].val \in Cached /\ check[k].user \in User
    BY <1>0 DEF CheckState
  <2>2. ram' \in [Inst -> [User -> Cached]] /\ l2' \in [User -> Cached]
    <3>1. CASE MayCache(check[k])
      <4>1. PICK v \in Cached : l2' = [l2 EXCEPT ![check[k].user] = v]
        BY <1>0, <1>7, <2>1, <3>1 DEF Decide, TypeOK
      <4>2. ram' = [ram EXCEPT ![check[k].inst][check[k].user] = check[k].val]
        BY <1>7, <3>1 DEF Decide
      <4> QED BY <1>0, <2>1, <4>1, <4>2 DEF TypeOK
    <3>2. CASE ~MayCache(check[k])
      BY <1>0, <1>7, <3>2 DEF Decide, TypeOK
    <3> QED BY <3>1, <3>2
  <2>3. check' = [check EXCEPT ![k] = IdleCheck]
    BY <1>7 DEF Decide
  <2> QED BY <1>0, <1>7, <2>2, <2>3, IdleTypes, CheckKeepsType DEF Decide, TypeOK
<1>8. CASE Deadline(k)
  <2>1. [check[k] EXCEPT !.late = TRUE] \in CheckState
    BY <1>0 DEF CheckState
  <2> QED BY <1>0, <1>8, <2>1, CheckKeepsType DEF Deadline, TypeOK, local, CheckState
<1> QED BY <1>1, <1>2, <1>3, <1>4, <1>5, <1>6, <1>7, <1>8 DEF StoreStep, CheckStep

\* The steps of the mutations, and of time.
LEMMA NextType == TypeInv /\ [Next]_vars => TypeInv'
<1> SUFFICES ASSUME TypeInv, [Next]_vars PROVE TypeInv'
  OBVIOUS
<1> USE DEF TypeInv, TypeOK, local, db, counts
<1>0. \A n \in Nat : n >= n /\ n + 1 >= n /\ n + 1 \in Nat
  OBVIOUS
<1>14. \A i \in Inst : mutation[i] \in MutationState
  OBVIOUS
<1>1. ASSUME NEW i \in Inst, NEW u \in User, RamForgets(i, u) PROVE TypeInv'
  BY <1>0, <1>1, OtherKeepsType DEF RamForgets, Cached
<1>2. ASSUME NEW i \in Inst, MemoExpires(i) PROVE TypeInv'
  BY <1>0, <1>2, OtherKeepsType DEF MemoExpires, Cached
<1>3. ASSUME NEW u \in User, L2Expires(u) PROVE TypeInv'
  BY <1>0, <1>3, OtherKeepsType DEF L2Expires, Cached
<1>4. ASSUME NEW i \in Inst, NEW scope \in Scope, StartMutation(i, scope)
      PROVE  /\ mutation' \in [Inst -> MutationState]
             /\ mutations' \in 0 .. MaxMutations
  <2>1. mutation' = [mutation EXCEPT ![i] = [@ EXCEPT !.pc = "written", !.scope = scope]]
    BY <1>4 DEF StartMutation
  <2>2. [mutation[i] EXCEPT !.pc = "written", !.scope = scope] \in MutationState
    BY <1>14, MutationTypes
  <2>3. mutations' \in 0 .. MaxMutations
    BY <1>4, AclAssumption DEF StartMutation
  <2> QED BY <2>1, <2>2, <2>3
<1>5. ASSUME NEW i \in Inst, NEW u \in User, GrantOrRevoke(i, u) PROVE TypeInv'
  BY <1>0, <1>4, <1>5, OtherKeepsType DEF GrantOrRevoke, Scope
<1>6. ASSUME NEW i \in Inst, ChangeRoles(i) PROVE TypeInv'
  <2>1. roleChanges' \in 0 .. MaxRoleChanges
    BY <1>6, AclAssumption DEF ChangeRoles
  <2> QED BY <1>0, <1>4, <1>6, <2>1, OtherKeepsType DEF ChangeRoles, Scope
<1>7. ASSUME NEW i \in Inst, NEW scope, invalidateLocalRam(i, scope)
      PROVE  /\ ram' \in [Inst -> [User -> Cached]] /\ gen' \in [Inst -> Nat]
             /\ \A j \in Inst : gen'[j] >= gen[j]
  <2>1. ram' \in [Inst -> [User -> Cached]]
    BY <1>7 DEF invalidateLocalRam, Cached
  <2> QED BY <1>0, <1>7, <2>1 DEF invalidateLocalRam
<1>8. ASSUME NEW i \in Inst, Invalidate(i) PROVE TypeInv'
  <2>1. mutation' \in [Inst -> MutationState]
    <3>1. /\ [mutation[i] EXCEPT !.pc = "listing"] \in MutationState
          /\ [mutation[i] EXCEPT !.pc = "deleting"] \in MutationState
      BY <1>14, MutationTypes
    <3> QED BY <1>8, <3>1 DEF Invalidate
  <2> QED BY <1>7, <1>8, <2>1, OtherKeepsType DEF Invalidate
<1>9. ASSUME NEW i \in Inst, KeysListed(i) \/ StoreFails(i) PROVE TypeInv'
  <2>1. PICK keys \in SUBSET User :
          mutation' = [mutation EXCEPT ![i] = [@ EXCEPT !.pc = "deleting", !.keys = keys]]
    BY <1>9 DEF KeysListed, StoreFails
  <2>2. [mutation[i] EXCEPT !.pc = "deleting", !.keys = keys] \in MutationState
    BY <1>14, MutationTypes
  <2>3. faults' \in 0 .. MaxFaults
    BY <1>9, AclAssumption DEF KeysListed, StoreFails
  <2> QED BY <1>0, <1>9, <2>1, <2>2, <2>3, OtherKeepsType DEF KeysListed, StoreFails
<1>10. ASSUME NEW i \in Inst, KeysDeleted(i) PROVE TypeInv'
  <2>1. [mutation[i] EXCEPT !.pc = "publishing", !.keys = {}] \in MutationState
    BY <1>14, MutationTypes
  <2>2. mutation' = [mutation EXCEPT ![i] = [@ EXCEPT !.pc = "publishing", !.keys = {}]]
    BY <1>10 DEF KeysDeleted
  <2>3. l2' \in [User -> Cached] /\ memo' \in [Inst -> Cached]
    BY <1>10 DEF KeysDeleted, Cached
  <2> QED BY <1>0, <1>10, <2>1, <2>2, <2>3, OtherKeepsType DEF KeysDeleted
<1>11. ASSUME NEW i \in Inst, Broadcast(i) \/ BroadcastMisses(i) PROVE TypeInv'
  <2>1. mutation' = [mutation EXCEPT ![i] = IdleMutation]
    BY <1>11 DEF Broadcast, BroadcastMisses
  <2>2. mutation[i].scope \in Scope
    BY <1>14 DEF MutationState
  <2>3. inbox' \in [Inst -> SUBSET Scope]
    BY <1>11, <2>2 DEF Broadcast, BroadcastMisses
  <2>4. faults' \in 0 .. MaxFaults
    BY <1>11, AclAssumption DEF Broadcast, BroadcastMisses
  <2> QED BY <1>0, <1>11, <2>1, <2>3, <2>4, IdleTypes, OtherKeepsType DEF Broadcast, BroadcastMisses
<1>12. ASSUME NEW i \in Inst, NEW scope \in Scope, Apply(i, scope) PROVE TypeInv'
  <2>1. memo' \in [Inst -> Cached] /\ inbox' \in [Inst -> SUBSET Scope]
    BY <1>12 DEF Apply, Cached
  <2> QED BY <1>7, <1>12, <2>1, OtherKeepsType DEF Apply
<1>13. CASE UNCHANGED vars
  BY <1>13 DEF vars, Running
<1> QED BY <1>1, <1>2, <1>3, <1>5, <1>6, <1>8, <1>9, <1>10, <1>11, <1>12, <1>13, ChecksKeepType
     DEF Next

-----------------------------------------------------------------------------
(* Roles, truth and checks *)

\* A mutation that counts as no fault and no change of roles leaves the roles
\* alone.
LEMMA RolesStay ==
    ASSUME TypeInv, Next, Calm' PROVE Calm /\ roleHas' = roleHas
<1>0. faults \in Nat /\ roleChanges \in Nat
  BY AclAssumption DEF TypeInv, TypeOK
<1>1. CASE \E i \in Inst : ChangeRoles(i)
  BY <1>0, <1>1 DEF ChangeRoles, Calm
<1>2. CASE \E i \in Inst : StoreFails(i) \/ BroadcastMisses(i)
  BY <1>0, <1>2 DEF StoreFails, BroadcastMisses, Calm
<1>3. CASE UNCHANGED <<roleHas, roleChanges, faults>>
  BY <1>3 DEF Calm
<1>4. \/ UNCHANGED <<roleHas, roleChanges, faults>>
      \/ \E i \in Inst : ChangeRoles(i) \/ StoreFails(i) \/ BroadcastMisses(i)
  BY DEF Next, CheckAction, StoreStep, CheckStep, L2Answers, L2Returns, RolesListed, RolesReturn,
         GrantsListed, Decide, Deadline, RamForgets, GrantOrRevoke, MemoExpires, L2Expires,
         Invalidate, KeysListed, KeysDeleted, Broadcast, Apply, db, counts
<1> QED BY <1>1, <1>2, <1>3, <1>4

\* One step changes at most one check, and then nothing a decision is compared
\* with.
ChecksStep(k) ==
    \/ \E i \in Inst, u \in User : CheckAction(k, i, u)
    \/ StoreStep(k) \/ CheckStep(k) \/ Deadline(k)

LEMMA ChecksAlone ==
    ASSUME NEW k \in Check, ChecksStep(k)
    PROVE  /\ UNCHANGED <<granted, roleHas, gen, mutation, inbox, mutations, roleChanges, faults>>
           /\ \E c : check' = [check EXCEPT ![k] = c]
<1>1. UNCHANGED <<granted, roleHas, gen, mutation, inbox, mutations, roleChanges, faults>>
  BY DEF ChecksStep, CheckAction, StoreStep, CheckStep, L2Answers, L2Returns, RolesListed,
         RolesReturn, GrantsListed, Decide, Deadline, db, local, counts
<1>2. \E c : check' = [check EXCEPT ![k] = c]
  <2>1. ASSUME NEW i \in Inst, NEW u \in User, CheckAction(k, i, u)
        PROVE  \E c : check' = [check EXCEPT ![k] = c]
    BY <2>1, Zenon DEF CheckAction
  <2>2. CASE L2Answers(k)
    BY <2>2 DEF L2Answers
  <2>3. CASE L2Returns(k)
    BY <2>3, Zenon DEF L2Returns
  <2>4. CASE RolesListed(k)
    BY <2>4 DEF RolesListed
  <2>5. CASE RolesReturn(k)
    BY <2>5 DEF RolesReturn
  <2>6. CASE GrantsListed(k)
    BY <2>6 DEF GrantsListed
  <2>7. CASE Decide(k)
    BY <2>7, Zenon DEF Decide
  <2>8. CASE Deadline(k)
    BY <2>8 DEF Deadline
  <2> QED BY <2>1, <2>2, <2>3, <2>4, <2>5, <2>6, <2>7, <2>8 DEF ChecksStep, StoreStep, CheckStep
<1> QED BY <1>1, <1>2

\* What resolveAllowed makes of a check is right about the roles.
LEMMA ResolvedRight ==
    ASSUME TypeOK, RolesAreRight, NEW c \in CheckState, c.inst \in Inst
    PROVE  LET d == resolveAllowed(c)
           IN  /\ d.pc # "gotRoles" /\ (d.pc = "askGrants" => roleHas)
               /\ d.pc = "gotGrants" => d.val = Truth(d.user)
BY Resolved DEF RolesAreRight, RolesSay, Truth

\* A check that changes is right about the roles, and what it decides is what
\* the database said, or it was wrong before.
CheckIsRight(c) ==
    /\ c.pc = "gotRoles" => c.val = RolesSay
    /\ c.pc = "askGrants" => roleHas
    /\ c.pc = "gotGrants" => c.val = Truth(c.user)

LEMMA ChecksAreRight ==
    ASSUME TypeInv, RolesAreRight, NEW k \in Check, ChecksStep(k)
    PROVE  \/ CheckIsRight(check'[k])
           \/ Deadline(k) /\ check' = [check EXCEPT ![k] = [@ EXCEPT !.late = TRUE]]
<1>0. check \in [Check -> CheckState] /\ check[k] \in CheckState /\ TypeOK
  BY DEF TypeInv, TypeOK
<1>1. ASSUME NEW i \in Inst, NEW u \in User, CheckAction(k, i, u) PROVE CheckIsRight(check'[k])
  <2> DEFINE c == [IdleCheck EXCEPT !.inst = i, !.user = u]
  <2>1. c \in CheckState /\ c.inst = i
    BY IdleTypes DEF CheckState
  <2>2. CASE HasL2
    <3>1. check' = [check EXCEPT ![k] = [c EXCEPT !.pc = "askL2"]]
      BY <1>1, <2>2 DEF CheckAction
    <3>2. check'[k].pc = "askL2"
      BY <1>0, <2>1, <3>1 DEF CheckState
    <3> QED BY <3>2 DEF CheckIsRight
  <2>3. CASE ~HasL2
    <3> HIDE DEF c
    <3>1. check' = [check EXCEPT ![k] = resolveAllowed(c)]
      BY <1>1, <2>3, Zenon DEF CheckAction, c
    <3> QED BY <1>0, <2>1, <3>1, ResolvedRight DEF CheckIsRight
  <2> QED BY <2>2, <2>3
<1>2. CASE L2Answers(k)
  <2>1. check'[k].pc = "gotL2"
    BY <1>0, <1>2 DEF L2Answers, CheckState
  <2> QED BY <2>1 DEF CheckIsRight
<1>3. CASE L2Returns(k)
  <2>1. CASE check[k].val = "none"
    <3>1. check' = [check EXCEPT ![k] = resolveAllowed(check[k])] /\ check[k].inst \in Inst
      BY <1>3, <2>1 DEF L2Returns, TypeInv, Running
    <3> QED BY <1>0, <3>1, ResolvedRight DEF CheckIsRight
  <2>2. CASE check[k].val # "none"
    <3>1. check'[k].pc = "idle"
      BY <1>0, <1>3, <2>2, IdleTypes DEF L2Returns
    <3> QED BY <3>1 DEF CheckIsRight
  <2> QED BY <2>1, <2>2
<1>4. CASE RolesListed(k)
  <2>1. check'[k].pc = "gotRoles" /\ check'[k].val = RolesSay
    BY <1>0, <1>4 DEF RolesListed, CheckState
  <2>2. RolesSay' = RolesSay
    BY <1>4 DEF RolesListed, RolesSay, db
  <2> QED BY <2>1, <2>2 DEF CheckIsRight
<1>5. CASE RolesReturn(k)
  <2>1. check[k].val = RolesSay
    BY <1>5 DEF RolesReturn, RolesAreRight
  <2>2. /\ check'[k].pc = (IF check[k].val = "allow" THEN "askGrants" ELSE "gotGrants")
        /\ check'[k].val = check[k].val /\ check'[k].user = check[k].user
    BY <1>0, <1>5 DEF RolesReturn, CheckState
  <2> QED BY <2>1, <2>2 DEF CheckIsRight, RolesSay, Truth
<1>6. CASE GrantsListed(k)
  <2>1. roleHas
    BY <1>6 DEF GrantsListed, RolesAreRight
  <2>2. /\ check'[k].pc = "gotGrants" /\ check'[k].val = GrantsSay(check[k].user)
        /\ check'[k].user = check[k].user
    BY <1>0, <1>6 DEF GrantsListed, CheckState
  <2> QED BY <2>1, <2>2 DEF CheckIsRight, GrantsSay, Truth
<1>7. CASE Decide(k)
  <2>1. check'[k].pc = "idle"
    BY <1>0, <1>7, IdleTypes DEF Decide
  <2> QED BY <2>1 DEF CheckIsRight
<1>8. CASE Deadline(k)
  BY <1>8 DEF Deadline
<1> QED BY <1>1, <1>2, <1>3, <1>4, <1>5, <1>6, <1>7, <1>8 DEF ChecksStep, StoreStep, CheckStep

\* A step of another part changes no check.
LEMMA OthersKeepChecks ==
    ASSUME Next, \A k \in Check : ~ChecksStep(k) PROVE UNCHANGED check
BY DEF Next, ChecksStep, RamForgets, GrantOrRevoke, MemoExpires, ChangeRoles, L2Expires, Invalidate,
       KeysListed, KeysDeleted, StoreFails, Broadcast, BroadcastMisses, Apply

\* What is remembered of the roles stays right as long as they stay.
LEMMA NextRoles ==
    ASSUME TypeInv, RolesAreRight, Next, roleHas' = roleHas PROVE RolesAreRight'
<1>0. check \in [Check -> CheckState] /\ memo \in [Inst -> Cached] /\ RolesSay' = RolesSay
  BY DEF TypeInv, TypeOK, RolesSay
<1>1. \A i \in Inst : memo'[i] \in {"none", RolesSay}
  <2>1. CASE \E k \in Check : RolesReturn(k)
    BY <1>0, <2>1 DEF RolesReturn, RolesAreRight
  <2>2. CASE \E i \in Inst : \/ MemoExpires(i) \/ KeysDeleted(i)
                            \/ \E scope \in Scope : Apply(i, scope)
    BY <1>0, <2>2 DEF MemoExpires, KeysDeleted, Apply, RolesAreRight
  <2>3. CASE memo' = memo
    BY <2>3 DEF RolesAreRight
  <2>4. \/ memo' = memo \/ \E k \in Check : RolesReturn(k)
        \/ \E i \in Inst : \/ MemoExpires(i) \/ KeysDeleted(i)
                          \/ \E scope \in Scope : Apply(i, scope)
    BY DEF Next, CheckAction, StoreStep, CheckStep, L2Answers, L2Returns, RolesListed, GrantsListed,
           Decide, Deadline, RamForgets, GrantOrRevoke, ChangeRoles, L2Expires, Invalidate,
           KeysListed, StoreFails, Broadcast, BroadcastMisses, local
  <2> QED BY <2>1, <2>2, <2>3, <2>4
<1>2. ASSUME NEW j \in Check
      PROVE  /\ check'[j].pc = "gotRoles" => check'[j].val = RolesSay
             /\ check'[j].pc = "askGrants" => roleHas
  <2>1. CASE check'[j] = check[j]
    BY <2>1 DEF RolesAreRight
  <2>2. ASSUME NEW k \in Check, ChecksStep(k), check'[j] # check[j]
        PROVE  /\ check'[j].pc = "gotRoles" => check'[j].val = RolesSay
               /\ check'[j].pc = "askGrants" => roleHas
    <3>1. k = j
      BY <1>0, <2>2, ChecksAlone
    <3>2. CASE CheckIsRight(check'[k])
      BY <3>1, <3>2 DEF CheckIsRight
    <3>3. CASE check' = [check EXCEPT ![k] = [@ EXCEPT !.late = TRUE]]
      <4>1. check'[j].pc = check[j].pc /\ check'[j].val = check[j].val
        BY <1>0, <3>1, <3>3 DEF CheckState
      <4> QED BY <4>1 DEF RolesAreRight
    <3> QED BY <2>2, <3>2, <3>3, ChecksAreRight
  <2>3. CASE \A k \in Check : ~ChecksStep(k)
    <3>1. check' = check
      BY <2>3, OthersKeepChecks
    <3> QED BY <2>1, <3>1
  <2> QED BY <2>1, <2>2, <2>3
<1> QED BY <1>0, <1>1, <1>2 DEF RolesAreRight

\* A check that will be cached although it is wrong was so before the step, or
\* the step has changed what is right.
LEMMA StaleBefore ==
    ASSUME TypeInv, RolesAreRight, Next, NEW k \in Check, StaleCheck(check[k])'
    PROVE  /\ check'[k].inst = check[k].inst /\ check'[k].user = check[k].user
           /\ check[k].inst \in Inst /\ check[k].user \in User
           /\ gen'[check[k].inst] = gen[check[k].inst]
           /\ StaleCheck(check[k]) \/ Truth(check[k].user)' # Truth(check[k].user)
<1>0. /\ check \in [Check -> CheckState] /\ check[k] \in CheckState
      /\ check[k].pc # "idle" => check[k].inst \in Inst
  BY DEF TypeInv, TypeOK, Running
<1>1. ASSUME NEW j \in Check, ChecksStep(j), check'[k] # check[k]
      PROVE  /\ j = k /\ check' = [check EXCEPT ![k] = [@ EXCEPT !.late = TRUE]]
             /\ UNCHANGED <<gen, granted, roleHas>>
  <2>1. k = j /\ UNCHANGED <<gen, granted, roleHas>>
    BY <1>0, <1>1, ChecksAlone
  <2>2. ~CheckIsRight(check'[k])
    <3>1. check'[k].pc = "gotGrants" /\ check'[k].val # Truth(check'[k].user)
      BY <2>1 DEF StaleCheck, Truth
    <3> QED BY <3>1 DEF CheckIsRight
  <2> QED BY <1>1, <2>1, <2>2, ChecksAreRight
<1>2. /\ check'[k].inst = check[k].inst /\ check'[k].user = check[k].user
      /\ check'[k].val = check[k].val /\ check'[k].pc = check[k].pc
      /\ check'[k].seen = check[k].seen
  <2>1. CASE check'[k] = check[k]
    BY <2>1
  <2>2. CASE check'[k] # check[k]
    <3>1. check' = [check EXCEPT ![k] = [@ EXCEPT !.late = TRUE]]
      BY <1>1, <2>2, OthersKeepChecks
    <3> QED BY <1>0, <3>1 DEF CheckState
  <2> QED BY <2>1, <2>2
<1>3. check[k].pc = "gotGrants" /\ check[k].inst \in Inst /\ check[k].user \in User
  BY <1>0, <1>2 DEF StaleCheck, CheckState
<1>4. gen'[check[k].inst] = gen[check[k].inst]
  <2>1. check[k].seen = gen'[check[k].inst]
    BY <1>2 DEF StaleCheck
  <2>2. /\ check[k].seen <= gen[check[k].inst] /\ check[k].seen \in Nat
        /\ gen[check[k].inst] \in Nat
    BY <1>0, <1>3 DEF TypeInv, TypeOK, CheckState
  <2>3. gen' = gen \/ \E i \in Inst : gen' = [gen EXCEPT ![i] = @ + 1]
    BY DEF Next, CheckAction, StoreStep, CheckStep, L2Answers, L2Returns, RolesListed, RolesReturn,
           GrantsListed, Decide, Deadline, RamForgets, GrantOrRevoke, MemoExpires, ChangeRoles,
           L2Expires, Invalidate, KeysListed, KeysDeleted, StoreFails, Broadcast, BroadcastMisses,
           Apply, invalidateLocalRam, local
  <2>4. gen'[check[k].inst] \in {gen[check[k].inst], gen[check[k].inst] + 1}
    BY <1>3, <2>3 DEF TypeInv, TypeOK
  <2> QED BY <2>1, <2>2, <2>4
<1>5. check[k].val # Truth(check[k].user)'
  BY <1>2 DEF StaleCheck, Truth
<1>6. check[k].seen = gen[check[k].inst]
  BY <1>2, <1>4 DEF StaleCheck
<1> QED BY <1>2, <1>3, <1>4, <1>5, <1>6 DEF StaleCheck

\* What is right for a user changes by a grant or a revoke of the user.
LEMMA TruthChanges ==
    ASSUME TypeInv, Next, roleHas' = roleHas, NEW u \in User, Truth(u)' # Truth(u)
    PROVE  \E i \in Inst : GrantOrRevoke(i, u)
<1>1. (u \in granted') # (u \in granted)
  BY DEF Truth
<1>2. granted' # granted
  BY <1>1
<1>3. \E i \in Inst, v \in User : GrantOrRevoke(i, v)
  BY <1>2 DEF Next, CheckAction, StoreStep, CheckStep, L2Answers, L2Returns, RolesListed,
         RolesReturn, GrantsListed, Decide, Deadline, RamForgets, MemoExpires, ChangeRoles,
         L2Expires, Invalidate, KeysListed, KeysDeleted, StoreFails, Broadcast, BroadcastMisses,
         Apply, db
<1>4. PICK i \in Inst, v \in User : GrantOrRevoke(i, v)
  BY <1>3
<1>5. u = v
  BY <1>1, <1>4 DEF GrantOrRevoke
<1> QED BY <1>4, <1>5

\* The mutation that begins covers the user, and is at its beginning.
LEMMA GrantIsWritten ==
    ASSUME TypeInv, NEW i \in Inst, NEW u \in User, GrantOrRevoke(i, u)
    PROVE  /\ mutation'[i].pc = "written" /\ Covers(mutation'[i].scope, u)
           /\ mutation[i].pc = "idle" /\ \A j \in Inst \ {i} : mutation'[j] = mutation[j]
<1>1. mutation \in [Inst -> MutationState] /\ mutation[i] \in MutationState
  BY DEF TypeInv, TypeOK
<1>2. mutation' = [mutation EXCEPT ![i] = [@ EXCEPT !.pc = "written", !.scope = u]]
  BY DEF GrantOrRevoke, StartMutation
<1>3. mutation'[i] = [mutation[i] EXCEPT !.pc = "written", !.scope = u]
  BY <1>1, <1>2
<1>4. mutation'[i].pc = "written" /\ mutation'[i].scope = u
  BY <1>1, <1>3 DEF MutationState
<1> QED BY <1>1, <1>2, <1>4 DEF GrantOrRevoke, StartMutation, Covers

-----------------------------------------------------------------------------
(* RAM *)

\* An invalidation that is on its way stays so until it is applied.
LEMMA PendingStays ==
    ASSUME TypeInv, Next, Calm', Calm, NEW i \in Inst, NEW u \in User, Pending(i, u)
    PROVE  \/ Pending(i, u)'
           \/ \E scope \in Scope : Apply(i, scope) /\ Covers(scope, u)
<1>0. /\ mutation \in [Inst -> MutationState] /\ inbox \in [Inst -> SUBSET Scope]
  BY DEF TypeInv, TypeOK
<1>1. ASSUME NEW j \in Inst, NEW scope \in Scope, Apply(j, scope)
      PROVE  Pending(i, u)' \/ \E sc \in Scope : Apply(i, sc) /\ Covers(sc, u)
  <2>1. inbox' = [inbox EXCEPT ![j] = @ \ {scope}] /\ mutation' = mutation
    BY <1>1 DEF Apply
  <2>2. CASE i = j /\ Covers(scope, u)
    BY <1>1, <2>2
  <2>3. CASE i # j \/ ~Covers(scope, u)
    BY <1>0, <2>1, <2>3 DEF Pending, Covers
  <2> QED BY <2>2, <2>3
<1>2. ASSUME NEW j \in Inst, Broadcast(j) PROVE Pending(i, u)'
  <2>1. /\ inbox' = [k \in Inst |-> inbox[k] \cup {mutation[j].scope}]
        /\ \A k \in Inst \ {j} : mutation'[k] = mutation[k]
    BY <1>0, <1>2 DEF Broadcast
  <2>2. /\ mutation[j].scope \in inbox'[i] /\ inbox[i] \subseteq inbox'[i]
    BY <2>1
  <2>3. CASE \E k \in Inst : mutation[k].pc # "idle" /\ Covers(mutation[k].scope, u)
    BY <2>1, <2>2, <2>3 DEF Pending, Covers
  <2>4. CASE \E scope \in inbox[i] : Covers(scope, u)
    BY <2>2, <2>4 DEF Pending, Covers
  <2> QED BY <2>3, <2>4 DEF Pending
<1>3. ASSUME \A j \in Inst : mutation[j].pc # "idle" =>
               mutation'[j].pc # "idle" /\ mutation'[j].scope = mutation[j].scope,
             inbox' = inbox
      PROVE  Pending(i, u)'
  BY <1>3 DEF Pending, Covers
<1>4. ASSUME NEW j \in Inst, NEW scope \in Scope, StartMutation(j, scope), inbox' = inbox
      PROVE  Pending(i, u)'
  <2>1. mutation[j].pc = "idle" /\ \A k \in Inst \ {j} : mutation'[k] = mutation[k]
    BY <1>0, <1>4 DEF StartMutation
  <2> QED BY <1>3, <1>4, <2>1
<1>5. ASSUME NEW j \in Inst, Invalidate(j) \/ KeysListed(j) \/ KeysDeleted(j) PROVE Pending(i, u)'
  <2>0. mutation[j] \in MutationState
    BY <1>0
  <2>1. PICK pc \in {"listing", "deleting", "publishing"} :
          \E keys : mutation' = [mutation EXCEPT ![j] = [@ EXCEPT !.pc = pc, !.keys = keys]]
    <3>1. CASE Invalidate(j)
      <4>1. PICK pc \in {"listing", "deleting"} :
              mutation' = [mutation EXCEPT ![j] = [@ EXCEPT !.pc = pc]]
        BY <3>1 DEF Invalidate
      <4>2. [mutation[j] EXCEPT !.pc = pc]
              = [mutation[j] EXCEPT !.pc = pc, !.keys = mutation[j].keys]
        BY <2>0 DEF MutationState
      <4> QED BY <4>1, <4>2
    <3>2. CASE KeysListed(j)
      BY <3>2 DEF KeysListed
    <3>3. CASE KeysDeleted(j)
      BY <3>3 DEF KeysDeleted
    <3> QED BY <1>5, <3>1, <3>2, <3>3
  <2>2. PICK keys :
        /\ mutation'[j] = [mutation[j] EXCEPT !.pc = pc, !.keys = keys]
        /\ \A k \in Inst \ {j} : mutation'[k] = mutation[k]
    BY <1>0, <2>1
  <2>3. mutation'[j].pc # "idle" /\ mutation'[j].scope = mutation[j].scope
    BY <2>0, <2>2 DEF MutationState
  <2>4. inbox' = inbox
    BY <1>5 DEF Invalidate, KeysListed, KeysDeleted
  <2> QED BY <1>3, <2>2, <2>3, <2>4
<1>6. ASSUME NEW j \in Inst, StoreFails(j) \/ BroadcastMisses(j) PROVE FALSE
  BY <1>6 DEF StoreFails, BroadcastMisses, Calm
<1>7. CASE UNCHANGED <<mutation, inbox>>
  BY <1>3, <1>7
<1>8. ASSUME NEW j \in Inst, ChangeRoles(j) PROVE FALSE
  BY <1>8 DEF ChangeRoles, Calm
<1>9. ASSUME NEW j \in Inst, NEW v \in User, GrantOrRevoke(j, v) PROVE Pending(i, u)'
  BY <1>4, <1>9 DEF GrantOrRevoke, Scope
<1>10. \/ UNCHANGED <<mutation, inbox>>
       \/ \E j \in Inst : \/ \E scope \in Scope : Apply(j, scope)
                          \/ \E v \in User : GrantOrRevoke(j, v)
                          \/ Broadcast(j) \/ Invalidate(j) \/ KeysListed(j) \/ KeysDeleted(j)
                          \/ StoreFails(j) \/ BroadcastMisses(j) \/ ChangeRoles(j)
  <2>1. CASE \E k \in Check : ChecksStep(k)
    BY <2>1, ChecksAlone
  <2>2. CASE \A k \in Check : ~ChecksStep(k)
    BY <2>2 DEF Next, ChecksStep, RamForgets, MemoExpires, L2Expires
  <2> QED BY <2>1, <2>2
<1> QED BY <1>1, <1>2, <1>5, <1>6, <1>7, <1>8, <1>9, <1>10

\* What a step may do to an entry in RAM, without a shared store: forget it, or
\* put a decision there whose check no invalidation has overtaken.
LEMMA RamChanges ==
    ASSUME TypeInv, NoStore, Next, NEW i \in Inst, NEW u \in User
    PROVE  \/ ram'[i][u] \in {"none", ram[i][u]}
           \/ \E k \in Check :
                /\ check[k].pc = "gotGrants" /\ check[k].seen = gen[i]
                /\ check[k].inst = i /\ check[k].user = u /\ ram'[i][u] = check[k].val
                /\ UNCHANGED <<db, mutation, inbox>>
<1>0. /\ ram \in [Inst -> [User -> Cached]]
      /\ \A k \in Check : check[k].pc # "idle" => check[k].inst \in Inst /\ check[k].user \in User
  BY DEF TypeInv, TypeOK, Running, CheckState
<1>1. ASSUME NEW k \in Check, Decide(k), ram'[i][u] # ram[i][u]
      PROVE  /\ check[k].pc = "gotGrants" /\ check[k].seen = gen[i]
             /\ check[k].inst = i /\ check[k].user = u /\ ram'[i][u] = check[k].val
             /\ UNCHANGED <<db, mutation, inbox>>
  <2>1. MayCache(check[k]) /\ check[k].pc = "gotGrants" /\ UNCHANGED <<db, mutation, inbox>>
    BY <1>1 DEF Decide
  <2>2. ram' = [ram EXCEPT ![check[k].inst][check[k].user] = check[k].val]
    BY <1>1, <2>1 DEF Decide
  <2>3. check[k].inst = i /\ check[k].user = u /\ ram'[i][u] = check[k].val
    BY <1>0, <1>1, <2>1, <2>2
  <2> QED BY <2>1, <2>3 DEF MayCache
<1>2. ASSUME NEW j \in Inst, NEW scope, invalidateLocalRam(j, scope)
      PROVE  ram'[i][u] \in {"none", ram[i][u]}
  BY <1>0, <1>2 DEF invalidateLocalRam
<1>3. ASSUME NEW j \in Inst, NEW v \in User, RamForgets(j, v)
      PROVE  ram'[i][u] \in {"none", ram[i][u]}
  BY <1>0, <1>3 DEF RamForgets
<1>4. ASSUME NEW k \in Check, L2Returns(k) PROVE FALSE
  BY <1>4 DEF L2Returns, NoStore
<1>5. \/ ram' = ram
      \/ \E k \in Check : Decide(k) \/ L2Returns(k)
      \/ \E j \in Inst : \/ \E scope : invalidateLocalRam(j, scope)
                         \/ \E v \in User : RamForgets(j, v)
  BY DEF Next, CheckAction, StoreStep, CheckStep, L2Answers, RolesListed, RolesReturn, GrantsListed,
         Deadline, GrantOrRevoke, MemoExpires, ChangeRoles, L2Expires, Invalidate, KeysListed,
         KeysDeleted, StoreFails, Broadcast, BroadcastMisses, Apply, local
<1> QED BY <1>1, <1>2, <1>3, <1>4, <1>5

LEMMA InitRam == Init => RamInv
BY IdleTypes DEF Init, RamInv, NoStore, RamWillBeRight, RolesAreRight, StaleCheck

LEMMA NextRam ==
    ASSUME ~HasL2, TypeInv, RamInv, [Next]_vars PROVE RamInv'
<1>1. CASE UNCHANGED vars
  BY <1>1 DEF vars, db, local, counts, RamInv, NoStore, RamWillBeRight, RolesAreRight, RolesSay,
              StaleCheck, Truth, Pending, Covers, Calm
<1> SUFFICES ASSUME Next PROVE RamInv'
  BY <1>1
<1>0. check \in [Check -> CheckState] /\ NoStore /\ TypeOK
  BY DEF TypeInv, TypeOK, RamInv
<1>2. NoStore'
  <2> SUFFICES ASSUME NEW j \in Check PROVE check'[j].pc \notin {"askL2", "gotL2"}
    BY DEF NoStore
  <2>1. CASE check'[j] = check[j]
    BY <1>0, <2>1 DEF NoStore
  <2>2. ASSUME NEW k \in Check, ChecksStep(k), check'[j] # check[j]
        PROVE  check'[j].pc \notin {"askL2", "gotL2"}
    <3>0. k = j /\ check[k] \in CheckState /\ check[k].pc \notin {"askL2", "gotL2"}
      BY <1>0, <2>2, ChecksAlone DEF NoStore
    <3>1. ASSUME NEW i \in Inst, NEW u \in User, CheckAction(k, i, u)
          PROVE  check'[j].pc \notin {"askL2", "gotL2"}
      <4> DEFINE c == [IdleCheck EXCEPT !.inst = i, !.user = u]
      <4>1. c \in CheckState /\ c.inst = i
        BY IdleTypes DEF CheckState
      <4>2. check' = [check EXCEPT ![k] = resolveAllowed(c)]
        BY <3>1 DEF CheckAction
      <4> HIDE DEF c
      <4>3. resolveAllowed(c).pc \notin {"askL2", "gotL2"}
        BY <1>0, <4>1, Resolved
      <4> QED BY <1>0, <3>0, <4>2, <4>3
    <3>2. CASE StoreStep(k)
      BY <3>0, <3>2 DEF StoreStep, L2Answers, L2Returns
    <3>3. CASE RolesListed(k) \/ RolesReturn(k) \/ GrantsListed(k)
      BY <1>0, <3>0, <3>3 DEF RolesListed, RolesReturn, GrantsListed, CheckState
    <3>4. CASE Decide(k)
      BY <1>0, <3>0, <3>4, IdleTypes DEF Decide
    <3>5. CASE Deadline(k)
      BY <1>0, <3>0, <3>5 DEF Deadline, CheckState
    <3> QED BY <2>2, <3>1, <3>2, <3>3, <3>4, <3>5 DEF ChecksStep, CheckStep
  <2>3. CASE \A k \in Check : ~ChecksStep(k)
    <3>1. check' = check
      BY <2>3, OthersKeepChecks
    <3> QED BY <2>1, <3>1
  <2> QED BY <2>1, <2>2, <2>3
<1>3. ASSUME Calm' PROVE RamWillBeRight'
  <2>1. Calm /\ roleHas' = roleHas
    BY <1>3, RolesStay
  <2>2. RamWillBeRight /\ RolesAreRight
    BY <2>1 DEF RamInv, RamWillBeRight
  <2>3. RolesAreRight'
    BY <2>1, <2>2, NextRoles
  <2>4. ASSUME NEW u \in User, NEW i \in Inst, Truth(u)' # Truth(u) PROVE Pending(i, u)'
    <3>1. PICK j \in Inst : GrantOrRevoke(j, u)
      BY <2>1, <2>4, TruthChanges
    <3>2. mutation'[j].pc = "written" /\ Covers(mutation'[j].scope, u)
      BY <3>1, GrantIsWritten
    <3> QED BY <3>2 DEF Pending, Covers
  <2>5. ASSUME NEW i \in Inst, NEW scope \in Scope, Apply(i, scope)
        PROVE  /\ gen'[i] # gen[i]
               /\ \A u \in User : Covers(scope, u) => ram'[i][u] = "none"
    <3>1. gen' = [gen EXCEPT ![i] = @ + 1] /\ gen[i] \in Nat
      BY <1>0, <2>5 DEF Apply, invalidateLocalRam, TypeOK
    <3>2. gen'[i] = gen[i] + 1
      BY <1>0, <3>1 DEF TypeOK
    <3>3. ram' = [ram EXCEPT ![i] = [u \in User |-> IF Covers(scope, u) THEN "none" ELSE @[u]]]
      BY <2>5 DEF Apply, invalidateLocalRam
    <3>4. \A u \in User : Covers(scope, u) => ram'[i][u] = "none"
      BY <1>0, <3>3 DEF TypeOK
    <3> QED BY <3>1, <3>2, <3>4
  <2>6. ASSUME NEW k \in Check, StaleCheck(check[k])'
        PROVE  Pending(check[k].inst, check[k].user)' /\ check'[k].inst = check[k].inst
               /\ check'[k].user = check[k].user
    <3>1. /\ check'[k].inst = check[k].inst /\ check'[k].user = check[k].user
          /\ check[k].inst \in Inst /\ check[k].user \in User
          /\ gen'[check[k].inst] = gen[check[k].inst]
          /\ StaleCheck(check[k]) \/ Truth(check[k].user)' # Truth(check[k].user)
      BY <2>2, <2>6, StaleBefore
    <3> DEFINE i == check[k].inst
               u == check[k].user
    <3>2. CASE Truth(u)' # Truth(u)
      <4>1. \A v \in User, j \in Inst : Truth(v)' # Truth(v) => Pending(j, v)'
        BY <2>4
      <4> QED BY <3>1, <3>2, <4>1 DEF Pending, Covers, Truth
    <3>3. CASE StaleCheck(check[k])
      <4>1. Pending(i, u)
        BY <2>2, <3>3 DEF RamWillBeRight
      <4>2. \A v \in User, j \in Inst :
              Pending(j, v) => \/ Pending(j, v)'
                               \/ \E scope \in Scope : Apply(j, scope) /\ Covers(scope, v)
        BY <1>3, <2>1, PendingStays
      <4>3. ~\E scope \in Scope : Apply(i, scope)
        BY <2>5, <3>1
      <4> QED BY <3>1, <4>1, <4>2, <4>3 DEF Pending, Covers
    <3> QED BY <3>1, <3>2, <3>3
  <2>7. ASSUME NEW i \in Inst, NEW u \in User, ram'[i][u] \notin {"none", Truth(u)'}
        PROVE  Pending(i, u)'
    <3>1. CASE Truth(u)' # Truth(u)
      BY <2>4, <3>1
    <3>2. CASE Truth(u)' = Truth(u) /\ ram'[i][u] = ram[i][u]
      <4>1. Pending(i, u)
        BY <2>2, <2>7, <3>2 DEF RamWillBeRight
      <4>2. ~\E scope \in Scope : Apply(i, scope) /\ Covers(scope, u)
        BY <2>5, <2>7
      <4> QED BY <1>3, <2>1, <4>1, <4>2, PendingStays
    <3>3. CASE Truth(u)' = Truth(u) /\ ram'[i][u] # ram[i][u]
      <4>1. PICK k \in Check :
              /\ check[k].pc = "gotGrants" /\ check[k].seen = gen[i]
              /\ check[k].inst = i /\ check[k].user = u /\ ram'[i][u] = check[k].val
              /\ UNCHANGED <<db, mutation, inbox>>
        BY <1>0, <2>7, <3>3, RamChanges
      <4>2. StaleCheck(check[k])
        BY <2>7, <3>3, <4>1 DEF StaleCheck
      <4>3. Pending(i, u)
        BY <2>2, <4>1, <4>2 DEF RamWillBeRight
      <4> QED BY <4>1, <4>3 DEF Pending
    <3> QED BY <3>1, <3>2, <3>3
  <2> QED BY <2>3, <2>6, <2>7 DEF RamWillBeRight
<1> QED BY <1>2, <1>3 DEF RamInv

\* Without a shared store no instance keeps a decision the database does not
\* support, once the grants and revokes and the checks they met are over
\* (acl-cache.service.ts: set compares the generation of its check), for any
\* number of instances, users and calls.
THEOREM RamIsFresh == ASSUME ~HasL2 PROVE Spec => []RamFreshWhenQuiet
<1>1. Init => TypeInv /\ RamInv
  BY InitType, InitRam
<1>2. TypeInv /\ RamInv /\ [Next]_vars => TypeInv' /\ RamInv'
  BY NextType, NextRam
<1>3. TypeInv /\ RamInv => RamFreshWhenQuiet
  BY DEF RamInv, RamWillBeRight, RamFreshWhenQuiet, Quiet, Calm, Pending
<1> QED BY <1>1, <1>2, <1>3, PTL DEF Spec

-----------------------------------------------------------------------------
(* The shared store *)

\* Several instances keep a store wrong: the one that decides has not heard yet
\* of the mutation of another, and caches what that one has just deleted.
OneInstance == \A i, j \in Inst : i = j

\* What a step may do to an entry of the store.
LEMMA L2Changes ==
    ASSUME TypeInv, Next, NEW u \in User, l2'[u] \notin {"none", l2[u]}
    PROVE  \E k \in Check :
             /\ check[k].pc = "gotGrants" /\ check[k].seen = gen[check[k].inst]
             /\ check[k].user = u /\ l2'[u] = check[k].val /\ HasL2
             /\ UNCHANGED <<db, mutation>>
<1>0. l2 \in [User -> Cached] /\ \A k \in Check : check[k].user \in User
  BY DEF TypeInv, TypeOK, CheckState
<1>1. ASSUME NEW k \in Check, Decide(k)
      PROVE  /\ check[k].pc = "gotGrants" /\ check[k].seen = gen[check[k].inst]
             /\ check[k].user = u /\ l2'[u] = check[k].val /\ HasL2
             /\ UNCHANGED <<db, mutation>>
  <2>1. MayCache(check[k]) /\ check[k].pc = "gotGrants" /\ UNCHANGED <<db, mutation>>
    BY <1>1 DEF Decide
  <2>2. PICK v \in IF HasL2 THEN {check[k].val, l2[check[k].user]} ELSE {l2[check[k].user]} :
          l2' = [l2 EXCEPT ![check[k].user] = v]
    BY <1>1, <2>1 DEF Decide
  <2>3. check[k].user = u /\ l2'[u] = v
    BY <1>0, <2>2
  <2>4. l2'[u] = check[k].val /\ HasL2
    BY <1>0, <2>2, <2>3
  <2> QED BY <2>1, <2>3, <2>4 DEF MayCache
<1>2. ASSUME NEW v \in User, L2Expires(v) PROVE FALSE
  BY <1>0, <1>2 DEF L2Expires
<1>3. ASSUME NEW i \in Inst, KeysDeleted(i) PROVE FALSE
  BY <1>0, <1>3 DEF KeysDeleted
<1>4. \/ l2' = l2 \/ \E k \in Check : Decide(k)
      \/ \E i \in Inst : KeysDeleted(i)
      \/ \E v \in User : L2Expires(v)
  BY DEF Next, CheckAction, StoreStep, CheckStep, L2Answers, L2Returns, RolesListed, RolesReturn,
         GrantsListed, Deadline, RamForgets, GrantOrRevoke, MemoExpires, ChangeRoles, Invalidate,
         KeysListed, StoreFails, Broadcast, BroadcastMisses, Apply
<1> QED BY <1>1, <1>2, <1>3, <1>4

LEMMA InitL2 == Init => L2Inv
BY IdleTypes DEF Init, L2Inv, L2WillBeRight, RolesAreRight, StaleCheck

\* What a mutation of the only instance does to an entry it will delete.
LEMMA DeletionGoesOn ==
    ASSUME HasL2, TypeInv, OneInstance, Next, Calm, Calm', NEW u \in User, NEW i \in Inst,
           Covers(mutation[i].scope, u), l2[u] # "none", l2'[u] = l2[u],
           \/ mutation[i].pc \in {"written", "listing"}
           \/ mutation[i].pc = "deleting" /\ u \in mutation[i].keys
    PROVE  /\ Covers(mutation'[i].scope, u)
           /\ \/ mutation'[i].pc \in {"written", "listing"}
              \/ mutation'[i].pc = "deleting" /\ u \in mutation'[i].keys
<1>0. /\ mutation \in [Inst -> MutationState] /\ mutation[i] \in MutationState
      /\ \A j \in Inst : j = i
  BY DEF TypeInv, TypeOK, OneInstance
<1>1. CASE Invalidate(i)
  <2>1. mutation' = [mutation EXCEPT ![i].pc = IF HasL2 THEN "listing" ELSE "deleting"]
        /\ mutation[i].pc = "written"
    BY <1>1 DEF Invalidate
  <2>2. mutation'[i].scope = mutation[i].scope
        /\ mutation'[i].pc = IF HasL2 THEN "listing" ELSE "deleting"
    BY <1>0, <2>1 DEF MutationState
  <2> QED BY <2>2 DEF Covers
<1>2. CASE KeysListed(i)
  <2> DEFINE keys == {v \in User : Covers(mutation[i].scope, v) /\ l2[v] # "none"}
  <2>1. mutation' = [mutation EXCEPT ![i] = [@ EXCEPT !.pc = "deleting", !.keys = keys]]
    BY <1>2 DEF KeysListed
  <2>2. u \in keys
    OBVIOUS
  <2> HIDE DEF keys
  <2>3. /\ mutation'[i].scope = mutation[i].scope
        /\ mutation'[i].pc = "deleting" /\ mutation'[i].keys = keys
    BY <1>0, <2>1 DEF MutationState
  <2> QED BY <2>2, <2>3 DEF Covers
<1>3. CASE KeysDeleted(i)
  BY <1>3 DEF KeysDeleted
<1>4. CASE UNCHANGED mutation
  BY <1>4 DEF Covers
<1>5. CASE StoreFails(i) \/ BroadcastMisses(i) \/ ChangeRoles(i)
  BY <1>5 DEF StoreFails, BroadcastMisses, ChangeRoles, Calm
<1>6. CASE Broadcast(i) \/ \E v \in User : GrantOrRevoke(i, v)
  BY <1>6 DEF Broadcast, GrantOrRevoke, StartMutation
<1>7. \/ UNCHANGED mutation
      \/ \E j \in Inst : \/ Invalidate(j) \/ KeysListed(j) \/ KeysDeleted(j) \/ StoreFails(j)
                         \/ Broadcast(j) \/ BroadcastMisses(j) \/ ChangeRoles(j)
                         \/ \E v \in User : GrantOrRevoke(j, v)
  <2>1. CASE \E k \in Check : ChecksStep(k)
    BY <2>1, ChecksAlone
  <2>2. CASE \A k \in Check : ~ChecksStep(k)
    BY <2>2 DEF Next, ChecksStep, RamForgets, MemoExpires, L2Expires, Apply
  <2> QED BY <2>1, <2>2
<1> QED BY <1>0, <1>1, <1>2, <1>3, <1>4, <1>5, <1>6, <1>7

LEMMA NextL2 ==
    ASSUME OneInstance, TypeInv, L2Inv, [Next]_vars PROVE L2Inv'
<1>1. CASE UNCHANGED vars
  BY <1>1 DEF vars, db, local, counts, L2Inv, L2WillBeRight, RolesAreRight, RolesSay,
              StaleCheck, Truth, Covers, Calm
<1> SUFFICES ASSUME Next PROVE L2Inv'
  BY <1>1
<1>2. ASSUME ~HasL2, NEW u \in User PROVE l2'[u] = "none"
  BY <1>2, L2Changes DEF L2Inv
<1>3. ASSUME Calm' PROVE L2WillBeRight'
  <2>1. Calm /\ roleHas' = roleHas
    BY <1>3, RolesStay
  <2>2. L2WillBeRight /\ RolesAreRight
    BY <2>1 DEF L2Inv, L2WillBeRight
  <2>3. RolesAreRight'
    BY <2>1, <2>2, NextRoles
  <2>4. ASSUME NEW u \in User, Truth(u)' # Truth(u)
        PROVE  \E i \in Inst : mutation'[i].pc = "written" /\ Covers(mutation'[i].scope, u)
    <3>1. PICK j \in Inst : GrantOrRevoke(j, u)
      BY <2>1, <2>4, TruthChanges
    <3> QED BY <3>1, GrantIsWritten
  <2>5. ASSUME NEW k \in Check, StaleCheck(check[k])'
        PROVE  \E i \in Inst : mutation'[i].pc = "written"
                               /\ Covers(mutation'[i].scope, check'[k].user)
    <3>1. /\ check'[k].user = check[k].user
          /\ check[k].inst \in Inst /\ check[k].user \in User
          /\ gen'[check[k].inst] = gen[check[k].inst]
          /\ StaleCheck(check[k]) \/ Truth(check[k].user)' # Truth(check[k].user)
      BY <2>2, <2>5, StaleBefore
    <3>2. CASE ~StaleCheck(check[k])
      <4>1. \A v \in User : Truth(v)' # Truth(v) =>
              \E i \in Inst : mutation'[i].pc = "written" /\ Covers(mutation'[i].scope, v)
        BY <2>4
      <4> QED BY <3>1, <3>2, <4>1 DEF Truth
    <3>3. CASE StaleCheck(check[k])
      <4>1. PICK i \in Inst :
              mutation[i].pc = "written" /\ Covers(mutation[i].scope, check[k].user)
        BY <2>2, <3>3 DEF L2WillBeRight
      <4>2. ~Invalidate(i)
        <5>1. check[k].inst = i
          BY <3>1 DEF OneInstance
        <5>2. gen[i] \in Nat /\ gen \in [Inst -> Nat]
          BY DEF TypeInv, TypeOK
        <5> QED BY <3>1, <5>1, <5>2 DEF Invalidate, invalidateLocalRam
      <4>3. mutation'[i] = mutation[i]
        <5>1. \A j \in Inst : j = i
          BY DEF OneInstance
        <5>2. CASE \E j \in Check : ChecksStep(j)
          BY <5>2, ChecksAlone
        <5>3. CASE \A j \in Check : ~ChecksStep(j)
          BY <4>1, <4>2, <5>1, <5>3
             DEF Next, ChecksStep, RamForgets, MemoExpires, L2Expires, Apply, GrantOrRevoke,
                 ChangeRoles, StartMutation, KeysListed, KeysDeleted, StoreFails, Broadcast,
                 BroadcastMisses
        <5> QED BY <5>2, <5>3
      <4> QED BY <3>1, <4>1, <4>3 DEF Covers
    <3> QED BY <3>2, <3>3
  <2>6. ASSUME NEW u \in User, l2'[u] \notin {"none", Truth(u)'}
        PROVE  \E i \in Inst :
                 /\ Covers(mutation'[i].scope, u)
                 /\ \/ mutation'[i].pc \in {"written", "listing"}
                    \/ mutation'[i].pc = "deleting" /\ u \in mutation'[i].keys
    <3>1. CASE Truth(u)' # Truth(u)
      BY <2>4, <3>1
    <3>2. CASE Truth(u)' = Truth(u) /\ l2'[u] = l2[u]
      <4>1. PICK i \in Inst :
              /\ Covers(mutation[i].scope, u)
              /\ \/ mutation[i].pc \in {"written", "listing"}
                 \/ mutation[i].pc = "deleting" /\ u \in mutation[i].keys
        BY <2>2, <2>6, <3>2 DEF L2WillBeRight
      <4>2. HasL2
        BY <2>6, <3>2 DEF L2Inv
      <4> QED BY <1>3, <2>1, <2>6, <3>2, <4>1, <4>2, DeletionGoesOn
    <3>3. CASE Truth(u)' = Truth(u) /\ l2'[u] # l2[u]
      <4>1. PICK k \in Check :
              /\ check[k].pc = "gotGrants" /\ check[k].seen = gen[check[k].inst]
              /\ check[k].user = u /\ l2'[u] = check[k].val /\ UNCHANGED <<db, mutation>>
        BY <2>6, <3>3, L2Changes
      <4>2. StaleCheck(check[k])
        BY <2>6, <3>3, <4>1 DEF StaleCheck
      <4>3. \E i \in Inst : mutation[i].pc = "written" /\ Covers(mutation[i].scope, u)
        BY <2>2, <4>1, <4>2 DEF L2WillBeRight
      <4> QED BY <4>1, <4>3 DEF Covers
    <3> QED BY <3>1, <3>2, <3>3
  <2> QED BY <2>3, <2>5, <2>6 DEF L2WillBeRight
<1> QED BY <1>2, <1>3 DEF L2Inv

\* Nor does the store of a single instance, whose invalidation lists and
\* deletes keys while checks go on (acl-cache.service.ts: invalidate).
THEOREM L2IsFresh == ASSUME OneInstance PROVE Spec => []L2FreshWhenQuiet
<1>1. Init => TypeInv /\ L2Inv
  BY InitType, InitL2
<1>2. TypeInv /\ L2Inv /\ [Next]_vars => TypeInv' /\ L2Inv'
  BY NextType, NextL2
<1>3. TypeInv /\ L2Inv => L2FreshWhenQuiet
  BY DEF L2Inv, L2WillBeRight, L2FreshWhenQuiet, Quiet, Calm
<1> QED BY <1>1, <1>2, <1>3, PTL DEF Spec

\* The type invariant, for every value of the constants; no check has seen a
\* generation that is still to come.
THEOREM TypeCorrect == Spec => []TypeOK
<1>1. Init => TypeInv
  BY InitType
<1>2. TypeInv /\ [Next]_vars => TypeInv'
  BY NextType
<1>3. TypeInv => TypeOK
  BY DEF TypeInv
<1> QED BY <1>1, <1>2, <1>3, PTL DEF Spec

=============================================================================
