------------------------------ MODULE AclCache ------------------------------
(***************************************************************************)
(* Authorization decisions and their caches: the RAM tier (L1) and the     *)
(* roles memo of each instance, the shared store (L2), the invalidation a  *)
(* mutation ends in, and the broadcast that carries it to the peers.       *)
(*                                                                         *)
(* One action on one resource is decided for every user: the user holds a  *)
(* role on the resource (a grant record) and the role includes the action  *)
(* (the roles collection).  The database and the store are external: a     *)
(* read takes its value at one moment and gives it to the code at a later  *)
(* one.  Commands of one instance reach the store in the order sent.       *)
(***************************************************************************)
EXTENDS Naturals

CONSTANTS
    Inst,            \* instances of the service
    User,            \* users decisions are made for
    Check,           \* calls of checkAction in progress at a time
    NoInst,          \* the instance of an idle check
    HasL2,           \* an AclCacheStore is configured
    MaxMutations,    \* bound: mutations
    MaxRoleChanges,  \* bound: the part of them that changes roles
    MaxFaults        \* bound: deletions in the store that fail, broadcasts lost

ASSUME AclAssumption ==
    /\ HasL2 \in BOOLEAN
    /\ MaxMutations \in Nat /\ MaxRoleChanges \in Nat /\ MaxFaults \in Nat
    /\ NoInst \notin Inst
    /\ User # {} /\ "all" \notin User

VARIABLES
    granted,   \* database: users with a grant on the resource
    roleHas,   \* database: the role includes the action
    ram,       \* AclCacheService.ram of each instance, by user
    memo,      \* AclService.rolesCache of each instance: the role has the action
    gen,       \* AclCacheService.gen of each instance
    l2,        \* the shared store, by user
    check,     \* the calls of checkAction
    mutation,  \* the mutation an instance is busy with
    inbox,     \* broadcasts on their way to an instance
    mutations, roleChanges, faults  \* so far

db == <<granted, roleHas>>
local == <<ram, memo, gen>>
counts == <<mutations, roleChanges, faults>>
vars == <<db, local, l2, check, mutation, inbox, counts>>

Decision == {"allow", "deny"}
Cached == Decision \cup {"none"}
Scope == User \cup {"all"}
\* val is the answer of the read a check waits for, seen its snapshot of gen;
\* a late check has had its caller answered by the deadline.
CheckState ==
    [pc : {"idle", "askL2", "gotL2", "askRoles", "gotRoles", "askGrants", "gotGrants"},
     inst : Inst \cup {NoInst}, user : User, val : Cached, seen : Nat, late : BOOLEAN]
MutationState ==
    [pc : {"idle", "written", "listing", "deleting", "publishing"}, scope : Scope,
     keys : SUBSET User]

IdleCheck == [pc |-> "idle", inst |-> NoInst, user |-> CHOOSE u \in User : TRUE,
              val |-> "none", seen |-> 0, late |-> FALSE]
IdleMutation == [pc |-> "idle", scope |-> "all", keys |-> {}]

Init ==
    /\ granted \in SUBSET User
    /\ roleHas \in BOOLEAN
    /\ ram = [i \in Inst |-> [u \in User |-> "none"]]
    /\ memo = [i \in Inst |-> "none"]
    /\ gen = [i \in Inst |-> 0]
    /\ l2 = [u \in User |-> "none"]
    /\ check = [k \in Check |-> IdleCheck]
    /\ mutation = [i \in Inst |-> IdleMutation]
    /\ inbox = [i \in Inst |-> {}]
    /\ mutations = 0 /\ roleChanges = 0 /\ faults = 0

\* The decision the database supports, and its two halves.
RolesSay == IF roleHas THEN "allow" ELSE "deny"
GrantsSay(u) == IF u \in granted THEN "allow" ELSE "deny"
Truth(u) == IF roleHas /\ u \in granted THEN "allow" ELSE "deny"
Covers(scope, u) == scope \in {u, "all"}

-----------------------------------------------------------------------------
(* checkAction *)

\* resolveAllowed up to its first await: the roles memo, if there is one, saves
\* the first read.
resolveAllowed(c) ==
    LET d == [c EXCEPT !.seen = gen[c.inst], !.val = "none"]
    IN  [d EXCEPT !.pc = CASE memo[c.inst] = "none"  -> "askRoles"
                           [] memo[c.inst] = "allow" -> "askGrants"
                           [] OTHER                  -> "gotGrants",
                  !.val = IF memo[c.inst] = "deny" THEN "deny" ELSE "none"]

\* The call, up to its first await: an entry in RAM answers it at once.
CheckAction(k, i, u) ==
    LET c == [IdleCheck EXCEPT !.inst = i, !.user = u]
    IN  /\ check[k].pc = "idle"
        /\ ram[i][u] = "none"
        /\ check' = [check EXCEPT ![k] =
                       IF HasL2 THEN [c EXCEPT !.pc = "askL2"] ELSE resolveAllowed(c)]
        /\ UNCHANGED <<db, local, l2, mutation, inbox, counts>>

\* The store answers; a read that fails is a miss.
L2Answers(k) ==
    /\ check[k].pc = "askL2"
    /\ \E v \in {l2[check[k].user], "none"} :
         check' = [check EXCEPT ![k].pc = "gotL2", ![k].val = v]
    /\ UNCHANGED <<db, local, l2, mutation, inbox, counts>>

\* The rest of get: a hit goes into RAM and answers the call.
L2Returns(k) ==
    LET c == check[k]
    IN  /\ c.pc = "gotL2"
        /\ IF c.val = "none"
           THEN check' = [check EXCEPT ![k] = resolveAllowed(c)] /\ UNCHANGED ram
           ELSE /\ ram' = [ram EXCEPT ![c.inst][c.user] = c.val]
                /\ check' = [check EXCEPT ![k] = IdleCheck]
        /\ UNCHANGED <<db, memo, gen, l2, mutation, inbox, counts>>

RolesListed(k) ==
    /\ check[k].pc = "askRoles"
    /\ check' = [check EXCEPT ![k].pc = "gotRoles", ![k].val = RolesSay]
    /\ UNCHANGED <<db, local, l2, mutation, inbox, counts>>

\* listRolesCached stores what it got, and the grants are asked for if any role
\* has the action.
RolesReturn(k) ==
    LET c == check[k]
    IN  /\ c.pc = "gotRoles"
        /\ memo' = [memo EXCEPT ![c.inst] = c.val]
        /\ check' = [check EXCEPT ![k].pc = IF c.val = "allow" THEN "askGrants" ELSE "gotGrants"]
        /\ UNCHANGED <<db, ram, gen, l2, mutation, inbox, counts>>

GrantsListed(k) ==
    /\ check[k].pc = "askGrants"
    /\ check' = [check EXCEPT ![k].pc = "gotGrants", ![k].val = GrantsSay(check[k].user)]
    /\ UNCHANGED <<db, local, l2, mutation, inbox, counts>>

\* Mutant: set does not compare the generations.
MayCache_always(c) == ~c.late

\* set drops a decision when an invalidation came in between.
MayCache(c) == ~c.late /\ c.seen = gen[c.inst]

\* The decision is made: set, and the call returns.  The write to the store
\* may fail.
Decide(k) ==
    LET c == check[k]
    IN  /\ c.pc = "gotGrants"
        /\ check' = [check EXCEPT ![k] = IdleCheck]
        /\ IF MayCache(c)
           THEN /\ ram' = [ram EXCEPT ![c.inst][c.user] = c.val]
                /\ \E v \in IF HasL2 THEN {c.val, l2[c.user]} ELSE {l2[c.user]} :
                     l2' = [l2 EXCEPT ![c.user] = v]
           ELSE UNCHANGED <<ram, l2>>
        /\ UNCHANGED <<db, memo, gen, mutation, inbox, counts>>

\* Mutant: the deadline is set for the roles only.
Deadline_rolesOnly(k) ==
    /\ check[k].pc \in {"askRoles", "gotRoles"}
    /\ ~check[k].late
    /\ check' = [check EXCEPT ![k].late = TRUE]
    /\ UNCHANGED <<db, local, l2, mutation, inbox, counts>>

\* withTimeout rejects the call; the resolution goes on with nobody to use it.
Deadline(k) ==
    /\ check[k].pc \in {"askRoles", "gotRoles", "askGrants", "gotGrants"}
    /\ ~check[k].late
    /\ check' = [check EXCEPT ![k].late = TRUE]
    /\ UNCHANGED <<db, local, l2, mutation, inbox, counts>>

\* ramTtlMs, rolesTtlMs and l2TtlSec pass, or the RAM tier is over its cap.
RamForgets(i, u) ==
    /\ ram[i][u] # "none"
    /\ ram' = [ram EXCEPT ![i][u] = "none"]
    /\ UNCHANGED <<db, memo, gen, l2, check, mutation, inbox, counts>>

MemoExpires(i) ==
    /\ memo[i] # "none"
    /\ memo' = [memo EXCEPT ![i] = "none"]
    /\ UNCHANGED <<db, ram, gen, l2, check, mutation, inbox, counts>>

L2Expires(u) ==
    /\ l2[u] # "none"
    /\ l2' = [l2 EXCEPT ![u] = "none"]
    /\ UNCHANGED <<db, local, check, mutation, inbox, counts>>

-----------------------------------------------------------------------------
(* Mutations *)

\* Mutant: the generation is a flag that is turned over.
invalidateLocalRam_flag(i, scope) ==
    /\ gen' = [gen EXCEPT ![i] = 1 - @]
    /\ ram' = [ram EXCEPT ![i] = [u \in User |-> IF Covers(scope, u) THEN "none" ELSE @[u]]]

\* invalidateLocalRam
invalidateLocalRam(i, scope) ==
    /\ gen' = [gen EXCEPT ![i] = @ + 1]
    /\ ram' = [ram EXCEPT ![i] = [u \in User |-> IF Covers(scope, u) THEN "none" ELSE @[u]]]

StartMutation(i, scope) ==
    /\ mutations < MaxMutations
    /\ mutations' = mutations + 1
    /\ mutation[i].pc = "idle"
    /\ mutation' = [mutation EXCEPT ![i].pc = "written", ![i].scope = scope]

\* applyGrant and applyRevoke have written the record of a user.
GrantOrRevoke(i, u) ==
    /\ StartMutation(i, u)
    /\ granted' = IF u \in granted THEN granted \ {u} ELSE granted \cup {u}
    /\ UNCHANGED <<roleHas, local, l2, check, inbox, roleChanges, faults>>

\* upsertRole, deleteRole, upsertAction or deleteAction have.
ChangeRoles(i) ==
    /\ roleChanges < MaxRoleChanges
    /\ roleChanges' = roleChanges + 1
    /\ StartMutation(i, "all")
    /\ roleHas' = ~roleHas
    /\ UNCHANGED <<granted, local, l2, check, inbox, faults>>

\* cache.invalidate: RAM at once, then the keys of the store if there is one.
Invalidate(i) ==
    LET mu == mutation[i]
    IN  /\ mu.pc = "written"
        /\ invalidateLocalRam(i, mu.scope)
        /\ mutation' = [mutation EXCEPT ![i].pc = IF HasL2 THEN "listing" ELSE "deleting"]
        /\ UNCHANGED <<db, memo, l2, check, inbox, counts>>

KeysListed(i) ==
    /\ mutation[i].pc = "listing"
    /\ mutation' = [mutation EXCEPT ![i].pc = "deleting",
                     ![i].keys = {u \in User : Covers(mutation[i].scope, u) /\ l2[u] # "none"}]
    /\ UNCHANGED <<db, local, l2, check, inbox, counts>>

\* A store that fails at the listing or at the deletion keeps its keys.
StoreFails(i) ==
    /\ mutation[i].pc \in {"listing", "deleting"}
    /\ HasL2 /\ faults < MaxFaults
    /\ faults' = faults + 1
    /\ mutation' = [mutation EXCEPT ![i].pc = "deleting", ![i].keys = {}]
    /\ UNCHANGED <<db, local, l2, check, inbox, mutations, roleChanges>>

\* Mutant: the store is left to its TTL.
KeysDeleted_ttlOnly(i) ==
    LET mu == mutation[i]
    IN  /\ mu.pc = "deleting"
        /\ memo' = [memo EXCEPT ![i] = IF mu.scope = "all" THEN "none" ELSE @]
        /\ mutation' = [mutation EXCEPT ![i].pc = "publishing", ![i].keys = {}]
        /\ UNCHANGED <<l2, db, ram, gen, check, inbox, counts>>

\* The rest of invalidate, and invalidateAll's invalidateRolesCache after it.
KeysDeleted(i) ==
    LET mu == mutation[i]
    IN  /\ mu.pc = "deleting"
        /\ l2' = [u \in User |-> IF u \in mu.keys THEN "none" ELSE l2[u]]
        /\ memo' = [memo EXCEPT ![i] = IF mu.scope = "all" THEN "none" ELSE @]
        /\ mutation' = [mutation EXCEPT ![i].pc = "publishing", ![i].keys = {}]
        /\ UNCHANGED <<db, ram, gen, check, inbox, counts>>

\* broadcast: every instance has a queue, the sender too.
Broadcast(i) ==
    /\ mutation[i].pc = "publishing"
    /\ inbox' = [j \in Inst |-> inbox[j] \cup {mutation[i].scope}]
    /\ mutation' = [mutation EXCEPT ![i] = IdleMutation]
    /\ UNCHANGED <<db, local, l2, check, counts>>

\* The publish fails, or a queue is gone with its connection.
BroadcastMisses(i) ==
    /\ mutation[i].pc = "publishing"
    /\ faults < MaxFaults
    /\ faults' = faults + 1
    /\ \E missed \in SUBSET Inst \ {{}} :
         inbox' = [j \in Inst |-> IF j \in missed THEN inbox[j]
                                                  ELSE inbox[j] \cup {mutation[i].scope}]
    /\ mutation' = [mutation EXCEPT ![i] = IdleMutation]
    /\ UNCHANGED <<db, local, l2, check, mutations, roleChanges>>

\* apply, on a message of a peer
Apply(i, scope) ==
    /\ scope \in inbox[i]
    /\ inbox' = [inbox EXCEPT ![i] = @ \ {scope}]
    /\ invalidateLocalRam(i, scope)
    /\ memo' = [memo EXCEPT ![i] = IF scope = "all" THEN "none" ELSE @]
    /\ UNCHANGED <<db, l2, check, mutation, counts>>

-----------------------------------------------------------------------------
StoreStep(k) == L2Answers(k) \/ L2Returns(k)
CheckStep(k) == RolesListed(k) \/ RolesReturn(k) \/ GrantsListed(k) \/ Decide(k)

Next ==
    \/ \E k \in Check, i \in Inst, u \in User : CheckAction(k, i, u)
    \/ \E k \in Check : StoreStep(k) \/ CheckStep(k) \/ Deadline(k)
    \/ \E i \in Inst, u \in User : RamForgets(i, u) \/ GrantOrRevoke(i, u)
    \/ \E i \in Inst : MemoExpires(i) \/ ChangeRoles(i)
    \/ \E u \in User : L2Expires(u)
    \/ \E i \in Inst : Invalidate(i) \/ KeysListed(i) \/ KeysDeleted(i) \/ StoreFails(i)
    \/ \E i \in Inst : Broadcast(i) \/ BroadcastMisses(i)
    \/ \E i \in Inst, scope \in Scope : Apply(i, scope)

Spec == Init /\ [][Next]_vars

\* The store answers and timers fire; the database may stall for ever.
Fairness == \A k \in Check : WF_vars(StoreStep(k)) /\ WF_vars(Deadline(k))

FairSpec == Spec /\ Fairness

-----------------------------------------------------------------------------
(* Properties *)

\* The type invariant; the snapshot of a check is never ahead of the
\* generation it is compared with.
TypeOK ==
    /\ granted \subseteq User /\ roleHas \in BOOLEAN
    /\ ram \in [Inst -> [User -> Cached]]
    /\ memo \in [Inst -> Cached]
    /\ gen \in [Inst -> Nat]
    /\ l2 \in [User -> Cached]
    /\ check \in [Check -> CheckState]
    /\ mutation \in [Inst -> MutationState]
    /\ inbox \in [Inst -> SUBSET Scope]
    /\ mutations \in 0 .. MaxMutations
    /\ roleChanges \in 0 .. MaxRoleChanges /\ faults \in 0 .. MaxFaults
    /\ \A k \in Check : check[k].pc # "idle" => check[k].seen <= gen[check[k].inst]

\* Every mutation has run to its end, its broadcast has been applied and no
\* check is in progress; no fault kept an invalidation from its place, and the
\* roles, which an instance may remember longer, have not changed.
Quiet ==
    /\ \A i \in Inst : mutation[i].pc = "idle" /\ inbox[i] = {}
    /\ \A k \in Check : check[k].pc = "idle"
    /\ faults = 0 /\ roleChanges = 0

\* When the grants and revokes and the checks they met are over, no instance
\* keeps a decision in RAM that the database does not support: a check in
\* flight does not bring back what an invalidation removed.
RamFreshWhenQuiet ==
    Quiet => \A i \in Inst, u \in User : ram[i][u] \in {"none", Truth(u)}

\* Nor does the shared store.
L2FreshWhenQuiet == Quiet => \A u \in User : l2[u] \in {"none", Truth(u)}

\* The caller of checkAction is answered although the database stalls.
CallerAnswered ==
    \A k \in Check : check[k].pc # "idle" ~> check[k].pc = "idle" \/ check[k].late
=============================================================================
