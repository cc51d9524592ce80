----------------------------- MODULE AclGrants -----------------------------
(***************************************************************************)
(* The grant records of one (userId, companyId, resourceId), as the calls  *)
(* of grant, revoke and their admin variants change them: a call reads the *)
(* record, works out the new roles and writes them, with other calls in    *)
(* between.  The repository is external: it keeps documents in the order   *)
(* of insertion, an update of a removed document does nothing.             *)
(***************************************************************************)
EXTENDS Naturals

CONSTANTS
    Role,     \* roles that exist
    Call,     \* calls in progress at a time
    MaxDocs   \* bound: documents ever inserted

ASSUME GrantsAssumption == MaxDocs \in Nat \ {0}

NoDoc == 0
Doc == 1 .. MaxDocs

VARIABLES
    docs,      \* documents in the collection
    inserted,  \* documents ever inserted: an id is never used twice
    roles,     \* the roles of a document
    call,      \* the calls in progress
    expected,  \* history: roles held if calls had effect one after the other
    overlapped \* history: two calls were between their read and their write

vars == <<docs, inserted, roles, call, expected, overlapped>>

CallState == [pc : {"idle", "checking", "finding", "writing"}, op : {"grant", "revoke"},
              want : SUBSET Role, found : Doc \cup {NoDoc}, had : SUBSET Role]
IdleCall == [pc |-> "idle", op |-> "grant", want |-> {}, found |-> NoDoc, had |-> {}]

Held == UNION {roles[d] : d \in docs}

\* Someone seeded a record, or nobody did.
Init ==
    /\ \E first \in SUBSET Role :
         /\ docs = IF first = {} THEN {} ELSE {1}
         /\ inserted = IF first = {} THEN 0 ELSE 1
         /\ roles = [d \in Doc |-> IF d = 1 THEN first ELSE {}]
         /\ expected = first
    /\ call = [p \in Call |-> IdleCall]
    /\ overlapped = FALSE

\* grant and revoke first ask whether the caller may manage the resource, the
\* admin variants do not; no roles is a bad request.
Start(p, op, want) ==
    /\ call[p].pc = "idle"
    /\ want # {}
    /\ \E pc \in {"checking", "finding"} :
         call' = [call EXCEPT ![p] = [IdleCall EXCEPT !.pc = pc, !.op = op, !.want = want]]
    /\ UNCHANGED <<docs, inserted, roles, expected, overlapped>>

\* assertCanManage passes, or throws a ForbiddenError; a grant of roles that do
\* not exist ends here as well.
CanManage(p) ==
    /\ call[p].pc = "checking"
    /\ \/ call' = [call EXCEPT ![p].pc = "finding"]
       \/ call' = [call EXCEPT ![p] = IdleCall]
    /\ UNCHANGED <<docs, inserted, roles, expected, overlapped>>

\* The first document, in the repository's order.
findGrant == IF docs = {} THEN NoDoc ELSE CHOOSE d \in docs : \A e \in docs : d <= e

\* Without a record applyRevoke returns at once.
FindGrant(p) ==
    /\ call[p].pc = "finding"
    /\ call' = [call EXCEPT ![p] =
         IF findGrant = NoDoc
         THEN IF call[p].op = "grant" THEN [@ EXCEPT !.pc = "writing"] ELSE IdleCall
         ELSE [@ EXCEPT !.pc = "writing", !.found = findGrant, !.had = roles[findGrant]]]
    /\ UNCHANGED <<docs, inserted, roles>>
    /\ expected' = IF call[p].op = "revoke" /\ findGrant = NoDoc
                   THEN expected \ call[p].want ELSE expected
    /\ overlapped' = (overlapped \/ (/\ call'[p].pc = "writing"
                                    /\ \E q \in Call \ {p} : call[q].pc = "writing"))

\* updateById
updateById(d, r) ==
    /\ UNCHANGED <<docs, inserted>>
    /\ roles' = IF d \in docs THEN [roles EXCEPT ![d] = r] ELSE roles

removeById(d) ==
    /\ docs' = docs \ {d}
    /\ roles' = [roles EXCEPT ![d] = {}]
    /\ UNCHANGED inserted

insert(r) ==
    /\ inserted < MaxDocs
    /\ inserted' = inserted + 1
    /\ docs' = docs \cup {inserted'}
    /\ roles' = [roles EXCEPT ![inserted'] = r]

\* Mutant: the roles of the record are replaced, not added to.
ApplyGrant_replaces(p) ==
    LET c == call[p]
    IN  /\ c.pc = "writing" /\ c.op = "grant"
        /\ IF c.found # NoDoc
           THEN updateById(c.found, c.want)
           ELSE insert(c.want)
        /\ expected' = expected \cup c.want
        /\ call' = [call EXCEPT ![p] = IdleCall]
        /\ UNCHANGED overlapped

\* Mutant: every grant inserts a document of its own.
ApplyGrant_inserts(p) ==
    LET c == call[p]
    IN  /\ c.pc = "writing" /\ c.op = "grant"
        /\ insert(c.want)
        /\ expected' = expected \cup c.want
        /\ call' = [call EXCEPT ![p] = IdleCall]
        /\ UNCHANGED overlapped

\* applyGrant merges into the record it found, or inserts one.
ApplyGrant(p) ==
    LET c == call[p]
    IN  /\ c.pc = "writing" /\ c.op = "grant"
        /\ IF c.found # NoDoc
           THEN updateById(c.found, c.had \cup c.want)
           ELSE insert(c.want)
        /\ expected' = expected \cup c.want
        /\ call' = [call EXCEPT ![p] = IdleCall]
        /\ UNCHANGED overlapped

\* Mutant: a record without roles is kept.
ApplyRevoke_keepsEmpty(p) ==
    LET c == call[p]
    IN  /\ c.pc = "writing" /\ c.op = "revoke"
        /\ updateById(c.found, c.had \ c.want)
        /\ expected' = expected \ c.want
        /\ call' = [call EXCEPT ![p] = IdleCall]
        /\ UNCHANGED overlapped

\* applyRevoke keeps the record while a role is left.
ApplyRevoke(p) ==
    LET c == call[p]
    IN  /\ c.pc = "writing" /\ c.op = "revoke"
        /\ IF c.had \ c.want # {}
           THEN updateById(c.found, c.had \ c.want)
           ELSE removeById(c.found)
        /\ expected' = expected \ c.want
        /\ call' = [call EXCEPT ![p] = IdleCall]
        /\ UNCHANGED overlapped

Next ==
    \E p \in Call :
      \/ \E op \in {"grant", "revoke"}, want \in SUBSET Role : Start(p, op, want)
      \/ CanManage(p) \/ FindGrant(p) \/ ApplyGrant(p) \/ ApplyRevoke(p)

Spec == Init /\ [][Next]_vars

-----------------------------------------------------------------------------
(* Properties *)

\* A record is deleted with its last role, however calls overlap.
NoEmptyRecord == \A d \in docs : roles[d] # {}

\* grant adds roles and revoke removes them: the roles a user holds are those
\* of the calls, one after the other, until a call writes what it worked out
\* from a read that another call has overtaken.
RolesAddUp == ~overlapped => Held = expected

\* Until then all of it is in a single record: "re-granting the same roles never
\* produces a duplicate doc".
SingleRecord == ~overlapped => \A d, e \in docs : d = e
=============================================================================
