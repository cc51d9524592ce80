------------------------- MODULE OperationsProofs -------------------------
(***************************************************************************)
(* The grants and the rollups, for any number of callers, roles and        *)
(* documents, of instances, points and hours: no record is left without    *)
(* roles and calls one after the other add up on one record; a rollup      *)
(* counts nothing twice and, while the lock holds, never shrinks.          *)
(***************************************************************************)
EXTENDS Operations, Sequences, FiniteSetTheorems, WellFoundedInduction, TLAPS

USE GrantsAssumption DEF Doc, NoDoc

-----------------------------------------------------------------------------
(* The records of AclGrants *)

\* A call in progress wants some roles, and a revoke writes to a record it found.
Meant ==
    \A p \in Call :
      /\ call[p].pc # "idle" => call[p].want # {}
      /\ call[p].pc = "writing" /\ call[p].op = "revoke" => call[p].found # NoDoc

Documents ==
    /\ inserted \in 0 .. MaxDocs
    /\ docs \subseteq 1 .. inserted
    /\ roles \in [Doc -> SUBSET Role]

\* The inductive invariant.
GrantsInv == Documents /\ call \in [Call -> CallState] /\ Meant /\ NoEmptyRecord

\* The record a call finds is one that exists.
LEMMA FoundExists ==
    ASSUME Documents PROVE findGrant \in Doc \cup {NoDoc}
<1>1. CASE docs = {}
  BY <1>1 DEF findGrant
<1>2. CASE docs # {}
  <2>1. docs \subseteq Nat
    BY DEF Documents
  <2>2. PICK d \in docs : \A e \in docs : ~(<<e, d>> \in OpToRel(<, Nat))
    BY <1>2, <2>1, WFMin, NatLessThanWellFounded, Zenon
  <2>3. \A e \in docs : ~(e < d)
    BY <2>1, <2>2, Zenon DEF OpToRel
  <2>4. \E f \in docs : \A e \in docs : f <= e
    BY <2>1, <2>3
  <2>5. findGrant \in docs
    BY <1>2, <2>4, Zenon DEF findGrant
  <2>6. docs \subseteq Doc
    BY DEF Documents
  <2> QED BY <2>5, <2>6
<1> QED BY <1>1, <1>2

LEMMA InitGrants == Init => GrantsInv
<1> SUFFICES ASSUME Init PROVE GrantsInv
  OBVIOUS
<1>1. Documents /\ NoEmptyRecord
  BY DEF Init, Documents, NoEmptyRecord
<1>2. call \in [Call -> CallState] /\ Meant
  BY DEF Init, Meant, CallState, IdleCall
<1> QED BY <1>1, <1>2 DEF GrantsInv

\* A write of some roles leaves records with roles; what a write of a removed
\* document would have said is lost.
LEMMA WriteKeeps ==
    ASSUME Documents, NoEmptyRecord, NEW r \in (SUBSET Role) \ {{}},
           insert(r) \/ \E d \in Doc : updateById(d, r)
    PROVE  Documents' /\ NoEmptyRecord'
<1>1. CASE insert(r)
  BY <1>1 DEF Documents, NoEmptyRecord, insert
<1>2. ASSUME NEW d \in Doc, updateById(d, r) PROVE Documents' /\ NoEmptyRecord'
  BY <1>2 DEF Documents, NoEmptyRecord, updateById
<1> QED BY <1>1, <1>2

LEMMA NextGrants == GrantsInv /\ Next => GrantsInv'
<1> SUFFICES ASSUME GrantsInv, Next PROVE GrantsInv'
  OBVIOUS
<1> USE DEF GrantsInv
<1>1. ASSUME NEW p \in Call, NEW op \in {"grant", "revoke"}, NEW want \in SUBSET Role,
             Start(p, op, want)
      PROVE  GrantsInv'
  <2>1. UNCHANGED <<docs, inserted, roles>>
    BY <1>1 DEF Start
  <2>2. PICK pc \in {"checking", "finding"} :
          call' = [call EXCEPT ![p] = [IdleCall EXCEPT !.pc = pc, !.op = op, !.want = want]]
    BY <1>1 DEF Start
  <2>3. call' \in [Call -> CallState] /\ Meant'
    BY <1>1, <2>2 DEF Start, Meant, CallState, IdleCall
  <2> QED BY <2>1, <2>3 DEF Documents, NoEmptyRecord
<1>2. ASSUME NEW p \in Call, CanManage(p) PROVE GrantsInv'
  <2>1. call' \in [Call -> CallState] /\ Meant'
    BY <1>2 DEF CanManage, Meant, CallState, IdleCall
  <2> QED BY <1>2, <2>1 DEF CanManage, Documents, NoEmptyRecord
<1>3. ASSUME NEW p \in Call, FindGrant(p) PROVE GrantsInv'
  <2>1. UNCHANGED <<docs, inserted, roles>>
    BY <1>3 DEF FindGrant
  <2>2. call' \in [Call -> CallState] /\ Meant'
    <3>1. CASE findGrant = NoDoc
      BY <1>3, <3>1 DEF FindGrant, Meant, CallState, IdleCall
    <3>2. CASE findGrant # NoDoc
      <4>1. findGrant \in Doc /\ roles[findGrant] \in SUBSET Role
        BY <3>2, FoundExists DEF Documents
      <4>2. call' = [call EXCEPT ![p] = [@ EXCEPT !.pc = "writing", !.found = findGrant,
                                                  !.had = roles[findGrant]]]
        BY <1>3, <3>2 DEF FindGrant
      <4>3. call' \in [Call -> CallState]
        <5>1. [call[p] EXCEPT !.pc = "writing", !.found = findGrant, !.had = roles[findGrant]]
                \in CallState
          BY <4>1 DEF CallState
        <5> QED BY <4>2, <5>1
      <4>4. call[p].want # {}
        BY <1>3 DEF FindGrant, Meant
      <4>5. Meant'
        BY <4>1, <4>2, <4>4 DEF Meant, CallState
      <4> QED BY <4>3, <4>5
    <3> QED BY <3>1, <3>2
  <2> QED BY <2>1, <2>2 DEF Documents, NoEmptyRecord
<1>4. ASSUME NEW p \in Call, ApplyGrant(p) PROVE GrantsInv'
  <2>1. call' = [call EXCEPT ![p] = IdleCall]
    BY <1>4 DEF ApplyGrant
  <2>2. call' \in [Call -> CallState] /\ Meant'
    BY <2>1 DEF Meant, CallState, IdleCall
  <2>3. /\ call[p].want # {} /\ call[p].want \in SUBSET Role /\ call[p].had \in SUBSET Role
        /\ call[p].found \in Doc \cup {NoDoc}
    BY <1>4 DEF ApplyGrant, Meant, CallState
  <2>4. \/ insert(call[p].want)
        \/ call[p].found # NoDoc /\ updateById(call[p].found, call[p].had \cup call[p].want)
    BY <1>4 DEF ApplyGrant
  <2>5. Documents' /\ NoEmptyRecord'
    BY <2>3, <2>4, WriteKeeps
  <2> QED BY <2>2, <2>5
<1>5. ASSUME NEW p \in Call, ApplyRevoke(p) PROVE GrantsInv'
  <2>1. call' = [call EXCEPT ![p] = IdleCall]
    BY <1>5 DEF ApplyRevoke
  <2>2. call' \in [Call -> CallState] /\ Meant'
    BY <2>1 DEF Meant, CallState, IdleCall
  <2>3. call[p].found \in Doc /\ call[p].had \in SUBSET Role
    BY <1>5 DEF ApplyRevoke, Meant, CallState
  <2>4. CASE call[p].had \ call[p].want # {}
    BY <1>5, <2>2, <2>3, <2>4, WriteKeeps DEF ApplyRevoke
  <2>5. CASE call[p].had \ call[p].want = {}
    <3>1. removeById(call[p].found)
      BY <1>5, <2>5 DEF ApplyRevoke
    <3>2. Documents'
      BY <2>3, <3>1 DEF removeById, Documents
    <3>3. NoEmptyRecord'
      BY <2>3, <3>1 DEF removeById, Documents, NoEmptyRecord
    <3> QED BY <2>2, <3>2, <3>3
  <2> QED BY <2>4, <2>5
<1> QED BY <1>1, <1>2, <1>3, <1>4, <1>5 DEF Next

-----------------------------------------------------------------------------
(* Calls one after the other *)

\* While no two calls have overlapped, at most one is about to write, and what
\* it has read is what there is: one record, or none.
Serial ==
    ~overlapped =>
      /\ \A p, q \in Call : call[p].pc = "writing" /\ call[q].pc = "writing" => p = q
      /\ \A d, e \in docs : d = e
      /\ \A d \in docs : roles[d] = expected
      /\ docs = {} => expected = {}
      /\ \A p \in Call : call[p].pc # "writing" => call[p].found = NoDoc
      /\ \A p \in Call : call[p].pc = "writing" =>
           /\ call[p].found = NoDoc => docs = {}
           /\ call[p].found # NoDoc => docs = {call[p].found} /\ call[p].had = expected

SerialInv == GrantsInv /\ Serial

LEMMA InitSerial == Init => Serial
BY DEF Init, Serial, IdleCall

\* A call that has found nothing, or the only record there is.
LEMMA FindsAll ==
    ASSUME Documents, \A d, e \in docs : d = e
    PROVE  /\ findGrant = NoDoc => docs = {}
           /\ findGrant # NoDoc => docs = {findGrant}
<1>1. CASE docs = {}
  BY <1>1 DEF findGrant
<1>2. CASE docs # {}
  <2>1. PICK d \in docs : docs = {d}
    BY <1>2
  <2>2. d \in Nat \ {0}
    BY <2>1 DEF Documents
  <2>3. findGrant \in docs
    BY <1>2, <2>1, <2>2, FoundExists DEF findGrant
  <2> QED BY <2>1, <2>2, <2>3
<1> QED BY <1>1, <1>2

LEMMA NextSerial == SerialInv /\ Next => Serial'
<1> SUFFICES ASSUME SerialInv, Next PROVE Serial'
  OBVIOUS
<1> USE DEF SerialInv
<1>0. call \in [Call -> CallState] /\ Documents
  BY DEF GrantsInv
<1>1. ASSUME NEW p \in Call, NEW op \in {"grant", "revoke"}, NEW want \in SUBSET Role,
             Start(p, op, want)
      PROVE  Serial'
  <2>1. PICK pc \in {"checking", "finding"} :
          call' = [call EXCEPT ![p] = [IdleCall EXCEPT !.pc = pc, !.op = op, !.want = want]]
    BY <1>1 DEF Start
  <2> QED BY <1>0, <1>1, <2>1 DEF Start, Serial, IdleCall
<1>2. ASSUME NEW p \in Call, CanManage(p) PROVE Serial'
  BY <1>0, <1>2 DEF CanManage, Serial, IdleCall, CallState
<1>3. ASSUME NEW p \in Call, FindGrant(p) PROVE Serial'
  <2> SUFFICES ASSUME ~overlapped' PROVE Serial'
    BY DEF Serial
  <2>1. ~overlapped /\ UNCHANGED <<docs, roles>>
    BY <1>3 DEF FindGrant
  <2>2. /\ findGrant = NoDoc => docs = {}
        /\ findGrant # NoDoc => docs = {findGrant} /\ roles[findGrant] = expected
    BY <1>0, <2>1, FindsAll DEF Serial
  <2>3. CASE findGrant = NoDoc /\ call[p].op = "revoke"
    <3>1. call' = [call EXCEPT ![p] = IdleCall] /\ expected' = {}
      BY <1>3, <2>1, <2>2, <2>3 DEF FindGrant, Serial
    <3> QED BY <1>0, <2>1, <2>2, <2>3, <3>1 DEF Serial, IdleCall
  <2>4. CASE ~(findGrant = NoDoc /\ call[p].op = "revoke")
    <3>1. expected' = expected
      BY <1>3, <2>4 DEF FindGrant
    <3>2. /\ call'[p].pc = "writing"
          /\ findGrant = NoDoc => call'[p].found = NoDoc
          /\ findGrant # NoDoc => call'[p].found = findGrant /\ call'[p].had = roles[findGrant]
          /\ \A q \in Call \ {p} : call'[q] = call[q]
      <4>1. CASE findGrant = NoDoc
        BY <1>0, <1>3, <2>1, <2>4, <4>1 DEF FindGrant, Serial, CallState
      <4>2. CASE findGrant # NoDoc
        BY <1>0, <1>3, <4>2 DEF FindGrant, CallState
      <4> QED BY <4>1, <4>2
    <3>3. \A q \in Call \ {p} : call[q].pc # "writing"
      BY <1>3, <3>2 DEF FindGrant
    <3> QED BY <2>1, <2>2, <3>1, <3>2, <3>3 DEF Serial
  <2> QED BY <2>3, <2>4
<1>4. ASSUME NEW p \in Call, ApplyGrant(p) PROVE Serial'
  <2> SUFFICES ASSUME ~overlapped' PROVE Serial'
    BY DEF Serial
  <2>1. ~overlapped /\ call[p].pc = "writing" /\ call' = [call EXCEPT ![p] = IdleCall]
        /\ expected' = expected \cup call[p].want
    BY <1>4 DEF ApplyGrant
  <2>2. \A q \in Call : call'[q].pc # "writing" /\ call'[q].found = NoDoc
    BY <1>0, <2>1 DEF Serial, IdleCall
  <2>3. CASE call[p].found # NoDoc
    <3>1. docs = {call[p].found} /\ call[p].had = expected
      BY <2>1, <2>3 DEF Serial
    <3>2. docs' = docs /\ roles'[call[p].found] = expected'
      BY <1>0, <1>4, <2>1, <2>3, <3>1 DEF ApplyGrant, updateById, Documents
    <3> QED BY <2>2, <3>1, <3>2 DEF Serial
  <2>4. CASE call[p].found = NoDoc
    <3>1. docs = {} /\ expected = {}
      BY <2>1, <2>4 DEF Serial
    <3>2. docs' = {inserted'} /\ roles'[inserted'] = call[p].want
      BY <1>0, <1>4, <2>4, <3>1 DEF ApplyGrant, insert, Documents
    <3> QED BY <2>1, <2>2, <3>1, <3>2 DEF Serial
  <2> QED BY <2>3, <2>4
<1>5. ASSUME NEW p \in Call, ApplyRevoke(p) PROVE Serial'
  <2> SUFFICES ASSUME ~overlapped' PROVE Serial'
    BY DEF Serial
  <2>1. ~overlapped /\ call[p].pc = "writing" /\ call[p].op = "revoke"
        /\ call' = [call EXCEPT ![p] = IdleCall] /\ expected' = expected \ call[p].want
    BY <1>5 DEF ApplyRevoke
  <2>2. \A q \in Call : call'[q].pc # "writing" /\ call'[q].found = NoDoc
    BY <1>0, <2>1 DEF Serial, IdleCall
  <2>3. docs = {call[p].found} /\ call[p].had = expected /\ call[p].found \in Doc
    BY <1>0, <2>1 DEF Serial, GrantsInv, Meant, Documents
  <2>4. CASE expected' # {}
    <3>1. docs' = docs /\ roles'[call[p].found] = expected'
      BY <1>0, <1>5, <2>1, <2>3, <2>4 DEF ApplyRevoke, updateById, Documents
    <3> QED BY <2>2, <2>3, <2>4, <3>1 DEF Serial
  <2>5. CASE expected' = {}
    <3>1. docs' = {}
      BY <1>5, <2>1, <2>3, <2>5 DEF ApplyRevoke, removeById
    <3> QED BY <2>2, <2>5, <3>1 DEF Serial
  <2> QED BY <2>4, <2>5
<1> QED BY <1>1, <1>2, <1>3, <1>4, <1>5 DEF Next

-----------------------------------------------------------------------------
(* The rollups of MetricsJobs *)

HIDE GrantsAssumption DEF Doc, NoDoc

\* The Cardinality of the instance is that of FiniteSets.
LEMMA JobsCardinality == \A S : Jobs!Cardinality(S) = Cardinality(S)
BY DEF Jobs!Cardinality, Cardinality

LEMMA NoneIsNoHour == None \notin Jobs!Hour
BY JobsAssumption DEF Jobs!Hour

OfHour(h) == {p \in Point : hour[p] = h}

\* A run is about hours that are over, and what it has read is of its hour.
JobsAreRight ==
    \A i \in Instance :
      /\ job[i].hours \in Seq(Jobs!Hour) /\ \A k \in 1..Len(job[i].hours) : job[i].hours[k] < now
      /\ job[i].at \in {"read", "write"} => job[i].hours # <<>>
      /\ job[i].at = "write" => job[i].got \subseteq OfHour(Head(job[i].hours))

\* r is no more than the points of the hour account for.
Accounted(h, r) ==
    /\ r.count \in Nat /\ r.errors \in Nat
    /\ r.errors <= Cardinality(OfHour(h) \cap Error)
    /\ r.count - r.errors <= Cardinality(OfHour(h) \ Error)

RollupsAreRight == \A h \in Jobs!Hour : rollups[h] # None => h < now /\ Accounted(h, rollups[h])

TypesAreRight ==
    /\ now \in Jobs!Hour
    /\ hour \in [Point -> Jobs!Hour \cup {None}]
    /\ rollups \in [Jobs!Hour -> [count : Nat, errors : Nat] \cup {None}]
    /\ job \in [Instance -> [at : {"idle", "read", "write", "release"}, hours : Seq(Jobs!Hour),
                             got : SUBSET Point]]
    /\ stored \subseteq Point
    /\ buffer \in [Instance -> SUBSET Point] /\ flight \in [Instance -> SUBSET Point]

\* The inductive invariant.
JobsInv == TypesAreRight /\ JobsAreRight /\ RollupsAreRight

\* A point that is handled joins its hour, and none leaves.
LEMMA MorePoints ==
    ASSUME NEW h \in Jobs!Hour, NEW r, Accounted(h, r), OfHour(h) \subseteq OfHour(h)'
    PROVE  Accounted(h, r)'
<1> DEFINE ps == OfHour(h)
           qs == OfHour(h)'
<1>1. IsFiniteSet(qs)
  BY FS_Subset, JobsAssumption DEF OfHour
<1>2. IsFiniteSet(qs \cap Error) /\ IsFiniteSet(qs \ Error)
  BY <1>1, FS_Subset
<1>3. /\ Cardinality(ps \cap Error) <= Cardinality(qs \cap Error)
      /\ Cardinality(ps \ Error) <= Cardinality(qs \ Error)
  BY <1>2, FS_Subset
<1>4. /\ Cardinality(ps \cap Error) \in Nat /\ Cardinality(ps \ Error) \in Nat
      /\ Cardinality(qs \cap Error) \in Nat /\ Cardinality(qs \ Error) \in Nat
  BY <1>2, FS_Subset, FS_CardinalityType
<1>5. /\ r.count \in Nat /\ r.errors \in Nat
      /\ r.errors <= Cardinality(ps \cap Error)
      /\ r.count - r.errors <= Cardinality(ps \ Error)
  BY DEF Accounted
<1>6. /\ r.errors <= Cardinality(qs \cap Error)
      /\ r.count - r.errors <= Cardinality(qs \ Error)
  BY <1>3, <1>4, <1>5
<1> QED BY <1>5, <1>6 DEF Accounted

\* What is aggregated from points of an hour is accounted for.
LEMMA AggregateIsRight ==
    ASSUME NEW h \in Jobs!Hour, NEW got \in SUBSET OfHour(h)
    PROVE  Accounted(h, Jobs!aggregateRollups(got)) /\ Jobs!aggregateRollups(got) \in [count : Nat, errors : Nat]
<1> DEFINE ps == OfHour(h)
<1>1. IsFiniteSet(ps) /\ IsFiniteSet(got)
  BY FS_Subset, JobsAssumption DEF OfHour
<1>2. IsFiniteSet(ps \cap Error) /\ IsFiniteSet(ps \ Error)
  BY <1>1, FS_Subset
<1>3. /\ Cardinality(got \cap Error) <= Cardinality(ps \cap Error)
      /\ Cardinality(got \ Error) <= Cardinality(ps \ Error)
  BY <1>2, FS_Subset
<1>4. Cardinality(got \ Error) = Cardinality(got) - Cardinality(got \cap Error)
  BY <1>1, FS_Difference
<1>5. Cardinality(got) \in Nat /\ Cardinality(got \cap Error) \in Nat
  BY <1>1, FS_Subset, FS_CardinalityType
<1>6. /\ Jobs!aggregateRollups(got).count = Cardinality(got)
      /\ Jobs!aggregateRollups(got).errors = Cardinality(got \cap Error)
      /\ Jobs!aggregateRollups(got) \in [count : Nat, errors : Nat]
  BY <1>5, JobsCardinality DEF Jobs!aggregateRollups
<1> QED BY <1>3, <1>4, <1>5, <1>6 DEF Accounted

\* The hours of a run are over.
LEMMA HoursAreOver ==
    ASSUME TypesAreRight, NEW n \in Nat
    PROVE  /\ Jobs!PreviousHours(n) \in Seq(Jobs!Hour)
           /\ \A k \in 1..Len(Jobs!PreviousHours(n)) : Jobs!PreviousHours(n)[k] < now
<1>1. MaxHour \in Nat /\ now \in 0 .. MaxHour
  BY JobsAssumption DEF TypesAreRight, Jobs!Hour
<1> QED BY <1>1 DEF Jobs!PreviousHours, Jobs!Hour

-----------------------------------------------------------------------------
LEMMA InitJobs == Jobs!Init => JobsInv
<1> SUFFICES ASSUME Jobs!Init PROVE JobsInv
  OBVIOUS
<1>1. TypesAreRight
  BY JobsAssumption DEF Jobs!Init, TypesAreRight, Jobs!Hour, Jobs!Idle
<1>2. JobsAreRight
  <2>1. /\ \A i \in Instance : job[i] = Jobs!Idle
        /\ Jobs!Idle.hours = <<>> /\ Jobs!Idle.at = "idle"
    BY DEF Jobs!Init, Jobs!Idle
  <2>2. <<>> \in Seq(Jobs!Hour) /\ \A k \in 1..Len(<<>>) : FALSE
    OBVIOUS
  <2> QED BY <2>1, <2>2 DEF JobsAreRight
<1>3. RollupsAreRight
  BY DEF Jobs!Init, RollupsAreRight
<1> QED BY <1>1, <1>2, <1>3 DEF JobsInv

\* A run that is begun has hours to read, or nothing to do.
LEMMA BeginKeeps ==
    ASSUME JobsInv, NEW i \in Instance, NEW n \in Nat, Jobs!Begin(i, n) PROVE JobsInv'
<1>1. /\ Jobs!PreviousHours(n) \in Seq(Jobs!Hour)
      /\ \A k \in 1..Len(Jobs!PreviousHours(n)) : Jobs!PreviousHours(n)[k] < now
  BY HoursAreOver DEF JobsInv
<1>2. /\ UNCHANGED <<now, hour, Jobs!store, rollups>>
      /\ job' = [job EXCEPT ![i] =
                  [at |-> IF Jobs!PreviousHours(n) = <<>> THEN "release" ELSE "read",
                   hours |-> Jobs!PreviousHours(n), got |-> {}]]
  BY DEF Jobs!Begin
<1>3. TypesAreRight'
  BY <1>1, <1>2 DEF JobsInv, TypesAreRight, Jobs!store, Jobs!Hour
<1>4. JobsAreRight'
  BY <1>1, <1>2 DEF JobsInv, TypesAreRight, JobsAreRight, OfHour
<1>5. RollupsAreRight'
  BY <1>2 DEF JobsInv, RollupsAreRight, Accounted, OfHour
<1> QED BY <1>3, <1>4, <1>5 DEF JobsInv

\* The next hour of a run is over too.
LEMMA TurnKeeps ==
    ASSUME JobsInv, NEW i \in Instance, job[i].at \in {"read", "write"},
           UNCHANGED <<now, hour>>,
           NEW at \in {"read", "write"}, NEW got \in SUBSET Point, Jobs!Turn(i, at, got),
           at = "write" => got \subseteq OfHour(Head(job[i].hours))
    PROVE  /\ job' \in [Instance -> [at : {"idle", "read", "write", "release"},
                                     hours : Seq(Jobs!Hour), got : SUBSET Point]]
           /\ JobsAreRight'
<1> DEFINE hs == job[i].hours
<1>1. /\ hs \in Seq(Jobs!Hour) /\ hs # <<>> /\ \A k \in 1..Len(hs) : hs[k] < now
      /\ now \in Nat
  BY DEF JobsInv, TypesAreRight, JobsAreRight, Jobs!Hour
<1>2. /\ Tail(hs) \in Seq(Jobs!Hour)
      /\ \A k \in 1..Len(Tail(hs)) : Tail(hs)[k] < now
  BY <1>1
<1>3. CASE at = "write"
  <2>1. job' = [job EXCEPT ![i] = [@ EXCEPT !.at = "write", !.got = got]]
    BY <1>3 DEF Jobs!Turn
  <2> QED BY <1>1, <1>3, <2>1 DEF JobsInv, TypesAreRight, JobsAreRight, OfHour
<1>4. CASE at = "read"
  <2>1. job' = [job EXCEPT ![i] = [at |-> IF Tail(hs) = <<>> THEN "release" ELSE "read",
                                   hours |-> Tail(hs), got |-> {}]]
    BY <1>4 DEF Jobs!Turn
  <2> QED BY <1>2, <2>1 DEF JobsInv, TypesAreRight, JobsAreRight, OfHour
<1> QED BY <1>3, <1>4

LEMMA NextJobs == JobsInv /\ Jobs!Next => JobsInv'
<1> SUFFICES ASSUME JobsInv, Jobs!Next PROVE JobsInv'
  OBVIOUS
<1>1. CASE Jobs!HourPasses
  <2>1. /\ now' = now + 1 /\ now \in Nat /\ now' \in Jobs!Hour
        /\ UNCHANGED <<hour, Jobs!store, rollups, job>>
    BY <1>1, JobsAssumption DEF Jobs!HourPasses, Jobs!runs, JobsInv, TypesAreRight, Jobs!Hour
  <2>2. TypesAreRight'
    BY <2>1 DEF JobsInv, TypesAreRight, Jobs!store
  <2>3. JobsAreRight'
    <3> SUFFICES ASSUME NEW i \in Instance, NEW k \in 1..Len(job[i].hours)
                 PROVE  job[i].hours[k] < now + 1
      BY <2>1 DEF JobsInv, JobsAreRight, OfHour
    <3>1. job[i].hours \in Seq(Jobs!Hour) /\ job[i].hours[k] < now
      BY DEF JobsInv, JobsAreRight
    <3>2. job[i].hours[k] \in Jobs!Hour
      BY <3>1
    <3>3. \A h \in Jobs!Hour : h < now => h < now + 1
      BY <2>1 DEF Jobs!Hour
    <3> QED BY <3>1, <3>2, <3>3
  <2>4. RollupsAreRight'
    <3>1. \A h \in Jobs!Hour : h < now => h < now'
      BY <2>1 DEF Jobs!Hour
    <3> QED BY <2>1, <3>1 DEF JobsInv, RollupsAreRight, Accounted, OfHour
  <2> QED BY <2>2, <2>3, <2>4 DEF JobsInv
<1>2. ASSUME NEW i \in Instance, NEW p \in Point, Jobs!Track(i, p) PROVE JobsInv'
  <2>1. PICK h \in {now} \cup (IF now > 0 THEN {now - 1} ELSE {}) :
          hour' = [hour EXCEPT ![p] = h]
    BY <1>2 DEF Jobs!Track
  <2>0. h \in Jobs!Hour
    <3>1. now \in 0..MaxHour
      BY DEF JobsInv, TypesAreRight, Jobs!Hour
    <3> QED BY <2>1, <3>1, JobsAssumption DEF Jobs!Hour
  <2>2. h \in Jobs!Hour /\ hour[p] = None /\ UNCHANGED <<now, rollups, job, stored, flight>>
    BY <1>2, <2>0 DEF Jobs!Track, Jobs!runs
  <2>3. \A g \in Jobs!Hour : OfHour(g) \subseteq OfHour(g)'
    BY <2>1, <2>2, NoneIsNoHour DEF OfHour, JobsInv, TypesAreRight
  <2>4. TypesAreRight'
    <3>1. buffer' \in [Instance -> SUBSET Point]
      BY <1>2 DEF Jobs!Track, JobsInv, TypesAreRight
    <3> QED BY <2>1, <2>2, <3>1 DEF JobsInv, TypesAreRight
  <2>5. JobsAreRight'
    <3>1. \A j \in Instance : job[j].at = "write" => Head(job[j].hours) \in Jobs!Hour
      BY DEF JobsInv, JobsAreRight
    <3> QED BY <2>2, <2>3, <3>1 DEF JobsInv, JobsAreRight
  <2>6. RollupsAreRight'
    BY <2>2, <2>3, MorePoints DEF JobsInv, RollupsAreRight
  <2> QED BY <2>4, <2>5, <2>6 DEF JobsInv
<1>3. ASSUME NEW i \in Instance, Jobs!Flush(i) \/ Jobs!Flushed(i) PROVE JobsInv'
  <2>1. /\ UNCHANGED <<now, hour, rollups, job>>
        /\ buffer' = [buffer EXCEPT ![i] = {}] \/ UNCHANGED buffer
        /\ flight' = [flight EXCEPT ![i] = buffer[i]] \/ flight' = [flight EXCEPT ![i] = {}]
        /\ stored' = stored \/ stored' = stored \cup flight[i]
    BY <1>3 DEF Jobs!Flush, Jobs!Flushed, Jobs!runs
  <2>2. TypesAreRight'
    BY <2>1 DEF JobsInv, TypesAreRight
  <2> QED BY <2>1, <2>2 DEF JobsInv, JobsAreRight, RollupsAreRight, Accounted, OfHour
<1>4. ASSUME NEW i \in Instance, Jobs!Boot(i) PROVE JobsInv'
  <2>1. CASE Jobs!Begin(i, BootHours)
    BY <2>1, BeginKeeps, JobsAssumption
  <2>2. CASE UNCHANGED <<now, hour, edge, Jobs!store, rollups, Jobs!runs, stops>>
    BY <2>2 DEF JobsInv, TypesAreRight, JobsAreRight, RollupsAreRight, Accounted, OfHour, Jobs!store, Jobs!runs
  <2> QED BY <1>4, <2>1, <2>2 DEF Jobs!Boot
<1>5. ASSUME NEW i \in Instance, Jobs!Tick(i) PROVE JobsInv'
  BY <1>5, BeginKeeps DEF Jobs!Tick
<1>6. ASSUME NEW i \in Instance, Jobs!Read(i) PROVE JobsInv'
  <2>0. job[i].at = "read" /\ UNCHANGED <<now, hour, Jobs!store, rollups>>
    BY <1>6 DEF Jobs!Read
  <2>1. PICK got \in {{}, Jobs!InHour(Head(job[i].hours))} :
          Jobs!Turn(i, IF got = {} THEN "read" ELSE "write", got)
    BY <1>6 DEF Jobs!Read
  <2>2. got \in SUBSET Point /\ got \subseteq OfHour(Head(job[i].hours))
    BY <2>1 DEF Jobs!InHour, OfHour, JobsInv, TypesAreRight
  <2>3. /\ job' \in [Instance -> [at : {"idle", "read", "write", "release"},
                                  hours : Seq(Jobs!Hour), got : SUBSET Point]]
        /\ JobsAreRight'
    BY <2>0, <2>1, <2>2, TurnKeeps
  <2>4. TypesAreRight' /\ RollupsAreRight'
    BY <2>0, <2>3 DEF JobsInv, TypesAreRight, RollupsAreRight, Accounted, OfHour, Jobs!store
  <2> QED BY <2>3, <2>4 DEF JobsInv
<1>7. ASSUME NEW i \in Instance, Jobs!Write(i) PROVE JobsInv'
  <2> DEFINE h == Head(job[i].hours)
             r == Jobs!aggregateRollups(job[i].got)
  <2>1. /\ job[i].at = "write" /\ Jobs!Turn(i, "read", {})
        /\ rollups' = rollups \/ rollups' = [rollups EXCEPT ![h] = r]
        /\ UNCHANGED <<now, hour, Jobs!store>>
    BY <1>7 DEF Jobs!Write, Jobs!Upsert
  <2>2. h \in Jobs!Hour /\ h < now /\ job[i].got \in SUBSET OfHour(h)
    BY <2>1 DEF JobsInv, JobsAreRight
  <2>3. Accounted(h, r) /\ r \in [count : Nat, errors : Nat]
    BY <2>2, AggregateIsRight
  <2>4. /\ job' \in [Instance -> [at : {"idle", "read", "write", "release"},
                                  hours : Seq(Jobs!Hour), got : SUBSET Point]]
        /\ JobsAreRight'
    BY <2>1, TurnKeeps
  <2>5. TypesAreRight'
    BY <2>1, <2>2, <2>3, <2>4 DEF JobsInv, TypesAreRight, Jobs!store
  <2>6. \A g \in Jobs!Hour : rollups'[g] = rollups[g] \/ (g = h /\ rollups'[g] = r)
    BY <2>1, <2>2 DEF JobsInv, TypesAreRight
  <2>7. \A g \in Jobs!Hour : rollups'[g] # None => g < now /\ Accounted(g, rollups'[g])
    BY <2>2, <2>3, <2>6 DEF JobsInv, RollupsAreRight
  <2>8. RollupsAreRight'
    BY <2>1, <2>7 DEF RollupsAreRight, Accounted, OfHour
  <2> QED BY <2>4, <2>5, <2>8 DEF JobsInv
<1>8. ASSUME NEW i \in Instance, Jobs!Release(i) \/ Jobs!Stop(i) PROVE JobsInv'
  <2>1. /\ UNCHANGED <<now, hour, rollups>>
        /\ job' = [job EXCEPT ![i] = Jobs!Idle]
    BY <1>8 DEF Jobs!Release, Jobs!Stop
  <2>2. /\ stored' \subseteq Point
        /\ buffer' \in [Instance -> SUBSET Point] /\ flight' \in [Instance -> SUBSET Point]
    <3>1. CASE Jobs!Release(i)
      BY <3>1 DEF Jobs!Release, Jobs!store, JobsInv, TypesAreRight
    <3>2. CASE Jobs!Stop(i)
      <4>1. /\ buffer' = [buffer EXCEPT ![i] = {}] /\ flight' = [flight EXCEPT ![i] = {}]
            /\ \/ stored' = stored \cup {} \/ stored' = stored \cup flight[i]
               \/ stored' = stored \cup buffer[i]
        BY <3>2 DEF Jobs!Stop
      <4> QED BY <4>1 DEF JobsInv, TypesAreRight
    <3> QED BY <1>8, <3>1, <3>2
  <2>3. Jobs!Idle \in [at : {"idle", "read", "write", "release"}, hours : Seq(Jobs!Hour), got : SUBSET Point]
        /\ Jobs!Idle.at = "idle" /\ Jobs!Idle.hours = <<>> /\ \A k \in 1..Len(<<>>) : FALSE
    BY DEF Jobs!Idle
  <2>4. TypesAreRight'
    BY <2>1, <2>2, <2>3 DEF JobsInv, TypesAreRight
  <2>5. JobsAreRight'
    BY <2>1, <2>3 DEF JobsInv, TypesAreRight, JobsAreRight, OfHour
  <2> QED BY <2>1, <2>4, <2>5 DEF JobsInv, RollupsAreRight, Accounted, OfHour
<1>9. CASE Jobs!LeaseExpires \/ UNCHANGED Jobs!vars
  <2>1. UNCHANGED <<now, hour, Jobs!store, rollups, job>>
    BY <1>9 DEF Jobs!LeaseExpires, Jobs!vars, Jobs!runs
  <2> QED BY <2>1 DEF JobsInv, TypesAreRight, JobsAreRight, RollupsAreRight, Accounted, OfHour, Jobs!store
<1>10. ASSUME NEW i \in Instance, Jobs!Prune(i) PROVE JobsInv'
  <2>1. /\ UNCHANGED <<now, hour, buffer, flight, job>> /\ stored' \subseteq stored
        /\ \/ rollups' = rollups
           \/ rollups' = [h \in Jobs!Hour |-> IF h + RollupRetain < now THEN None ELSE rollups[h]]
    BY <1>10 DEF Jobs!Prune, Jobs!runs
  <2>2. \A h \in Jobs!Hour : rollups'[h] \in {None, rollups[h]}
    BY <2>1
  <2>3. rollups' \in [Jobs!Hour -> [count : Nat, errors : Nat] \cup {None}]
    BY <2>1 DEF JobsInv, TypesAreRight
  <2>4. TypesAreRight'
    BY <2>1, <2>3 DEF JobsInv, TypesAreRight
  <2> QED BY <2>1, <2>2, <2>4 DEF JobsInv, JobsAreRight, RollupsAreRight, Accounted, OfHour
<1> QED BY <1>1, <1>2, <1>3, <1>4, <1>5, <1>6, <1>7, <1>8, <1>9, <1>10 DEF Jobs!Next

-----------------------------------------------------------------------------
(* What an hour had counted stays *)

\* The points of the hour are not old enough to be pruned.
Kept(h) == h + Retain >= now

\* While the lock has held, the run that goes on is that of its holder.
OneAtATime ==
    /\ lease \in Instance \cup {None}
    /\ ~unlocked => \A i \in Instance : job[i].at # "idle" => lease = i

\* A rollup counts no more points than there still are.
CountsStand ==
    \A h \in Jobs!Hour :
      rollups[h] # None /\ Kept(h) => rollups[h].count <= Cardinality(Jobs!InHour(h))

\* What a run is about to write has been read, is there still, and counts no
\* less than what it replaces.
ReadsStand ==
    \A i \in Instance :
      LET h == Head(job[i].hours)
      IN  job[i].at = "write" /\ Kept(h) =>
            /\ job[i].got \subseteq Jobs!InHour(h)
            /\ ~unlocked /\ rollups[h] # None => rollups[h].count <= Cardinality(job[i].got)

GrowInv == OneAtATime /\ CountsStand /\ ReadsStand

LEMMA InitGrow == ASSUME Jobs!Init PROVE GrowInv
BY DEF Jobs!Init, GrowInv, OneAtATime, CountsStand, ReadsStand, Jobs!Idle

\* A point that is stored stays in its hour as long as it is kept.
LEMMA PointsStay ==
    ASSUME JobsInv, Jobs!Next, NEW h \in Jobs!Hour, Kept(h)'
    PROVE  Kept(h) /\ Jobs!InHour(h) \subseteq Jobs!InHour(h)'
<1>1. edge' = edge
  BY DEF Jobs!Next, Jobs!HourPasses, Jobs!LeaseExpires, Jobs!Track, Jobs!Flush, Jobs!Flushed,
         Jobs!Boot, Jobs!Tick, Jobs!Begin, Jobs!Read, Jobs!Write, Jobs!Release, Jobs!Prune, Jobs!Stop
<1>2. Kept(h)
  <2>1. now' = now \/ now' = now + 1
    BY DEF Jobs!Next, Jobs!HourPasses, Jobs!LeaseExpires, Jobs!Track, Jobs!Flush, Jobs!Flushed,
           Jobs!Boot, Jobs!Tick, Jobs!Begin, Jobs!Read, Jobs!Write, Jobs!Release, Jobs!Prune, Jobs!Stop
  <2>2. h \in Nat /\ now \in Nat /\ Retain \in Nat
    BY JobsAssumption DEF JobsInv, TypesAreRight, Jobs!Hour
  <2> QED BY <2>1, <2>2 DEF Kept
<1>3. ASSUME NEW i \in Instance, NEW p \in Point, Jobs!Track(i, p)
      PROVE  Jobs!InHour(h) \subseteq Jobs!InHour(h)'
  <2>1. PICK g : hour' = [hour EXCEPT ![p] = g]
    BY <1>3 DEF Jobs!Track
  <2>2. hour[p] = None /\ stored' = stored
    BY <1>3 DEF Jobs!Track
  <2>3. h # None /\ hour \in [Point -> Jobs!Hour \cup {None}] /\ stored \subseteq Point
    BY NoneIsNoHour DEF JobsInv, TypesAreRight
  <2> QED BY <1>1, <2>1, <2>2, <2>3 DEF Jobs!InHour
<1>4. ASSUME NEW i \in Instance, Jobs!Prune(i)
      PROVE  Jobs!InHour(h) \subseteq Jobs!InHour(h)'
  BY <1>1, <1>2, <1>4 DEF Jobs!Prune, Jobs!InHour, Kept
<1>5. ASSUME stored \subseteq stored', hour' = hour
      PROVE  Jobs!InHour(h) \subseteq Jobs!InHour(h)'
  <2> SUFFICES ASSUME NEW p \in Jobs!InHour(h) PROVE p \in Jobs!InHour(h)'
    OBVIOUS
  <2>1. p \in stored /\ hour[p] = h /\ p \notin edge
    BY DEF Jobs!InHour
  <2>2. p \in stored' /\ hour'[p] = h /\ p \notin edge'
    BY <1>1, <1>5, <2>1
  <2> QED BY <2>2 DEF Jobs!InHour
<1>6. \/ stored \subseteq stored' /\ hour' = hour
      \/ \E i \in Instance : Jobs!Prune(i) \/ \E p \in Point : Jobs!Track(i, p)
  BY DEF Jobs!Next, Jobs!HourPasses, Jobs!LeaseExpires, Jobs!Flush, Jobs!Flushed, Jobs!Boot,
         Jobs!Tick, Jobs!Begin, Jobs!Read, Jobs!Write, Jobs!Release, Jobs!Stop, Jobs!store
<1> QED BY <1>2, <1>3, <1>4, <1>5, <1>6

\* A set of points of an hour is as large as what has been counted of it, or larger.
LEMMA PointsCount ==
    ASSUME JobsInv, NEW h \in Jobs!Hour, NEW ps, ps \subseteq Jobs!InHour(h)
    PROVE  /\ Cardinality(ps) <= Cardinality(Jobs!InHour(h))
           /\ Cardinality(ps) \in Nat /\ Cardinality(Jobs!InHour(h)) \in Nat
<1>1. IsFiniteSet(Jobs!InHour(h))
  BY FS_Subset, JobsAssumption DEF Jobs!InHour, JobsInv, TypesAreRight
<1> QED BY <1>1, FS_Subset, FS_CardinalityType

\* A step that reads and writes no rollup disturbs none.
LEMMA OthersGrow ==
    ASSUME JobsInv, GrowInv, Jobs!Next, OneAtATime', unlocked => unlocked',
           \A i \in Instance : job'[i].at = "write" => job'[i] = job[i],
           \A h \in Jobs!Hour : rollups'[h] \in {None, rollups[h]}
    PROVE  GrowInv'
<1>1. CountsStand'
  <2> SUFFICES ASSUME NEW h \in Jobs!Hour, rollups'[h] # None, Kept(h)'
               PROVE  rollups'[h].count <= Cardinality(Jobs!InHour(h)')
    BY DEF CountsStand
  <2>1. Kept(h) /\ Jobs!InHour(h) \subseteq Jobs!InHour(h)'
    BY PointsStay
  <2>2. IsFiniteSet(Jobs!InHour(h)')
    <3>1. JobsInv'
      BY NextJobs
    <3> QED BY <3>1, FS_Subset, JobsAssumption DEF Jobs!InHour, JobsInv, TypesAreRight
  <2>3. /\ Cardinality(Jobs!InHour(h)) <= Cardinality(Jobs!InHour(h)')
        /\ Cardinality(Jobs!InHour(h)) \in Nat /\ Cardinality(Jobs!InHour(h)') \in Nat
    BY <2>1, <2>2, FS_Subset, FS_CardinalityType
  <2>4. rollups'[h] = rollups[h] /\ rollups[h].count <= Cardinality(Jobs!InHour(h))
    BY <2>1 DEF GrowInv, CountsStand
  <2>5. rollups[h].count \in Nat
    BY <2>4 DEF JobsInv, TypesAreRight
  <2> QED BY <2>3, <2>4, <2>5
<1>2. ReadsStand'
  <2> SUFFICES ASSUME NEW i \in Instance, NEW h, job'[i].at = "write", h = Head(job'[i].hours),
                      Kept(h)'
               PROVE  /\ job'[i].got \subseteq Jobs!InHour(h)'
                      /\ ~unlocked' /\ rollups'[h] # None =>
                           rollups'[h].count <= Cardinality(job'[i].got)
    BY DEF ReadsStand
  <2>1. job'[i] = job[i] /\ h \in Jobs!Hour
    BY DEF JobsInv, JobsAreRight
  <2>2. Kept(h) /\ Jobs!InHour(h) \subseteq Jobs!InHour(h)'
    BY <2>1, PointsStay
  <2> QED BY <2>1, <2>2 DEF GrowInv, ReadsStand
<1> QED BY <1>1, <1>2 DEF GrowInv

\* What is read is counted, what is written was read under the same lock.
LEMMA NextGrow == ASSUME JobsInv, GrowInv, Jobs!Next PROVE GrowInv'
<1> USE DEF GrowInv
<1>0. /\ job \in [Instance -> [at : {"idle", "read", "write", "release"},
                               hours : Seq(Jobs!Hour), got : SUBSET Point]]
      /\ JobsInv'
  BY NextJobs DEF JobsInv, TypesAreRight
<1>1. ASSUME NEW i \in Instance, NEW n, Jobs!Begin(i, n) PROVE GrowInv'
  <2>1. /\ UNCHANGED rollups
        /\ \E hs, at : at # "write" /\ job' = [job EXCEPT ![i] = [at |-> at, hours |-> hs, got |-> {}]]
    <3>1. (IF Jobs!PreviousHours(n) = <<>> THEN "release" ELSE "read") # "write"
      OBVIOUS
    <3> QED BY <1>1, <3>1 DEF Jobs!Begin
  <2>2. \A j \in Instance : job'[j].at = "write" => job'[j] = job[j]
    BY <1>0, <2>1
  <2>3. OneAtATime'
    BY <1>0, <1>1, <2>1, JobsAssumption DEF OneAtATime, Jobs!Begin, Jobs!Acquire
  <2>4. unlocked => unlocked'
    BY <1>1 DEF Jobs!Begin, Jobs!Acquire
  <2> QED BY <2>1, <2>2, <2>3, <2>4, OthersGrow
<1>2. ASSUME NEW i \in Instance, Jobs!Read(i) PROVE GrowInv'
  <2> DEFINE g == Head(job[i].hours)
  <2>1. /\ job[i].at = "read" /\ g \in Jobs!Hour
        /\ UNCHANGED <<now, hour, edge, stored, rollups, lease, unlocked>>
    BY <1>2 DEF Jobs!Read, Jobs!store, JobsInv, JobsAreRight
  <2>2. PICK got \in {{}, Jobs!InHour(g)} : Jobs!Turn(i, IF got = {} THEN "read" ELSE "write", got)
    BY <1>2 DEF Jobs!Read
  <2>3. OneAtATime'
    <3>1. \A j \in Instance : job'[j].at # "idle" => job[j].at # "idle"
      BY <1>0, <2>1, <2>2 DEF Jobs!Turn
    <3> QED BY <2>1, <3>1 DEF OneAtATime
  <2>4. CountsStand'
    BY <2>1 DEF CountsStand, Kept, Jobs!InHour
  <2>5. ReadsStand'
    <3> SUFFICES ASSUME NEW j \in Instance, NEW h, job'[j].at = "write", h = Head(job'[j].hours),
                        Kept(h)
                 PROVE  /\ job'[j].got \subseteq Jobs!InHour(h)
                        /\ ~unlocked /\ rollups[h] # None =>
                             rollups[h].count <= Cardinality(job'[j].got)
      BY <2>1 DEF ReadsStand, Kept, Jobs!InHour
    <3>1. CASE job'[j] = job[j]
      BY <3>1 DEF ReadsStand
    <3>2. CASE job'[j] # job[j]
      <4>1. j = i /\ job' = [job EXCEPT ![i] = [@ EXCEPT !.at = "write", !.got = got]] /\ got # {}
        <5>1. CASE got = {}
          BY <1>0, <2>2, <3>2, <5>1 DEF Jobs!Turn
        <5>2. CASE got # {}
          BY <1>0, <2>2, <3>2, <5>2 DEF Jobs!Turn
        <5> QED BY <5>1, <5>2
      <4>2. h = g /\ job'[j].got = Jobs!InHour(g)
        BY <1>0, <2>2, <4>1
      <4> QED BY <2>1, <4>2 DEF CountsStand
    <3> QED BY <3>1, <3>2
  <2> QED BY <2>3, <2>4, <2>5
<1>3. ASSUME NEW i \in Instance, Jobs!Write(i) PROVE GrowInv'
  <2> DEFINE g == Head(job[i].hours)
             r == Jobs!aggregateRollups(job[i].got)
  <2>1. /\ job[i].at = "write" /\ g \in Jobs!Hour
        /\ UNCHANGED <<now, hour, edge, stored, lease, unlocked>>
        /\ Jobs!Turn(i, "read", {})
        /\ rollups' = rollups \/ rollups' = [rollups EXCEPT ![g] = r]
    BY <1>3 DEF Jobs!Write, Jobs!Upsert, Jobs!store, JobsInv, JobsAreRight
  <2>2. \A j \in Instance :
          /\ job'[j].at # "idle" => job[j].at # "idle"
          /\ job'[j].at = "write" => j # i /\ job'[j] = job[j]
    BY <1>0, <2>1 DEF Jobs!Turn
  <2>3. OneAtATime'
    BY <2>1, <2>2 DEF OneAtATime
  <2>4. \A h \in Jobs!Hour : rollups'[h] = rollups[h] \/ (h = g /\ rollups'[h] = r)
    BY <2>1 DEF JobsInv, TypesAreRight
  <2>5. r.count = Cardinality(job[i].got)
    BY JobsCardinality DEF Jobs!aggregateRollups
  <2>6. Kept(g) => r.count <= Cardinality(Jobs!InHour(g))
    BY <2>1, <2>5, PointsCount DEF ReadsStand
  <2>7. CountsStand'
    <3> SUFFICES ASSUME NEW h \in Jobs!Hour, rollups'[h] # None, Kept(h)
                 PROVE  rollups'[h].count <= Cardinality(Jobs!InHour(h))
      BY <2>1 DEF CountsStand, Kept, Jobs!InHour
    <3> QED BY <2>4, <2>6 DEF CountsStand
  <2>8. ReadsStand'
    <3> SUFFICES ASSUME NEW j \in Instance, NEW h, job'[j].at = "write", h = Head(job'[j].hours),
                        Kept(h)
                 PROVE  /\ job'[j].got \subseteq Jobs!InHour(h)
                        /\ ~unlocked /\ rollups'[h] # None =>
                             rollups'[h].count <= Cardinality(job'[j].got)
      BY <2>1 DEF ReadsStand, Kept, Jobs!InHour
    <3>1. j # i /\ job'[j] = job[j] /\ unlocked
      BY <2>1, <2>2 DEF OneAtATime
    <3> QED BY <3>1 DEF ReadsStand
  <2> QED BY <2>3, <2>7, <2>8
<1>4. ASSUME NEW i \in Instance, Jobs!Release(i) \/ Jobs!Stop(i) PROVE GrowInv'
  <2>1. /\ job' = [job EXCEPT ![i] = Jobs!Idle] /\ UNCHANGED <<rollups, unlocked>>
        /\ lease' = lease \/ (lease = i /\ lease' = None)
    BY <1>4 DEF Jobs!Release, Jobs!Stop
  <2>2. \A j \in Instance : \/ j = i /\ job'[j].at = "idle"
                            \/ j # i /\ job'[j] = job[j]
    <3>1. Jobs!Idle.at = "idle"
      BY DEF Jobs!Idle
    <3> QED BY <1>0, <2>1, <3>1
  <2>3. OneAtATime'
    BY <2>1, <2>2 DEF OneAtATime
  <2> QED BY <2>1, <2>2, <2>3, OthersGrow
<1>5. CASE Jobs!LeaseExpires
  <2>1. OneAtATime' /\ UNCHANGED <<rollups, job>> /\ (unlocked => unlocked')
    BY <1>5 DEF Jobs!LeaseExpires, OneAtATime
  <2> QED BY <2>1, OthersGrow
<1>6. ASSUME UNCHANGED <<job, lease, unlocked>>,
             \A h \in Jobs!Hour : rollups'[h] \in {None, rollups[h]}
      PROVE  GrowInv'
  BY <1>6, OthersGrow DEF OneAtATime
<1>7. ASSUME NEW i \in Instance, Jobs!Prune(i) PROVE GrowInv'
  BY <1>6, <1>7 DEF Jobs!Prune, Jobs!runs
<1>8. CASE Jobs!HourPasses \/ UNCHANGED <<job, rollups, lease, unlocked>>
  BY <1>6, <1>8 DEF Jobs!HourPasses, Jobs!runs
<1>9. \/ Jobs!LeaseExpires \/ UNCHANGED <<job, rollups, lease, unlocked>>
      \/ \E i \in Instance : \/ \E n : Jobs!Begin(i, n)
                            \/ Jobs!Read(i) \/ Jobs!Write(i) \/ Jobs!Release(i)
                            \/ Jobs!Prune(i) \/ Jobs!Stop(i)
  BY DEF Jobs!Next, Jobs!HourPasses, Jobs!Track, Jobs!Flush, Jobs!Flushed, Jobs!Boot, Jobs!Tick,
         Jobs!runs
<1> QED BY <1>1, <1>2, <1>3, <1>4, <1>5, <1>7, <1>8, <1>9

\* A rollup is lost, or counts less, only by pruning or once a lock has failed.
LEMMA GrowStep ==
    ASSUME JobsInv, GrowInv, Jobs!Next, NEW h \in Jobs!Hour, rollups[h] # None, ~unlocked,
           Kept(h), h + RollupRetain >= now
    PROVE  rollups'[h] # None /\ rollups'[h].count >= rollups[h].count
<1>0. rollups[h] \in [count : Nat, errors : Nat]
  BY DEF JobsInv, TypesAreRight
<1>1. ASSUME NEW i \in Instance, Jobs!Write(i)
      PROVE  rollups'[h] # None /\ rollups'[h].count >= rollups[h].count
  <2> DEFINE g == Head(job[i].hours)
             r == Jobs!aggregateRollups(job[i].got)
  <2>1. /\ job[i].at = "write" /\ g \in Jobs!Hour
        /\ rollups' = rollups \/ rollups' = [rollups EXCEPT ![g] = r]
    BY <1>1 DEF Jobs!Write, Jobs!Upsert, JobsInv, JobsAreRight
  <2>2. CASE rollups'[h] = rollups[h]
    BY <1>0, <2>2
  <2>3. CASE rollups'[h] # rollups[h]
    <3>1. h = g /\ rollups'[h] = r
      BY <2>1, <2>3 DEF JobsInv, TypesAreRight
    <3>2. job[i].got \subseteq Jobs!InHour(h) /\ rollups[h].count <= Cardinality(job[i].got)
      BY <2>1, <3>1 DEF GrowInv, ReadsStand
    <3>3. r.count = Cardinality(job[i].got)
      BY JobsCardinality DEF Jobs!aggregateRollups
    <3>4. Cardinality(job[i].got) \in Nat
      BY <3>2, PointsCount
    <3>5. rollups'[h] # None
      <4>1. r \in [count : Nat, errors : Nat]
        BY <3>2, PointsCount, FS_Subset, FS_CardinalityType, JobsCardinality
           DEF Jobs!aggregateRollups
      <4> QED BY <3>1, <4>1, JobsAssumption
    <3> QED BY <1>0, <3>1, <3>2, <3>3, <3>4, <3>5
  <2> QED BY <2>2, <2>3
<1>2. ASSUME NEW i \in Instance, Jobs!Prune(i)
      PROVE  rollups'[h] # None /\ rollups'[h].count >= rollups[h].count
  <2>1. h \in Nat /\ now \in Nat /\ RollupRetain \in Nat
    BY JobsAssumption DEF JobsInv, TypesAreRight, Jobs!Hour
  <2>2. rollups'[h] = rollups[h]
    BY <1>2, <2>1 DEF Jobs!Prune
  <2> QED BY <1>0, <2>2
<1>3. CASE rollups' = rollups
  BY <1>0, <1>3
<1>4. rollups' = rollups \/ \E i \in Instance : Jobs!Write(i) \/ Jobs!Prune(i)
  BY DEF Jobs!Next, Jobs!HourPasses, Jobs!LeaseExpires, Jobs!Track, Jobs!Flush, Jobs!Flushed,
         Jobs!Boot, Jobs!Tick, Jobs!Begin, Jobs!Read, Jobs!Release, Jobs!Stop
<1> QED BY <1>1, <1>2, <1>3, <1>4

-----------------------------------------------------------------------------
(* The system *)

OpsInv == GrantsInv /\ Serial /\ JobsInv /\ GrowInv

LEMMA InitOps == OpsInit => OpsInv
BY InitGrants, InitSerial, InitJobs, InitGrow DEF OpsInit, OpsInv

LEMMA GrantsStandStill ==
    ASSUME UNCHANGED vars PROVE (GrantsInv => GrantsInv') /\ (Serial => Serial')
BY DEF vars, GrantsInv, Documents, Meant, NoEmptyRecord, Serial

LEMMA JobsStandStill == ASSUME JobsInv, GrowInv, UNCHANGED jobsVars PROVE JobsInv' /\ GrowInv'
<1>1. JobsInv'
  BY DEF jobsVars, JobsInv, TypesAreRight, JobsAreRight, RollupsAreRight, Accounted, OfHour
<1>2. GrowInv'
  BY DEF jobsVars, GrowInv, OneAtATime, CountsStand, ReadsStand, Kept, Jobs!InHour
<1> QED BY <1>1, <1>2

\* What the parts keep, the system keeps: they share no state.
LEMMA NextOps == OpsInv /\ [OpsNext]_opsVars => OpsInv'
<1> SUFFICES ASSUME OpsInv, [OpsNext]_opsVars PROVE OpsInv'
  OBVIOUS
<1> USE DEF OpsInv
<1>1. CASE GrantsStep
  BY <1>1, NextGrants, NextSerial, JobsStandStill DEF GrantsStep, SerialInv
<1>2. CASE JobsStep
  BY <1>2, NextJobs, NextGrow, GrantsStandStill DEF JobsStep
<1>3. CASE ScaffoldStep \/ UNCHANGED opsVars
  <2>1. UNCHANGED vars /\ UNCHANGED jobsVars
    BY <1>3 DEF ScaffoldStep, opsVars
  <2> QED BY <2>1, GrantsStandStill, JobsStandStill
<1> QED BY <1>1, <1>2, <1>3 DEF OpsNext

\* A record is deleted with its last role, even when the calls that added and
\* removed roles wrote what other calls had overtaken.
THEOREM RecordsHaveRoles == OpsSpec => []NoEmptyRecord
<1>1. OpsInit => OpsInv
  BY InitOps
<1>2. OpsInv /\ [OpsNext]_opsVars => OpsInv'
  BY NextOps
<1>3. OpsInv => NoEmptyRecord
  BY DEF OpsInv, GrantsInv
<1> QED BY <1>1, <1>2, <1>3, PTL DEF OpsSpec

\* Grants and revokes that do not overlap have the effect their names promise:
\* the roles are those of the calls, one after the other.
THEOREM CallsAddUp == OpsSpec => []RolesAddUp
<1>1. OpsInit => OpsInv
  BY InitOps
<1>2. OpsInv /\ [OpsNext]_opsVars => OpsInv'
  BY NextOps
<1>3. OpsInv => RolesAddUp
  BY DEF OpsInv, Serial, RolesAddUp, Held
<1> QED BY <1>1, <1>2, <1>3, PTL DEF OpsSpec

\* They keep all of it in a single record.
THEOREM OneRecord == OpsSpec => []SingleRecord
<1>1. OpsInit => OpsInv
  BY InitOps
<1>2. OpsInv /\ [OpsNext]_opsVars => OpsInv'
  BY NextOps
<1>3. OpsInv => SingleRecord
  BY DEF OpsInv, Serial, SingleRecord
<1> QED BY <1>1, <1>2, <1>3, PTL DEF OpsSpec

\* A rollup never counts a point twice, nor an hour that goes on, whether or
\* not the lock keeps the runs apart.
THEOREM RollupsAreSound == OpsSpec => []RollupsSound
<1>1. OpsInit => OpsInv
  BY InitOps
<1>2. OpsInv /\ [OpsNext]_opsVars => OpsInv'
  BY NextOps
<1>3. OpsInv => RollupsSound
  BY JobsCardinality DEF OpsInv, JobsInv, RollupsAreRight, Accounted, OfHour, RollupsSound, Jobs!RollupsSound
<1> QED BY <1>1, <1>2, <1>3, PTL DEF OpsSpec

\* Aggregating an hour again never loses what its rollup had counted, as long as
\* the lock keeps the runs apart: whatever queries and writes fail, whichever
\* points are late, and whoever restarts meanwhile.
THEOREM RollupsGrow == OpsSpec => RollupsOnlyGrow
<1>1. OpsInit => OpsInv
  BY InitOps
<1>2. OpsInv /\ [OpsNext]_opsVars => OpsInv'
  BY NextOps
<1>3. ASSUME OpsInv, [OpsNext]_opsVars
      PROVE  [\A h \in Jobs!Hour :
                /\ rollups[h] # None /\ ~unlocked
                /\ h + Retain >= now /\ h + RollupRetain >= now
                => rollups'[h] # None /\ rollups'[h].count >= rollups[h].count]_Jobs!vars
  <2>1. CASE JobsStep
    BY <1>3, <2>1, GrowStep DEF JobsStep, OpsInv, Kept
  <2>2. CASE UNCHANGED jobsVars
    BY <2>2 DEF jobsVars, Jobs!vars, Jobs!store, Jobs!runs
  <2> QED BY <1>3, <2>1, <2>2 DEF OpsNext, GrantsStep, ScaffoldStep, opsVars
<1>4. OpsInv /\ [OpsNext]_opsVars =>
        [\A h \in Jobs!Hour :
           /\ rollups[h] # None /\ ~unlocked
           /\ h + Retain >= now /\ h + RollupRetain >= now
           => rollups'[h] # None /\ rollups'[h].count >= rollups[h].count]_Jobs!vars
  BY <1>3
<1> QED BY <1>1, <1>2, <1>4, PTL DEF OpsSpec, RollupsOnlyGrow, Jobs!RollupsOnlyGrow

=============================================================================
