--------------------------- MODULE GatewayProofs ---------------------------
(***************************************************************************)
(* The HTTP and the WebSocket side of a gateway process, for every set of  *)
(* requests, paths, events and providers: a slot is held exactly while a   *)
(* response is open, a success was earned, and a client is subscribed to   *)
(* what it is entitled to.  The results about its broker connection follow *)
(* from those of BrokerCallsProofs.                                        *)
(***************************************************************************)
EXTENDS Gateway, BrokerCallsProofs, FiniteSetTheorems

USE GatewayAssumption DEF Http!outside

\* The Cardinality of the instances is that of FiniteSets.
LEMMA HttpCardinality == \A S : Http!Cardinality(S) = Cardinality(S)
BY DEF Http!Cardinality, Cardinality

LEMMA WsCardinality == \A S : Ws!Cardinality(S) = Cardinality(S)
BY DEF Ws!Cardinality, Cardinality

-----------------------------------------------------------------------------
(* The cap of HttpGate *)

\* A request that has not arrived has nothing; one that was admitted has a
\* response, and its slot until that is finished or closed.
Slots ==
    /\ admitted \subseteq Req /\ IsFiniteSet(admitted)
    /\ released \subseteq admitted
    /\ socket \in [Req -> {"none", "open", "finished", "closed"}]
    /\ stage \in [Req -> {"none", "auth", "body", "acl", "call", "over"}]
    /\ \A r \in Req : stage[r] = "none" => r \notin admitted
    /\ \A r \in admitted : socket[r] # "none" /\ (r \in released <=> socket[r] # "open")

\* inFlight counts the slots that are held.
Counted ==
    /\ inFlight = Cardinality(admitted \ released)
    /\ inFlight <= Cap

HeldInv == Slots /\ Counted

\* The slots that are held are those of the open responses.
LEMMA HeldAreOpen ==
    ASSUME HeldInv PROVE InFlightExact
<1>1. admitted \ released = {r \in admitted : socket[r] = "open"}
  BY DEF HeldInv, Slots
<1> QED BY <1>1, HttpCardinality DEF HeldInv, Counted, InFlightExact, Http!InFlightExact

\* release gives back the slot of r, if it is still held.
LEMMA ReleaseKeeps ==
    ASSUME HeldInv, NEW r \in Req, Http!release(r), stage' = stage,
           socket[r] \in {"open", "finished"},
           NEW s \in {"finished", "closed"}, socket' = [socket EXCEPT ![r] = s]
    PROVE  HeldInv'
<1>1. CASE r \in admitted \ released
  <2>1. /\ inFlight' = inFlight - 1 /\ admitted' = admitted
        /\ released' = released \cup {r}
    BY <1>1 DEF Http!release
  <2>2. Slots'
    BY <1>1, <2>1 DEF HeldInv, Slots
  <2>3. IsFiniteSet(admitted \ released)
    BY FS_Subset DEF HeldInv, Slots
  <2>4. /\ Cardinality((admitted \ released) \ {r}) = Cardinality(admitted \ released) - 1
        /\ Cardinality(admitted \ released) \in Nat
    BY <1>1, <2>3, FS_RemoveElement, FS_CardinalityType
  <2>5. admitted' \ released' = (admitted \ released) \ {r}
    BY <2>1
  <2>6. inFlight \in Nat /\ inFlight = Cardinality(admitted \ released) /\ inFlight <= Cap
    BY <2>4 DEF HeldInv, Counted
  <2>7. inFlight' = Cardinality(admitted' \ released') /\ inFlight' <= Cap
    <3>1. Cardinality(admitted' \ released') = Cardinality(admitted \ released) - 1
      BY <2>4, <2>5, Zenon
    <3>2. inFlight - 1 <= Cap
      BY <2>6
    <3> QED BY <2>1, <2>6, <3>1, <3>2, Zenon
  <2>8. Counted'
    BY <2>7 DEF Counted
  <2> QED BY <2>2, <2>8 DEF HeldInv
<1>2. CASE r \notin admitted \ released
  <2>1. UNCHANGED Http!gate
    BY <1>2 DEF Http!release
  <2>2. Slots'
    BY <1>2, <2>1 DEF Http!gate, HeldInv, Slots
  <2>3. Counted'
    BY <2>1 DEF Http!gate, HeldInv, Counted
  <2> QED BY <2>2, <2>3 DEF HeldInv
<1> QED BY <1>1, <1>2

\* A step of a handler that goes on or comes to its answer holds on to the slot.
LEMMA GoingOnKeeps ==
    ASSUME HeldInv, UNCHANGED <<Http!gate, socket>>, NEW r \in Req, stage[r] # "none",
           NEW s \in {"body", "acl", "call", "over"}, stage' = [stage EXCEPT ![r] = s]
    PROVE  HeldInv'
BY DEF HeldInv, Slots, Counted, Http!gate

LEMMA InitHeld == ASSUME Http!Init PROVE HeldInv
<1>1. IsFiniteSet({}) /\ Cardinality({} \ {}) = 0
  BY FS_EmptySet
<1> QED BY <1>1 DEF Http!Init, HeldInv, Slots, Counted

LEMMA NextHeld == ASSUME HeldInv, Http!Next PROVE HeldInv'
<1>1. ASSUME NEW ps \in SUBSET HttpProvider, Http!ReloadProviders(ps) PROVE HeldInv'
  BY <1>1 DEF Http!ReloadProviders, HeldInv, Slots, Counted, Http!gate
<1>2. ASSUME NEW r \in Req, NEW p \in Path, Http!Arrive(r, p) PROVE HeldInv'
  <2>1. stage[r] = "none" /\ r \notin admitted /\ socket' = [socket EXCEPT ![r] = "open"]
    BY <1>2 DEF Http!Arrive, HeldInv, Slots
  <2>2. CASE Http!Shed(r, p)
    BY <2>1, <2>2 DEF Http!Shed, Http!Answer, Http!gate, HeldInv, Slots, Counted
  <2>3. CASE Http!Admit(r, p)
    <3>1. /\ inFlight < Cap /\ inFlight' = inFlight + 1
          /\ admitted' = admitted \cup {r} /\ released' = released
          /\ stage' = [stage EXCEPT ![r] = "auth"]
      BY <2>3 DEF Http!Admit
    <3>2. IsFiniteSet(admitted') /\ IsFiniteSet(admitted \ released)
      BY <3>1, FS_AddElement, FS_Subset DEF HeldInv, Slots
    <3>3. Slots'
      BY <2>1, <3>1, <3>2 DEF HeldInv, Slots
    <3>4. /\ Cardinality((admitted \ released) \cup {r}) = Cardinality(admitted \ released) + 1
          /\ Cardinality(admitted \ released) \in Nat
      BY <2>1, <3>2, FS_AddElement, FS_CardinalityType
    <3>5. admitted' \ released' = (admitted \ released) \cup {r}
      BY <2>1, <3>1 DEF HeldInv, Slots
    <3>6. Counted'
      <4>1. inFlight = Cardinality(admitted \ released) /\ inFlight <= Cap
        BY DEF HeldInv, Counted
      <4>2. Cardinality(admitted' \ released') = Cardinality(admitted \ released) + 1
        BY <3>4, <3>5, Zenon
      <4>3. inFlight' = Cardinality(admitted' \ released')
        BY <3>1, <4>1, <4>2, Zenon
      <4>4. inFlight' <= Cap
        BY <3>1, <3>4, <4>1
      <4> QED BY <4>3, <4>4 DEF Counted
    <3> QED BY <3>3, <3>6 DEF HeldInv
  <2> QED BY <1>2, <2>2, <2>3 DEF Http!Arrive
<1>3. ASSUME NEW r \in Req, Http!Prepare(r) \/ Http!Conclude(r) PROVE HeldInv'
  <2>1. CASE Http!Authenticated(r)
    <3>1. \/ stage' = [stage EXCEPT ![r] = "over"]
          \/ stage' = [stage EXCEPT ![r] = "body"]
      BY <2>1 DEF Http!Authenticated, Http!Answer
    <3> QED BY <2>1, <3>1, GoingOnKeeps DEF Http!Authenticated
  <2>2. CASE Http!Authorized(r)
    <3>1. \/ stage' = [stage EXCEPT ![r] = "over"]
          \/ stage' = [stage EXCEPT ![r] = "call"]
      BY <2>2 DEF Http!Authorized, Http!Answer, Http!Forward
    <3> QED BY <2>2, <3>1, GoingOnKeeps DEF Http!Authorized
  <2>3. ASSUME NEW good \in BOOLEAN, Http!BodyRead(r, good) PROVE HeldInv'
    <3>1. \/ stage' = [stage EXCEPT ![r] = "over"]
          \/ stage' = [stage EXCEPT ![r] = "call"]
          \/ stage' = [stage EXCEPT ![r] = "acl"]
      BY <2>3 DEF Http!BodyRead, Http!Answer, Http!Forward
    <3> QED BY <2>3, <3>1, GoingOnKeeps DEF Http!BodyRead
  <2>4. ASSUME NEW o, Http!Returns(r, o) PROVE HeldInv'
    BY <2>4, GoingOnKeeps DEF Http!Returns, Http!Answer
  <2>5. CASE Http!Throws(r)
    BY <2>5, GoingOnKeeps DEF Http!Throws, Http!Answer
  <2> QED BY <1>3, <2>1, <2>2, <2>3, <2>4, <2>5 DEF Http!Prepare, Http!Conclude
<1>4. ASSUME NEW r \in Req, Http!Executed(r) PROVE HeldInv'
  BY <1>4 DEF Http!Executed, HeldInv, Slots, Counted, Http!gate
<1>5. ASSUME NEW r \in Req, Http!Finish(r) \/ Http!Close(r) PROVE HeldInv'
  <2>1. /\ Http!release(r) /\ stage' = stage /\ socket[r] \in {"open", "finished"}
        /\ \E s \in {"finished", "closed"} : socket' = [socket EXCEPT ![r] = s]
    BY <1>5 DEF Http!Finish, Http!Close
  <2> QED BY <2>1, ReleaseKeeps
<1>6. ASSUME Http!ChannelChanges PROVE HeldInv'
  BY <1>6 DEF Http!ChannelChanges, HeldInv, Slots, Counted, Http!gate
<1> QED BY <1>1, <1>2, <1>3, <1>4, <1>5, <1>6 DEF Http!Next

-----------------------------------------------------------------------------
(* What a success says *)

GateTypeOK ==
    /\ NoProvider \notin providers
    /\ told \in [Req -> {"idle", "waiting", "done", "timeout",
        "refused"}] /\ done \subseteq Req
    /\ stage \in [Req -> {"none", "auth", "body", "acl", "call", "over"}]
    /\ path \in [Req -> Path \cup {Http!NoPath}]
    /\ success \in [Req -> BOOLEAN]
    /\ allowed \in [Req -> {"yes", "no", "error"}]
    /\ status \in [Req -> {"none", "busy", "unauthorized", "rejected", "forbidden",
                           "unavailable", "ok", "timeout", "error"}]

\* The credentials of r have been accepted, if its path asks for any.
PastAuth(r) == path[r].anonymous \/ path[r].auth = NoProvider \/ success[r]

\* The ACL has been asked, if the path has actions.
PastAcl(r) ==
    \/ path[r].anonymous
    \/ /\ path[r].auth # NoProvider => success[r]
       /\ path[r].actions => allowed[r] = "yes" /\ path[r].auth # NoProvider

\* A request passes the checks in their order, and calls the broker after them.
Checked ==
    \A r \in Req :
      /\ stage[r] \in {"none", "auth", "body",
          "acl"} => told[r] = "idle" /\ status[r] = "none"
      /\ stage[r] = "call" => told[r] = "waiting"
      /\ stage[r] = "body" => PastAuth(r)
      /\ stage[r] = "acl" =>
           PastAuth(r) /\ (path[r].actions /\ allowed[r] = "yes" => path[r].auth # NoProvider)
      /\ told[r] # "idle" => PastAcl(r)
      /\ status[r] = "ok" => told[r] = "done" /\ r \in EventReq \cup done

EarnedInv == GateTypeOK /\ Checked

LEMMA InitEarned == Http!Init => EarnedInv
BY DEF Http!Init, Http!Calls!Init, EarnedInv, GateTypeOK, Checked, PastAuth, PastAcl

LEMMA ArriveEarned ==
    ASSUME EarnedInv, NEW r \in Req, NEW p \in Path, Http!Arrive(r, p) PROVE EarnedInv'
<1>1. stage[r] = "none" /\ told[r] = "idle" /\ status[r] = "none"
  BY DEF Http!Arrive, EarnedInv, Checked
<1>2. CASE Http!Shed(r, p)
  <2>1. GateTypeOK'
    BY <1>2 DEF Http!Arrive, Http!Shed, Http!Answer, EarnedInv, GateTypeOK, Http!call
  <2>2. Checked'
    BY <1>1, <1>2 DEF Http!Arrive, Http!Shed, Http!Answer, EarnedInv, GateTypeOK, Checked,
                      PastAuth, PastAcl, Http!call
  <2> QED BY <2>1, <2>2 DEF EarnedInv
<1>3. CASE Http!Admit(r, p)
  <2>1. PICK good \in BOOLEAN : success' = [success EXCEPT ![r] = good]
    BY <1>3 DEF Http!Admit, Http!processAuthData
  <2>2. stage' = [stage EXCEPT ![r] = "auth"] /\ UNCHANGED status
    BY <1>3 DEF Http!Admit
  <2>3. GateTypeOK'
    BY <2>1, <2>2 DEF Http!Arrive, EarnedInv, GateTypeOK, Http!call
  <2>4. Checked'
    BY <1>1, <2>1, <2>2
    DEF Http!Arrive, EarnedInv, GateTypeOK, Checked, PastAuth, PastAcl, Http!call
  <2> QED BY <2>3, <2>4 DEF EarnedInv
<1> QED BY <1>2, <1>3 DEF Http!Arrive

LEMMA HandleEarned ==
    ASSUME EarnedInv, NEW r \in Req, Http!Prepare(r) \/ Http!Conclude(r) PROVE EarnedInv'
<1>1. CASE Http!Authenticated(r)
  BY <1>1
  DEF Http!Authenticated, Http!Answer, EarnedInv, GateTypeOK, Checked, PastAuth, PastAcl,
      Http!call
<1>2. CASE Http!Authorized(r)
  <2>1. CASE allowed[r] = "yes"
    BY <1>2, <2>1
    DEF Http!Authorized, Http!Forward, Http!Calls!Make, EarnedInv, GateTypeOK, Checked,
        PastAuth, PastAcl, Http!call
  <2>2. CASE allowed[r] # "yes"
    BY <1>2, <2>2 DEF Http!Authorized, Http!Answer, EarnedInv, GateTypeOK, Checked,
                      PastAuth, PastAcl, Http!call
  <2> QED BY <2>1, <2>2
<1>3. ASSUME NEW good \in BOOLEAN, Http!BodyRead(r, good) PROVE EarnedInv'
  <2>1. CASE ~good
    BY <1>3, <2>1
    DEF Http!BodyRead, Http!Answer, EarnedInv, GateTypeOK, Checked, PastAuth, PastAcl,
        Http!call
  <2>2. CASE good /\ path[r].anonymous
    BY <1>3, <2>2
    DEF Http!BodyRead, Http!Forward, Http!Calls!Make, EarnedInv, GateTypeOK, Checked,
        PastAuth, PastAcl, Http!call
  <2>3. CASE good /\ ~path[r].anonymous
    <3>1. PICK a \in Http!ActionsOf(r) : allowed' = [allowed EXCEPT ![r] = a]
      BY <1>3, <2>3 DEF Http!BodyRead
    <3>2. /\ a \in {"yes", "no", "error"}
          /\ path[r].actions /\ a = "yes" => path[r].auth # NoProvider
      BY <3>1 DEF Http!ActionsOf, EarnedInv, GateTypeOK
    <3>3. stage' = [stage EXCEPT ![r] = "acl"]
          /\ UNCHANGED <<providers, told, done, path, success, status>>
      BY <1>3, <2>3 DEF Http!BodyRead, Http!call
    <3>4. GateTypeOK'
      BY <3>1, <3>2, <3>3 DEF EarnedInv, GateTypeOK
    <3>5. Checked'
      BY <1>3, <3>1, <3>2, <3>3
      DEF Http!BodyRead, EarnedInv, GateTypeOK, Checked, PastAuth, PastAcl
    <3> QED BY <3>4, <3>5 DEF EarnedInv
  <2> QED BY <2>1, <2>2, <2>3
<1>4. ASSUME NEW o \in {"done", "timeout", "refused"}, Http!Returns(r, o) PROVE EarnedInv'
  <2>1. told[r] = "waiting" /\ told' = [told EXCEPT ![r] = o] /\ UNCHANGED done
        /\ (o = "done" => r \in EventReq \cup done)
    BY <1>4 DEF Http!Returns, Http!Calls!Tell, EarnedInv, Checked
  <2>2. status' = [status EXCEPT ![r] = Http!StatusOf(o)]
        /\ stage' = [stage EXCEPT ![r] = "over"]
        /\ UNCHANGED <<providers, path, success, allowed>>
    BY <1>4 DEF Http!Returns, Http!Answer
  <2>3. /\ Http!StatusOf(o) \in {"ok", "timeout", "error"}
        /\ Http!StatusOf(o) = "ok" => o = "done"
    BY DEF Http!StatusOf
  <2>4. GateTypeOK'
    BY <2>1, <2>2, <2>3 DEF EarnedInv, GateTypeOK
  <2>5. Checked'
    BY <2>1, <2>2, <2>3 DEF EarnedInv, GateTypeOK, Checked, PastAuth, PastAcl
  <2> QED BY <2>4, <2>5 DEF EarnedInv
<1>5. CASE Http!Throws(r)
  BY <1>5
  DEF Http!Throws, Http!Answer, EarnedInv, GateTypeOK, Checked, PastAuth, PastAcl, Http!call
<1> QED BY <1>1, <1>2, <1>3, <1>4, <1>5 DEF Http!Prepare, Http!Conclude

LEMMA NextEarned ==
    ASSUME EarnedInv, Http!Next PROVE EarnedInv'
<1>1. ASSUME NEW ps \in SUBSET HttpProvider, Http!ReloadProviders(ps) PROVE EarnedInv'
  BY <1>1
  DEF Http!ReloadProviders, Http!call, EarnedInv, GateTypeOK, Checked, PastAuth, PastAcl
<1>2. ASSUME NEW r \in Req, Http!Executed(r) PROVE EarnedInv'
  BY <1>2
  DEF Http!Executed, Http!Calls!Execute, EarnedInv, GateTypeOK, Checked, PastAuth, PastAcl
<1>3. ASSUME NEW r \in Req, Http!Finish(r) \/ Http!Close(r) PROVE EarnedInv'
  BY <1>3
  DEF Http!Finish, Http!Close, Http!call, EarnedInv, GateTypeOK, Checked, PastAuth, PastAcl
<1>4. ASSUME Http!ChannelChanges PROVE EarnedInv'
  BY <1>4
  DEF Http!ChannelChanges, Http!call, EarnedInv, GateTypeOK, Checked, PastAuth, PastAcl
<1> QED BY <1>1, <1>2, <1>3, <1>4, ArriveEarned, HandleEarned DEF Http!Next

-----------------------------------------------------------------------------
(* The subscriptions of WebSocketSession *)

\* The memo of a provider says what that provider made of the token.
MemoIsRight ==
    /\ authByProvider \in [WsProvider -> {"none", "good", "bad"}]
    /\ \A p \in WsProvider : authByProvider[p] = "good" => p \in token.verifies

\* The claims with which a subscription waits for the ACL are good.
TasksAreRight ==
    /\ task \in [Frame -> [event : WsEvent, at : {"verify", "check"}] \cup {Ws!NoTask}]
    /\ \A s \in Frame :
         /\ task[s].at = "verify" => Def[task[s].event].auth \in WsProvider
         /\ task[s].at = "check" => Def[task[s].event].auth \in token.verifies

\* The events a client is entitled to.
Entitled(e) ==
    /\ Def[e].auth # NoProvider /\ Def[e].required => Def[e].auth \in token.verifies
    /\ Def[e].actions => Def[e].auth \in token.verifies /\ e \in granted

SubsAreRight ==
    /\ subs \subseteq WsEvent /\ IsFiniteSet(subs)
    /\ Cardinality(subs) <= MaxSubs
    /\ \A e \in subs : Entitled(e)

\* The inductive invariant.
SessionInv == wsEvents \subseteq WsEvent /\ MemoIsRight /\ TasksAreRight /\ SubsAreRight

\* handleDisconnect leaves nothing that needs a right.
LEMMA DisconnectKeeps ==
    ASSUME Ws!handleDisconnect PROVE SubsAreRight'
<1>1. IsFiniteSet({}) /\ Cardinality({}) = 0
  BY FS_EmptySet
<1> QED BY <1>1 DEF Ws!handleDisconnect, SubsAreRight

\* The limit holds, and the new subscription is one the client is entitled to.
LEMMA AttachKeeps ==
    ASSUME SubsAreRight, NEW e \in WsEvent, Entitled(e), Ws!Attach(e),
           UNCHANGED <<token, granted>>
    PROVE  SubsAreRight'
<1>1. CASE Cardinality(subs) >= MaxSubs
  BY <1>1, WsCardinality DEF Ws!Attach, SubsAreRight, Entitled
<1>2. CASE ~(Cardinality(subs) >= MaxSubs)
  <2>1. subs' = subs \cup {e}
    BY <1>2, WsCardinality DEF Ws!Attach
  <2>2. /\ Cardinality(subs) \in Nat /\ IsFiniteSet(subs \cup {e})
        /\ \/ Cardinality(subs \cup {e}) = Cardinality(subs)
           \/ Cardinality(subs \cup {e}) = Cardinality(subs) + 1
    BY FS_AddElement, FS_CardinalityType DEF SubsAreRight
  <2>3. Cardinality(subs \cup {e}) <= MaxSubs
    BY <1>2, <2>2 DEF SubsAreRight
  <2> QED BY <2>1, <2>2, <2>3 DEF SubsAreRight, Entitled
<1> QED BY <1>1, <1>2

\* Whoever is let through with these claims has the right to what follows.
LEMMA WithClaimsKeeps ==
    ASSUME TasksAreRight, SubsAreRight,
           NEW s \in Frame, NEW e \in WsEvent, NEW claims, Ws!WithClaims(s, e, claims),
           claims = "good" => Def[e].auth \in token.verifies,
           UNCHANGED <<token, granted>>
    PROVE  TasksAreRight' /\ SubsAreRight'
<1> DEFINE unauthorized == Def[e].auth # NoProvider /\ Def[e].required /\ claims # "good"
           identified == Def[e].auth \in providers /\ claims = "good"
<1>1. CASE unauthorized \/ (Def[e].actions /\ ~identified)
  BY <1>1 DEF Ws!WithClaims, Ws!Drop, TasksAreRight, SubsAreRight, Entitled, Ws!NoTask
<1>2. CASE ~unauthorized /\ Def[e].actions /\ identified
  <2>1. Ws!Await(s, e, "check") /\ UNCHANGED subs
    BY <1>2 DEF Ws!WithClaims
  <2> QED BY <1>2, <2>1 DEF Ws!Await, TasksAreRight, SubsAreRight, Entitled, Ws!NoTask
<1>3. CASE ~unauthorized /\ ~Def[e].actions
  <2>1. Ws!Drop(s) /\ Ws!Attach(e)
    BY <1>3 DEF Ws!WithClaims
  <2>2. Entitled(e)
    BY <1>3 DEF Entitled
  <2>3. SubsAreRight'
    BY <2>1, <2>2, AttachKeeps
  <2> QED BY <2>1, <2>3 DEF Ws!Drop, TasksAreRight, Ws!NoTask
<1> QED BY <1>1, <1>2, <1>3

LEMMA InitSession == Ws!Init => SessionInv
<1> SUFFICES ASSUME Ws!Init PROVE SessionInv
  OBVIOUS
<1>1. IsFiniteSet({}) /\ Cardinality({}) = 0
  BY FS_EmptySet
<1>2. SubsAreRight
  BY <1>1 DEF Ws!Init, SubsAreRight
<1>3. MemoIsRight /\ TasksAreRight /\ wsEvents \subseteq WsEvent
  BY DEF Ws!Init, MemoIsRight, TasksAreRight, Ws!NoTask
<1> QED BY <1>2, <1>3 DEF SessionInv

LEMMA SubscribeKeeps ==
    ASSUME SessionInv, NEW s \in Frame, NEW e \in WsEvent, Ws!Subscribe(s, e),
           UNCHANGED <<providers, Ws!given>>
    PROVE  SessionInv'
<1> DEFINE p == Def[e].auth
<1>0. p \in WsProvider \cup {NoProvider}
  OBVIOUS
<1>1. CASE p = NoProvider
  <2>1. Ws!WithClaims(s, e, "none") /\ UNCHANGED authByProvider
    BY <1>1 DEF Ws!Subscribe
  <2> QED BY <2>1, WithClaimsKeeps DEF SessionInv, MemoIsRight, Ws!given
<1>2. CASE p # NoProvider /\ authByProvider[p] # "none"
  <2>1. Ws!WithClaims(s, e, authByProvider[p]) /\ UNCHANGED authByProvider
    BY <1>2 DEF Ws!Subscribe, Ws!Memo
  <2>2. authByProvider[p] = "good" => p \in token.verifies
    BY <1>0, <1>2 DEF SessionInv, MemoIsRight
  <2> QED BY <2>1, <2>2, WithClaimsKeeps DEF SessionInv, MemoIsRight, Ws!given
<1>3. CASE p # NoProvider /\ authByProvider[p] = "none" /\ p \notin providers
  <2>1. Ws!WithClaims(s, e, "bad") /\ authByProvider' = [authByProvider EXCEPT ![p] = "bad"]
    BY <1>3 DEF Ws!Subscribe, Ws!Memo
  <2>2. MemoIsRight'
    BY <2>1 DEF SessionInv, MemoIsRight, Ws!given
  <2> QED BY <2>1, <2>2, WithClaimsKeeps DEF SessionInv, MemoIsRight, Ws!given
<1>4. CASE p # NoProvider /\ authByProvider[p] = "none" /\ p \in providers
  <2>1. Ws!Await(s, e, "verify") /\ UNCHANGED <<authByProvider, subs>>
    BY <1>4 DEF Ws!Subscribe, Ws!Memo
  <2>2. TasksAreRight'
    BY <1>0, <1>4, <2>1 DEF Ws!Await, SessionInv, TasksAreRight, Ws!NoTask, Ws!given
  <2> QED BY <2>1, <2>2 DEF SessionInv, MemoIsRight, SubsAreRight, Entitled, Ws!given
<1> QED BY <1>1, <1>2, <1>3, <1>4

LEMMA NextSession == SessionInv /\ Ws!Next => SessionInv'
<1> SUFFICES ASSUME SessionInv, Ws!Next PROVE SessionInv'
  OBVIOUS
<1>1. ASSUME NEW ps \in SUBSET WsProvider, Ws!ReloadProviders(ps) PROVE SessionInv'
  BY <1>1
  DEF Ws!ReloadProviders, Ws!given, SessionInv, MemoIsRight, TasksAreRight, SubsAreRight,
      Entitled
<1>2. CASE Ws!handleConnection \/ Ws!Pong \/ Ws!PeerDies \/ Ws!TokenExpires
  BY <1>2
  DEF Ws!handleConnection, Ws!Pong, Ws!PeerDies, Ws!TokenExpires, Ws!given, SessionInv,
      MemoIsRight,
              TasksAreRight, SubsAreRight, Entitled
<1>3. CASE Ws!Heartbeat \/ Ws!CloseEvent
  <2>1. /\ UNCHANGED <<providers, Ws!given, authByProvider, task>>
        /\ Ws!handleDisconnect \/ UNCHANGED subs
    BY <1>3 DEF Ws!Heartbeat, Ws!CloseEvent, Ws!closeExpired
  <2>2. SubsAreRight'
    BY <2>1, DisconnectKeeps DEF SessionInv, SubsAreRight, Entitled, Ws!given
  <2> QED BY <2>1, <2>2 DEF Ws!given, SessionInv, MemoIsRight, TasksAreRight
<1>4. ASSUME NEW e \in WsEvent, Ws!Deliver(e) PROVE SessionInv'
  <2>1. SubsAreRight'
    BY <1>4, DisconnectKeeps DEF Ws!Deliver, Ws!closeExpired
  <2> QED BY <1>4, <2>1 DEF Ws!Deliver, Ws!given, SessionInv, MemoIsRight, TasksAreRight
<1>5. ASSUME NEW e \in WsEvent, Ws!onClientMessage(e) PROVE SessionInv'
  <2>1. UNCHANGED <<providers, Ws!given>>
    BY <1>5 DEF Ws!onClientMessage
  <2>2. CASE Ws!isExpired
    <3>1. SubsAreRight' /\ UNCHANGED <<authByProvider, task>>
      BY <1>5, <2>2, DisconnectKeeps DEF Ws!onClientMessage, Ws!closeExpired
    <3> QED BY <2>1, <3>1 DEF Ws!given, SessionInv, MemoIsRight, TasksAreRight
  <2>3. ASSUME NEW s \in Frame, Ws!Subscribe(s, e) PROVE SessionInv'
    BY <2>1, <2>3, SubscribeKeeps
  <2>4. CASE subs' = subs \ {e} /\ UNCHANGED <<authByProvider, task>>
    <3>1. /\ IsFiniteSet(subs \ {e}) /\ Cardinality(subs \ {e}) <= Cardinality(subs)
          /\ Cardinality(subs) \in Nat /\ Cardinality(subs \ {e}) \in Nat
      BY FS_Subset, FS_CardinalityType DEF SessionInv, SubsAreRight
    <3>2. Cardinality(subs \ {e}) <= MaxSubs
      BY <3>1 DEF SessionInv, SubsAreRight
    <3>3. SubsAreRight'
      BY <2>1, <2>4, <3>1, <3>2 DEF SessionInv, SubsAreRight, Entitled, Ws!given
    <3> QED BY <2>1, <2>4, <3>3 DEF Ws!given, SessionInv, MemoIsRight, TasksAreRight
  <2> QED BY <1>5, <2>2, <2>3, <2>4 DEF Ws!onClientMessage
<1>6. ASSUME NEW s \in Frame, Ws!Verified(s) PROVE SessionInv'
  <2> DEFINE e == task[s].event
             p == Def[e].auth
  <2>1. /\ e \in WsEvent /\ p \in WsProvider
        /\ UNCHANGED <<providers, Ws!given>>
    BY <1>6 DEF Ws!Verified, SessionInv, TasksAreRight, Ws!NoTask
  <2>2. PICK claims \in Ws!verifyToken(p) :
          /\ authByProvider' = [authByProvider EXCEPT ![p] = claims]
          /\ Ws!WithClaims(s, e, claims)
    BY <1>6 DEF Ws!Verified
  <2>3. claims \in {"good", "bad"} /\ (claims = "good" => p \in token.verifies)
    BY DEF Ws!verifyToken
  <2>4. MemoIsRight'
    BY <2>1, <2>2, <2>3 DEF SessionInv, MemoIsRight, Ws!given
  <2>5. TasksAreRight' /\ SubsAreRight'
    BY <2>1, <2>2, <2>3, WithClaimsKeeps DEF SessionInv, MemoIsRight, Ws!given
  <2> QED BY <2>1, <2>4, <2>5 DEF SessionInv, Ws!given
<1>7. ASSUME NEW s \in Frame, Ws!Checked(s) PROVE SessionInv'
  <2> DEFINE e == task[s].event
  <2>1. /\ e \in WsEvent /\ Def[e].auth \in token.verifies
        /\ UNCHANGED <<providers, Ws!given, authByProvider>>
    BY <1>7 DEF Ws!Checked, SessionInv, TasksAreRight, Ws!NoTask
  <2>2. SubsAreRight'
    <3>1. CASE UNCHANGED subs
      BY <2>1, <3>1 DEF SessionInv, SubsAreRight, Entitled, Ws!given
    <3>2. CASE e \in granted /\ Ws!Attach(e)
      <4>1. Entitled(e)
        BY <2>1, <3>2 DEF Entitled
      <4> QED BY <2>1, <3>2, <4>1, AttachKeeps DEF SessionInv, Ws!given
    <3> QED BY <1>7, <3>1, <3>2 DEF Ws!Checked
  <2>3. TasksAreRight'
    BY <1>7, <2>1 DEF Ws!Checked, Ws!Drop, SessionInv, TasksAreRight, Ws!NoTask, Ws!given
  <2> QED BY <2>1, <2>2, <2>3 DEF SessionInv, MemoIsRight, Ws!given
<1> QED BY <1>1, <1>2, <1>3, <1>4, <1>5, <1>6, <1>7 DEF Ws!Next

-----------------------------------------------------------------------------
(* The process *)

\* Each side keeps its invariant while the others move: what they share, the
\* registry, is reloaded with providers that have names.
GwInv == HeldInv /\ EarnedInv /\ SessionInv

LEMMA InitGw == GwInit => GwInv
<1> SUFFICES ASSUME GwInit PROVE GwInv
  OBVIOUS
<1>1. Http!Init /\ Ws!Init
  BY DEF GwInit, IdleHttp, IdleWs
<1> QED BY <1>1, InitHeld, InitEarned, InitSession DEF GwInv

LEMMA HttpStandsStill ==
    ASSUME HeldInv, EarnedInv, UNCHANGED httpVars, NoProvider \notin providers'
    PROVE  HeldInv' /\ EarnedInv'
<1>1. HeldInv'
  BY DEF httpVars, HeldInv, Slots, Counted
<1>2. EarnedInv'
  BY DEF httpVars, EarnedInv, GateTypeOK, Checked, PastAuth, PastAcl
<1> QED BY <1>1, <1>2

LEMMA WsStandsStill == ASSUME SessionInv, UNCHANGED wsVars PROVE SessionInv'
BY DEF wsVars, SessionInv, MemoIsRight, TasksAreRight, SubsAreRight, Entitled

LEMMA NextGw == GwInv /\ [GwNext]_gwVars => GwInv'
<1> SUFFICES ASSUME GwInv, [GwNext]_gwVars PROVE GwInv'
  OBVIOUS
<1> USE DEF GwInv
<1>1. CASE HttpStep(Http!Next)
  <2>1. Http!Next /\ UNCHANGED wsVars
    BY <1>1 DEF HttpStep
  <2> QED BY <2>1, NextHeld, NextEarned, WsStandsStill
<1>2. CASE WsStep(Ws!Next)
  <2>1. Ws!Next /\ UNCHANGED httpVars
    BY <1>2 DEF WsStep
  <2>2. UNCHANGED providers \/ \E ps \in SUBSET WsProvider : providers' = ps
    BY <2>1 DEF Ws!Next, Ws!ReloadProviders, Ws!handleConnection, Ws!Heartbeat, Ws!Pong,
                Ws!PeerDies, Ws!TokenExpires, Ws!CloseEvent, Ws!onClientMessage, Ws!Deliver,
                Ws!Verified, Ws!Checked
  <2>3. NoProvider \notin providers'
    BY <2>2 DEF EarnedInv, GateTypeOK
  <2> QED BY <2>1, <2>3, NextSession, HttpStandsStill
<1>3. CASE ProcessStep(ProcessNext) \/ UNCHANGED gwVars
  <2>1. UNCHANGED <<providers, httpVars, wsVars>>
    BY <1>3 DEF ProcessStep, gwVars
  <2>2. NoProvider \notin providers'
    BY <2>1 DEF EarnedInv, GateTypeOK
  <2> QED BY <2>1, <2>2, HttpStandsStill, WsStandsStill
<1> QED BY <1>1, <1>2, <1>3 DEF GwNext

\* The cap is exact for any number of requests that finish, fail and are
\* aborted in any order: a slot is held as long as the response is open
\* (http-handler.service.ts: release on finish and on close, once).
THEOREM SlotsAreExact == GwSpec => []InFlightExact
<1>1. GwInv => InFlightExact
  BY HeldAreOpen DEF GwInv
<1> QED BY <1>1, InitGw, NextGw, PTL DEF GwSpec

\* Whatever is reloaded, aborted or executed late, a 2xx is an outcome that has
\* been reached, of a call the client was entitled to (http-handler.service.ts:
\* the answer follows the awaited publishMessage or requestData).
THEOREM SuccessIsEarned == GwSpec => []SuccessMeansDone
<1>1. GwInv => SuccessMeansDone
  BY
  DEF GwInv, EarnedInv, GateTypeOK, Checked, PastAcl, SuccessMeansDone, Http!SuccessMeansDone
<1> QED BY <1>1, InitGw, NextGw, PTL DEF GwSpec

\* Nobody is subscribed by the leave of another event's provider, nor past the
\* limit, however many subscriptions are being authorized at a time
\* (websocket.service.ts: subscribeClient asks per event, and counts last).
THEOREM SubscribersAreEntitled == GwSpec => []SubscriptionsEntitled
<1>1. GwInv => SubscriptionsEntitled
  BY WsCardinality
  DEF GwInv, SessionInv, SubsAreRight, Entitled, SubscriptionsEntitled,
      Ws!SubscriptionsEntitled
<1> QED BY <1>1, InitGw, NextGw, PTL DEF GwSpec

-----------------------------------------------------------------------------
(* The broker connection *)

\* The process behaves as BrokerProcess says, and so does one that only serves.
LEMMA GatewayIsProcess == GwSpec => ProcessSafety
<1>1. GwInit => ProcessInit
  BY DEF GwInit, IdleProcess
<1>2. [GwNext]_gwVars => [ProcessNext]_processVars
  BY DEF GwNext, gwVars, ProcessStep, HttpStep, WsStep
<1> QED BY <1>1, <1>2, PTL DEF GwSpec, ProcessSafety

\* Over any reconnects a binding waits for its exchange (connection.ts:
\* setupInitChannel awaits one kind of object after another).
THEOREM GatewayDeclaresBeforeUse == GwSpec => []DeclaredBeforeUse
BY GatewayIsProcess, SafetyDeclares, PTL

\* The calls a gateway makes keep what they promise its handlers, which HttpGate
\* builds on (connection.ts: request races the reply against the timer).
THEOREM GatewayKeepsTheContract == GwSpec => ImplementsContract /\ []OwnAnswer
BY GatewayIsProcess, SafetyIsCalls, CallsKeepTheContract, AnswersAreOwn, PTL
=============================================================================
