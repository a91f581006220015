----------------------------- MODULE AccessProofs ------------------------------
(***************************************************************************)
(* Proofs about Access, for every set of workers, identities, addresses,   *)
(* invites, deployments and routes: its types, that a code is used once,   *)
(* that a revoked invite leaves no session, that an answer stays within    *)
(* its scope, and that an identity keeps its one workspace.                *)
(***************************************************************************)
EXTENDS Access, FiniteSetTheorems, TLAPS

\* A request's phase tells what its record holds.
SignInPhases == {"bySub", "byEmail", "link", "provision", "reread"}
RedeemPhases == {"redeem", "claimed", "granted"}

\* The phase of a request tells which kind of record it is.
LEMMA PhaseTells ==
  ASSUME NEW row \in RequestStates
  PROVE  /\ row.phase = "entered" => row \in Visits
         /\ row.phase \in SignInPhases => row \in SignIns
         /\ row.phase = "authorised" => row \in Admitted
         /\ row.phase = "answered" => row \in Answers
         /\ row.phase \in RedeemPhases => row \in Redemptions
  BY DEF RequestStates, Idle, Visits, SignIns, Admitted, Answers, Redemptions, SignInPhases, RedeemPhases

\* A change of phase within a sign-in leaves its headers and pin.
LEMMA SettledSignIn ==
  ASSUME NEW row \in Visits \cup SignIns, row.h.demo = None, row.h.sub # None, NEW phase \in SignInPhases
  PROVE  LET next == [row EXCEPT !.phase = phase] IN
         next \in SignIns /\ next.phase = phase /\ next.h = row.h /\ next.pin = row.pin
  BY DEF Visits, SignIns, SignInPhases

\* The same for a redemption, with its invite and clock.
LEMMA SettledRedemption ==
  ASSUME NEW row \in Redemptions, NEW phase \in RedeemPhases
  PROVE  LET next == [row EXCEPT !.phase = phase] IN
         next \in Redemptions /\ next.phase = phase /\ next.invite = row.invite
  BY DEF Redemptions, RedeemPhases

\* The next number is that of no tenant, and makes one more of them.
LEMMA NextTenant ==
  ASSUME TypeOK
  PROVE  LET t == Cardinality(tenants) IN
         /\ t \in Nat \ {Demo} /\ t \notin tenants
         /\ IsFiniteSet(tenants \cup {t}) /\ tenants \cup {t} = 0..(Cardinality(tenants \cup {t}) - 1)
<1> DEFINE t == Cardinality(tenants)
<1>1. IsFiniteSet(tenants) /\ tenants = 0..(t - 1) /\ Demo \in tenants
  BY DEF TypeOK
<1>2. t \in Nat
  BY <1>1, FS_CardinalityType
<1>3. t > 0 /\ t \notin tenants
  BY <1>1, <1>2 DEF Demo
<1>4. IsFiniteSet(tenants \cup {t}) /\ Cardinality(tenants \cup {t}) = t + 1
  BY <1>1, <1>3, FS_AddElement
<1>5. tenants \cup {t} = 0..t
  <2>1. 0..t = 0..(t - 1) \cup {t}
    BY <1>2, <1>3
  <2> HIDE DEF t
  <2>. QED BY <1>1, <2>1
<1>6. (t + 1) - 1 = t
  BY <1>2
<1>7. tenants \cup {t} = 0..(Cardinality(tenants \cup {t}) - 1)
  BY <1>4, <1>5, <1>6
<1>. QED BY <1>2, <1>3, <1>4, <1>7 DEF Demo

\* What a step makes of one request is a request.
LEMMA OneRequest ==
  ASSUME TypeOK, NEW q \in Requests, NEW row \in RequestStates, req' = [req EXCEPT ![q] = row]
  PROVE  req' \in [Requests -> RequestStates] /\ req'[q] = row /\ \A p \in Requests \ {q} : req'[p] = req[p]
  BY DEF TypeOK

\* Every step preserves the types.
LEMMA TypeStep == TypeOK /\ [Next]_vars => TypeOK'
<1> SUFFICES ASSUME TypeOK, [Next]_vars PROVE TypeOK'
  OBVIOUS
<1> USE ConstantsAssumption DEF ConstantsAssumption
<1>s. deployment' = deployment => RequestStates' = RequestStates
  BY DEF RequestStates, Visits, SignIns, Admitted, Answers, Redemptions, Pins
<1>r. \A q \in Requests : req[q] \in RequestStates
  BY DEF TypeOK
<1>i. Idle \in RequestStates
  BY DEF RequestStates
\* Steps of one request that leave the tables alone.
<1>q. ASSUME NEW q \in Requests, NEW row \in RequestStates, req' = [req EXCEPT ![q] = row],
             UNCHANGED <<admin, db, claim, minted>>, begun' \in 0..MaxRequests, counted' \in Nat,
             landed' \subseteq Subs \X tenants
      PROVE  TypeOK'
  BY <1>q, <1>s, OneRequest DEF TypeOK, admin, db
<1>t. begun \in 0..MaxRequests /\ counted \in Nat /\ landed \subseteq Subs \X tenants
  BY DEF TypeOK
<1>1. ASSUME NEW q \in Requests, NEW h \in Headers, Enter(q, h) PROVE TypeOK'
  <2> DEFINE row == IF (h.demo # None /\ ~RouteAllowed(h.route)) \/ ReadOnlyRefused(h) THEN Idle
                    ELSE [phase |-> "entered", h |-> h,
                          pin |-> IF h.demo # None THEN DemoPin(deployment) ELSE NoPin]
  <2>1. row \in RequestStates
    BY <1>i DEF RequestStates, Visits, Pins
  <2>2. req' = [req EXCEPT ![q] = row] /\ begun' = begun + 1 /\ begun < MaxRequests
        /\ UNCHANGED <<admin, db, claim, minted, landed, counted>>
    BY <1>1 DEF Enter
  <2>3. begun + 1 \in 0..MaxRequests
    BY <1>t, <2>2
  <2> HIDE DEF row
  <2>. QED BY <1>q, <1>t, <2>1, <2>2, <2>3
<1>2. ASSUME NEW q \in Requests, Fail(q), UNCHANGED <<admin, db, claim, begun, minted, landed>>, counted' \in Nat
      PROVE  TypeOK'
  BY <1>2, <1>i, <1>q, <1>t DEF Fail
<1>3. ASSUME NEW q \in Requests, req[q] \in Visits \cup SignIns, req[q].h.demo = None, req[q].h.sub # None,
             NEW phase \in SignInPhases, Settle(q, phase)
      PROVE  \E row \in RequestStates : req' = [req EXCEPT ![q] = row]
  <2>1. [req[q] EXCEPT !.phase = phase] \in RequestStates
    BY <1>3, SettledSignIn DEF RequestStates
  <2>2. req' = [req EXCEPT ![q] = [req[q] EXCEPT !.phase = phase]]
    BY <1>3 DEF Settle, TypeOK
  <2>. QED BY <2>1, <2>2
<1>4. ASSUME NEW q \in Requests, req[q] \in Visits \cup SignIns, NEW tenant \in Nat, Authorised(q, tenant)
      PROVE  \E row \in RequestStates : req' = [req EXCEPT ![q] = row]
  <2> DEFINE row == [phase |-> "authorised", h |-> req[q].h, pin |-> req[q].pin, tenant |-> tenant]
  <2>1. req[q].h \in Headers /\ req[q].pin \in Pins
    BY <1>4 DEF Visits, SignIns
  <2>2. row \in RequestStates
    BY <2>1 DEF Admitted, RequestStates
  <2>. QED BY <1>4, <2>2 DEF Authorised
<1>5. ASSUME NEW q \in Requests, Authorise(q) PROVE TypeOK'
  <2>1. req[q] \in Visits /\ UNCHANGED <<admin, db, claim, begun, minted, landed, counted>>
    BY <1>5, <1>r, PhaseTells DEF Authorise
  <2>2. CASE Authorised(q, Demo)
    BY <1>4, <1>q, <1>t, <2>1, <2>2 DEF Demo
  <2>3. CASE req[q].h.demo = None /\ req[q].h.sub # None /\ Settle(q, "bySub")
    BY <1>3, <1>q, <1>t, <2>1, <2>3 DEF SignInPhases
  <2>. QED BY <1>2, <1>5, <1>t, <2>1, <2>2, <2>3 DEF Authorise
<1>g. ASSUME NEW q \in Requests, req[q].phase \in SignInPhases
      PROVE  req[q] \in SignIns /\ req[q].h.demo = None /\ req[q].h.sub # None /\ req[q].h.sub \in Subs
  BY <1>g, <1>r, PhaseTells DEF SignIns, Headers
\* An identity lands on the tenant of a user.
<1>6. ASSUME NEW q \in Requests, req[q].phase \in SignInPhases, NEW u, u.tenant \in tenants', u.tenant \in Nat,
             Land(q, u), tenants \subseteq tenants'
      PROVE  /\ landed' \subseteq Subs \X tenants'
             /\ \E row \in RequestStates : req' = [req EXCEPT ![q] = row]
  BY <1>4, <1>6, <1>g, <1>t DEF Land
<1>u. \A u \in users : u.tenant \in tenants /\ u.tenant \in Nat
  <2>1. tenants \subseteq Nat
    <3>1. Cardinality(tenants) \in Nat
      BY FS_CardinalityType DEF TypeOK
    <3>. QED BY <3>1 DEF TypeOK
  <2>. QED BY <2>1 DEF TypeOK
<1>7. ASSUME NEW q \in Requests, FindBySub(q) PROVE TypeOK'
  <2>1. req[q].phase \in SignInPhases /\ UNCHANGED <<admin, db, claim, begun, minted, counted>> /\ tenants' = tenants
    BY <1>7 DEF FindBySub, SignInPhases, db
  <2>2. CASE \E u \in UsersOf(req[q].h.sub) : Land(q, u)
    <3>1. PICK u \in users : Land(q, u)
      BY <2>2 DEF UsersOf
    <3>. QED BY <1>6, <1>q, <1>t, <1>u, <2>1, <3>1
  <2>3. CASE Settle(q, "byEmail") /\ UNCHANGED landed
    BY <1>3, <1>g, <1>q, <1>t, <2>1, <2>3 DEF SignInPhases
  <2>. QED BY <1>7, <2>2, <2>3 DEF FindBySub
<1>8. ASSUME NEW q \in Requests, FindByEmail(q) PROVE TypeOK'
  <2>1. req[q].phase \in SignInPhases /\ UNCHANGED <<admin, db, claim, begun, minted, landed, counted>>
    BY <1>8 DEF FindByEmail, SignInPhases
  <2>2. Settle(q, "provision") \/ Settle(q, "link") \/ Fail(q)
    BY <1>8 DEF FindByEmail
  <2>. QED BY <1>2, <1>3, <1>g, <1>q, <1>t, <2>1, <2>2 DEF SignInPhases
<1>9. ASSUME NEW q \in Requests, Link(q) PROVE TypeOK'
  <2>1. req[q].phase \in SignInPhases /\ UNCHANGED <<admin, tenants, invites, sessions, claim, begun, minted, counted>>
    BY <1>9 DEF Link, SignInPhases
  <2>2. PICK u \in users : /\ users' = (users \ {u}) \cup {[u EXCEPT !.sub = req[q].h.sub]}
                           /\ Land(q, u)
    BY <1>9 DEF Link, ByEmail
  <2>3. [u EXCEPT !.sub = req[q].h.sub] \in [tenant : tenants, email : {EmailOf[s] : s \in Subs}, sub : Subs \cup {None}]
    BY <1>g, <2>1 DEF TypeOK
  <2>4. users' \subseteq [tenant : tenants, email : {EmailOf[s] : s \in Subs}, sub : Subs \cup {None}]
    BY <2>2, <2>3 DEF TypeOK
  <2>5. landed' \subseteq Subs \X tenants /\ \E row \in RequestStates : req' = [req EXCEPT ![q] = row]
    BY <1>6, <1>u, <2>1, <2>2
  <2>. QED BY <1>s, <2>1, <2>4, <2>5, OneRequest DEF TypeOK, admin
<1>10. ASSUME NEW q \in Requests, Provision(q) PROVE TypeOK'
  <2> DEFINE t == Cardinality(tenants)
             sub == req[q].h.sub
  <2>1. req[q].phase \in SignInPhases /\ UNCHANGED <<admin, invites, sessions, claim, begun, minted, counted>>
    BY <1>10 DEF Provision, SignInPhases
  <2>2. CASE /\ tenants' = tenants \cup {t}
             /\ users' = users \cup {[tenant |-> t, email |-> EmailOf[sub], sub |-> sub]}
             /\ Land(q, [tenant |-> t])
    <3>1. t \in Nat /\ Demo \in tenants' /\ IsFiniteSet(tenants') /\ tenants' = 0..(Cardinality(tenants') - 1)
      BY <2>2, NextTenant DEF TypeOK
    <3>2. landed' \subseteq Subs \X tenants' /\ \E row \in RequestStates : req' = [req EXCEPT ![q] = row]
      BY <1>6, <2>1, <2>2, <3>1
    <3>3. sub \in Subs
      BY <1>g, <2>1
    <3> HIDE DEF t, sub
    <3>4. users' \subseteq [tenant : tenants', email : {EmailOf[s] : s \in Subs}, sub : Subs \cup {None}]
      BY <2>2, <3>3 DEF TypeOK
    <3>. QED BY <1>s, <2>1, <3>1, <3>2, <3>4, OneRequest DEF TypeOK, admin
  <2>3. CASE Settle(q, "reread") /\ UNCHANGED <<tenants, users, landed>>
    BY <1>3, <1>g, <1>q, <1>t, <2>1, <2>3 DEF SignInPhases, db
  <2>. QED BY <1>10, <2>2, <2>3 DEF Provision
<1>11. ASSUME NEW q \in Requests, ReRead(q) PROVE TypeOK'
  <2>1. req[q].phase \in SignInPhases /\ UNCHANGED <<admin, db, claim, begun, minted, counted>> /\ tenants' = tenants
    BY <1>11 DEF ReRead, SignInPhases, db
  <2>2. CASE \E u \in UsersOf(req[q].h.sub) : Land(q, u)
    <3>1. PICK u \in users : Land(q, u)
      BY <2>2 DEF UsersOf
    <3>. QED BY <1>6, <1>q, <1>t, <1>u, <2>1, <3>1
  <2>. QED BY <1>2, <1>11, <1>t, <2>1, <2>2 DEF ReRead
<1>12. ASSUME NEW q \in Requests, Handle(q) PROVE TypeOK'
  <2>1. req[q] \in Admitted /\ UNCHANGED <<admin, db, claim, begun, minted, landed, counted>>
    BY <1>12, <1>r, PhaseTells DEF Handle
  <2>2. PICK axes : req' = [req EXCEPT ![q] =
          [phase |-> "answered", h |-> req[q].h, tenant |-> req[q].tenant, target |-> Target(q), lists |-> Listing(q),
           sees |-> Available(deployment, req[q].pin, axes)]]
    BY <1>12 DEF Handle
  <2>3. req[q].h \in Headers /\ req[q].tenant \in Nat
    BY <2>1 DEF Admitted
  <2>4. Target(q) \in Nat /\ Listing(q) \in SUBSET Nat /\ Available(deployment, req[q].pin, axes) \in SUBSET Features
    BY <2>3 DEF Target, Listing, Available, Demo
  <2>5. [phase |-> "answered", h |-> req[q].h, tenant |-> req[q].tenant, target |-> Target(q), lists |-> Listing(q),
         sees |-> Available(deployment, req[q].pin, axes)] \in RequestStates
    BY <2>3, <2>4 DEF Answers, RequestStates
  <2>. QED BY <1>q, <1>t, <2>1, <2>2, <2>5
<1>13. ASSUME NEW q \in Requests, Leave(q) PROVE TypeOK'
  BY <1>2, <1>13, <1>t DEF Leave
<1>14. ASSUME NEW i \in Invites, CreateInvite(i) PROVE TypeOK'
  BY <1>14, <1>s DEF CreateInvite, TypeOK, admin
<1>15. ASSUME NEW q \in Requests, NEW i \in Invites, BeginRedeem(q, i) PROVE TypeOK'
  <2> DEFINE row == [phase |-> "redeem", invite |-> i, fresh |-> invites[i].left > 0, left |-> SessionTTL]
  <2>1. row \in RequestStates
    BY DEF RequestStates, Redemptions
  <2>2. req' = [req EXCEPT ![q] = row] /\ begun' = begun + 1 /\ begun < MaxRequests
        /\ UNCHANGED <<admin, db, claim, minted, landed, counted>>
    BY <1>15 DEF BeginRedeem
  <2>3. begun + 1 \in 0..MaxRequests
    BY <1>t, <2>2
  <2> HIDE DEF row
  <2>. QED BY <1>q, <1>t, <2>1, <2>2, <2>3
<1>m. ASSUME NEW q \in Requests, req[q].phase \in RedeemPhases, NEW phase \in RedeemPhases, Settle(q, phase)
      PROVE  \E row \in RequestStates : req' = [req EXCEPT ![q] = row]
  <2>1. [req[q] EXCEPT !.phase = phase] \in RequestStates
    BY <1>m, <1>r, PhaseTells, SettledRedemption DEF RequestStates
  <2>2. req' = [req EXCEPT ![q] = [req[q] EXCEPT !.phase = phase]]
    BY <1>m DEF Settle, TypeOK
  <2>. QED BY <2>1, <2>2
<1>16. ASSUME NEW q \in Requests, Claim(q) PROVE TypeOK'
  <2>1. req[q].phase \in RedeemPhases /\ UNCHANGED <<admin, db, begun, minted, landed, counted>>
    BY <1>16 DEF Claim, RedeemPhases
  <2>2. claim' \in [Invites -> Requests \cup {None}]
    BY <1>16 DEF Claim, TypeOK
  <2>3. \E row \in RequestStates : req' = [req EXCEPT ![q] = row]
    BY <1>16, <1>i, <1>m, <2>1 DEF Claim, Fail, RedeemPhases
  <2>. QED BY <1>s, <2>1, <2>2, <2>3, OneRequest DEF TypeOK, admin, db
<1>17. ASSUME NEW q \in Requests, Grant(q) PROVE TypeOK'
  <2>0. PICK i \in Invites : i = req[q].invite
    BY <1>17, <1>r, PhaseTells DEF Grant, Redemptions, RedeemPhases
  <2>1. req[q].phase \in RedeemPhases /\ UNCHANGED <<admin, users, tenants, begun, landed, counted>>
        /\ invites' = [invites EXCEPT ![i].state = "used"]
        /\ sessions' = sessions \cup {[invite |-> i, number |-> minted[i] + 1, left |-> req[q].left]}
        /\ claim' = [claim EXCEPT ![i] = None]
        /\ minted' = [minted EXCEPT ![i] = @ + 1]
        /\ Settle(q, "granted")
    BY <1>17, <2>0 DEF Grant, RedeemPhases
  <2>2. \E row \in RequestStates : req' = [req EXCEPT ![q] = row]
    BY <1>m, <2>1 DEF RedeemPhases
  <2>3. req[q].left \in 0..SessionTTL
    BY <1>r, <2>1, PhaseTells DEF Redemptions
  <2>4. sessions' \subseteq [invite : Invites, number : Nat, left : 0..SessionTTL]
    BY <2>1, <2>3 DEF TypeOK
  <2>5. /\ invites' \in [Invites -> [state : {"none", "open", "used", "gone"}, left : 0..InviteTTL]]
        /\ claim' \in [Invites -> Requests \cup {None}] /\ minted' \in [Invites -> Nat]
    BY <2>1 DEF TypeOK
  <2>. QED BY <1>s, <2>1, <2>2, <2>4, <2>5, OneRequest DEF TypeOK, admin
<1>18. ASSUME NEW q \in Requests, CountStart(q) PROVE TypeOK'
  BY <1>2, <1>18, <1>t DEF CountStart
<1>19. ASSUME NEW q \in Requests, Die(q) PROVE TypeOK'
  <2>1. req' = [req EXCEPT ![q] = Idle] /\ UNCHANGED <<admin, db, begun, minted, landed, counted>>
    BY <1>19 DEF Die, Fail
  <2>2. claim' \in [Invites -> Requests \cup {None}]
    BY <1>19 DEF Die, TypeOK
  <2>. QED BY <1>i, <1>s, <2>1, <2>2, OneRequest DEF TypeOK, admin, db
<1>20. ASSUME NEW i \in Invites, BeginRevoke(i) PROVE TypeOK'
  BY <1>20, <1>s DEF BeginRevoke, TypeOK, db
<1>21. ASSUME NEW i \in Invites, FinishRevoke(i) PROVE TypeOK'
  BY <1>21, <1>s DEF FinishRevoke, TypeOK
<1>22. CASE FlipRelease
  BY <1>22, <1>s DEF FlipRelease, TypeOK, db
<1>23. CASE Tick
  <2>1. UNCHANGED <<admin, users, tenants, claim, begun, minted, landed, counted>>
    BY <1>23 DEF Tick
  <2>2. invites' \in [Invites -> [state : {"none", "open", "used", "gone"}, left : 0..InviteTTL]]
    <3>1. \A n \in 0..InviteTTL : Later(n) \in 0..InviteTTL
      BY DEF Later
    <3>. QED BY <1>23, <3>1 DEF Tick, TypeOK
  <2>3. sessions' \subseteq [invite : Invites, number : Nat, left : 0..SessionTTL]
    <3>1. \A n \in 0..SessionTTL : Later(n) \in 0..SessionTTL
      BY DEF Later
    <3>2. \A s \in sessions : [s EXCEPT !.left = Later(@)] \in [invite : Invites, number : Nat, left : 0..SessionTTL]
      BY <3>1 DEF TypeOK
    <3>. QED BY <1>23, <3>2 DEF Tick
  <2>4. ASSUME NEW q \in Requests, "left" \in DOMAIN req[q]
        PROVE  [req[q] EXCEPT !.left = Later(@)] \in RequestStates
    <3>1. req[q] \in Redemptions
      BY <1>r, <2>4 DEF RequestStates, Idle, Visits, SignIns, Admitted, Answers
    <3>. QED BY <3>1 DEF Later, Redemptions, RequestStates
  <2>5. req' \in [Requests -> RequestStates]
    BY <1>23, <1>r, <2>4 DEF Tick
  <2>. QED BY <1>s, <2>1, <2>2, <2>3, <2>5 DEF TypeOK, admin
<1>24. CASE UNCHANGED vars
  BY <1>24, <1>s DEF vars, TypeOK
<1>. QED
  BY <1>1, <1>5, <1>7, <1>8, <1>9, <1>10, <1>11, <1>12, <1>13, <1>14, <1>15, <1>16, <1>17,
     <1>18, <1>19, <1>20, <1>21, <1>22, <1>23, <1>24 DEF Next, Serve, Redeem, Manage

\* The initial states are well typed, with or without a user of before.
LEMMA TypeInit == Init => TypeOK
<1> SUFFICES ASSUME Init PROVE TypeOK
  OBVIOUS
<1> USE ConstantsAssumption DEF ConstantsAssumption
<1>1. tenants = 0..0 \/ tenants = 0..1
  BY DEF Init, Demo
<1>2. Demo \in tenants /\ IsFiniteSet(tenants) /\ tenants = 0..(Cardinality(tenants) - 1)
  <2>1. PICK n \in {0, 1} : tenants = 0..n
    BY <1>1
  <2>2. IsFiniteSet(0..n) /\ Cardinality(0..n) = n + 1
    BY FS_Interval
  <2>. QED BY <2>1, <2>2 DEF Demo
<1>3. users \subseteq [tenant : tenants, email : {EmailOf[s] : s \in Subs}, sub : Subs \cup {None}]
  BY DEF Init
<1>4. req \in [Requests -> RequestStates]
  BY DEF Init, RequestStates
<1>. QED BY <1>2, <1>3, <1>4 DEF Init, TypeOK

\* Type correctness: whatever requests race, fail or die, a record of the kind its phase
\* says, an invite in one of its states, tenants numbered without a gap.
THEOREM TypeCorrect == Spec => []TypeOK
  BY TypeInit, TypeStep, PTL DEF Spec
----------------------------------------------------------------------------
\* What the three ways to move on do to a request of a visitor.
LEMMA Settling ==
  ASSUME TypeOK, NEW q \in Requests, req[q] \in Visits \cup SignIns, req[q].h.demo = None, req[q].h.sub # None,
         NEW phase \in SignInPhases, Settle(q, phase)
  PROVE  /\ req'[q] \in SignIns /\ req'[q].phase = phase /\ req'[q].h = req[q].h /\ req'[q].pin = req[q].pin
         /\ \A p \in Requests \ {q} : req'[p] = req[p]
<1>1. req' = [req EXCEPT ![q] = [req[q] EXCEPT !.phase = phase]]
  BY DEF Settle, TypeOK
<1>2. req'[q] = [req[q] EXCEPT !.phase = phase] /\ \A p \in Requests \ {q} : req'[p] = req[p]
  BY <1>1 DEF TypeOK
<1>. QED BY <1>2, SettledSignIn

\* A request let through keeps its headers and pin, and has its tenant.
LEMMA Admitting ==
  ASSUME TypeOK, NEW q \in Requests, NEW tenant, Authorised(q, tenant)
  PROVE  /\ req'[q] = [phase |-> "authorised", h |-> req[q].h, pin |-> req[q].pin, tenant |-> tenant]
         /\ req'[q].phase = "authorised" /\ req'[q].tenant = tenant
         /\ req'[q].h = req[q].h /\ req'[q].pin = req[q].pin
         /\ \A p \in Requests \ {q} : req'[p] = req[p]
  BY DEF Authorised, TypeOK

\* A failing request becomes idle.
LEMMA Failing ==
  ASSUME TypeOK, NEW q \in Requests, Fail(q)
  PROVE  req'[q] = Idle /\ \A p \in Requests \ {q} : req'[p] = req[p]
  BY DEF Fail, TypeOK

\* A request at a step of its sign-in carries a verified identity and no demo session.
LEMMA SigningIn ==
  ASSUME TypeOK, NEW q \in Requests, req[q].phase \in SignInPhases
  PROVE  req[q] \in SignIns /\ req[q].h.demo = None /\ req[q].h.sub # None /\ req[q].h.sub \in Subs
  BY PhaseTells DEF SignIns, Headers, TypeOK

\* What a step of a redemption keeps of it.
LEMMA Redeeming ==
  ASSUME TypeOK, NEW q \in Requests, req[q].phase \in RedeemPhases, NEW phase \in RedeemPhases, Settle(q, phase)
  PROVE  /\ req'[q].phase = phase /\ req'[q].invite = req[q].invite
         /\ \A p \in Requests \ {q} : req'[p] = req[p]
<1>1. req' = [req EXCEPT ![q] = [req[q] EXCEPT !.phase = phase]]
  BY DEF Settle, TypeOK
<1>2. req'[q] = [req[q] EXCEPT !.phase = phase] /\ \A p \in Requests \ {q} : req'[p] = req[p]
  BY <1>1 DEF TypeOK
<1>. QED BY <1>2, PhaseTells, SettledRedemption DEF TypeOK

\* A visitor's step, or the counting of a start, has no part in any redemption.
LEMMA ServingApart ==
  ASSUME TypeOK, NEW q \in Requests, Serve(q) \/ CountStart(q) \/ \E i \in Invites : BeginRedeem(q, i)
  PROVE  /\ UNCHANGED <<invites, sessions, claim, minted>>
         /\ req'[q].phase # "claimed" /\ \A p \in Requests \ {q} : req'[p] = req[p]
<1>1. ASSUME NEW h \in Headers, Enter(q, h)
      PROVE  req'[q].phase # "claimed" /\ \A p \in Requests \ {q} : req'[p] = req[p]
  BY <1>1 DEF Enter, Idle, TypeOK
<1>2. Idle.phase # "claimed"
  BY DEF Idle
<1>3. CASE Authorise(q)
  <2>1. req[q] \in Visits
    BY <1>3, PhaseTells DEF Authorise, TypeOK
  <2>0. UNCHANGED <<invites, sessions, claim, minted>>
    BY <1>3 DEF Authorise, db
  <2>2. CASE Authorised(q, Demo)
    <3>1. req'[q].phase = "authorised" /\ \A p \in Requests \ {q} : req'[p] = req[p]
      BY <2>2, Admitting
    <3>. QED BY <2>0, <3>1
  <2>3. CASE Fail(q)
    BY <1>2, <2>0, <2>3, Failing
  <2>4. CASE req[q].h.demo = None /\ req[q].h.sub # None /\ Settle(q, "bySub")
    BY <2>0, <2>1, <2>4, Settling DEF SignInPhases
  <2>. QED BY <1>3, <2>2, <2>3, <2>4 DEF Authorise
<1>4. CASE FindBySub(q) \/ ReRead(q) \/ Link(q) \/ Provision(q) \/ FindByEmail(q)
  <2>1. req[q].phase \in SignInPhases /\ UNCHANGED <<invites, sessions, claim, minted>>
    BY <1>4 DEF FindBySub, ReRead, Link, Provision, FindByEmail, SignInPhases, db
  <2>2. (\E tenant : Authorised(q, tenant)) \/ (\E phase \in SignInPhases : Settle(q, phase)) \/ Fail(q)
    BY <1>4 DEF FindBySub, ReRead, Link, Provision, FindByEmail, Land, SignInPhases
  <2>3. CASE \E phase \in SignInPhases : Settle(q, phase)
    BY <2>1, <2>3, Settling, SigningIn DEF SignInPhases
  <2>4. CASE \E tenant : Authorised(q, tenant)
    <3>1. PICK tenant : Authorised(q, tenant)
      BY <2>4
    <3>2. req'[q].phase = "authorised" /\ \A p \in Requests \ {q} : req'[p] = req[p]
      BY <3>1, Admitting
    <3>. QED BY <2>1, <3>2
  <2>5. CASE Fail(q)
    BY <1>2, <2>1, <2>5, Failing
  <2>. QED BY <2>2, <2>3, <2>4, <2>5
<1>5. CASE Handle(q)
  BY <1>5 DEF Handle, TypeOK, db
<1>6. CASE Leave(q) \/ CountStart(q)
  BY <1>2, <1>6, Failing DEF Leave, CountStart, db
<1>7. ASSUME NEW i \in Invites, BeginRedeem(q, i)
      PROVE  req'[q].phase # "claimed" /\ \A p \in Requests \ {q} : req'[p] = req[p]
  BY <1>7 DEF BeginRedeem, TypeOK
<1>. QED BY <1>1, <1>3, <1>4, <1>5, <1>6, <1>7 DEF Serve, Enter, BeginRedeem, db

\* The strengthening SingleUse and RevokedIsOut need: a code that is not used has made no
\* session, and a redemption that claimed one holds its row, still open.
CodeInv ==
  /\ \A i \in Invites : /\ invites[i].state \in {"none", "open"} => minted[i] = 0
                        /\ minted[i] <= 1
  /\ \A q \in Requests : req[q].phase = "claimed" =>
       claim[req[q].invite] = q /\ invites[req[q].invite].state = "open"
  /\ RevokedIsOut

\* Every step preserves it.
LEMMA CodeStep == TypeOK /\ CodeInv /\ [Next]_vars => CodeInv'
<1> SUFFICES ASSUME TypeOK, CodeInv, [Next]_vars PROVE CodeInv'
  OBVIOUS
<1> USE ConstantsAssumption DEF ConstantsAssumption
<1>b. ASSUME UNCHANGED <<invites, sessions, claim, minted>>,
             \A q \in Requests : req'[q].phase = "claimed" => req'[q] = req[q]
      PROVE  CodeInv'
  BY <1>b DEF CodeInv, RevokedIsOut
<1>c. \A q \in Requests : req[q].phase \in RedeemPhases => req[q].invite \in Invites
  BY PhaseTells DEF TypeOK, Redemptions
<1>1. ASSUME NEW q \in Requests, Serve(q) \/ CountStart(q) \/ \E i \in Invites : BeginRedeem(q, i) PROVE CodeInv'
  BY <1>1, <1>b, ServingApart
<1>2. ASSUME NEW q \in Requests, Claim(q) PROVE CodeInv'
  <2>0. PICK i \in Invites : i = req[q].invite
    BY <1>2, <1>c DEF Claim, RedeemPhases
  <2>1. req[q].phase = "redeem" /\ claim[i] = None /\ UNCHANGED <<invites, sessions, minted>>
    BY <1>2, <2>0 DEF Claim, db
  <2>2. CASE Fail(q) /\ UNCHANGED claim
    BY <1>b, <2>1, <2>2, Failing DEF Idle
  <2>3. CASE Claimable(q, i) /\ claim' = [claim EXCEPT ![i] = q] /\ Settle(q, "claimed")
    <3>1. req'[q].phase = "claimed" /\ req'[q].invite = i /\ \A p \in Requests \ {q} : req'[p] = req[p]
      BY <2>0, <2>1, <2>3, Redeeming DEF RedeemPhases
    <3>2. \A p \in Requests : req[p].phase = "claimed" => req[p].invite # i
      BY <2>1 DEF CodeInv
    <3>3. invites[i].state = "open" /\ claim'[i] = q
      BY <2>3 DEF Claimable, TypeOK
    <3>4. \A j \in Invites \ {i} : claim'[j] = claim[j]
      BY <2>3 DEF TypeOK
    <3>5. ASSUME NEW p \in Requests, req'[p].phase = "claimed"
          PROVE  claim'[req'[p].invite] = p /\ invites'[req'[p].invite].state = "open"
      <4>1. CASE p = q
        BY <2>1, <3>1, <3>3, <4>1
      <4>2. CASE p # q
        <5>1. req'[p] = req[p] /\ req[p].invite \in Invites \ {i}
          BY <1>c, <3>1, <3>2, <3>5, <4>2 DEF RedeemPhases
        <5>. QED BY <2>1, <3>4, <3>5, <5>1 DEF CodeInv
      <4>. QED BY <4>1, <4>2
    <3>. QED BY <2>1, <3>5 DEF CodeInv, RevokedIsOut
  <2>. QED BY <1>2, <2>0, <2>2, <2>3 DEF Claim
<1>3. ASSUME NEW q \in Requests, Grant(q) PROVE CodeInv'
  <2>0. PICK i \in Invites : i = req[q].invite
    BY <1>3, <1>c DEF Grant, RedeemPhases
  <2>1. /\ req[q].phase = "claimed" /\ Settle(q, "granted")
        /\ invites' = [invites EXCEPT ![i].state = "used"]
        /\ sessions' = sessions \cup {[invite |-> i, number |-> minted[i] + 1, left |-> req[q].left]}
        /\ claim' = [claim EXCEPT ![i] = None] /\ minted' = [minted EXCEPT ![i] = @ + 1]
    BY <1>3, <2>0 DEF Grant
  <2>2. claim[i] = q /\ invites[i].state = "open" /\ minted[i] = 0
    BY <2>0, <2>1 DEF CodeInv
  <2>3. req'[q].phase = "granted" /\ \A p \in Requests \ {q} : req'[p] = req[p]
    BY <2>1, Redeeming DEF RedeemPhases
  <2>4. invites'[i].state = "used" /\ minted'[i] = 1
        /\ \A j \in Invites \ {i} : invites'[j] = invites[j] /\ minted'[j] = minted[j] /\ claim'[j] = claim[j]
    BY <2>1, <2>2 DEF TypeOK
  <2>5. ASSUME NEW p \in Requests, req'[p].phase = "claimed"
        PROVE  claim'[req'[p].invite] = p /\ invites'[req'[p].invite].state = "open"
    <3>1. p # q /\ req'[p] = req[p] /\ req[p].invite \in Invites
      BY <1>c, <2>3, <2>5 DEF RedeemPhases
    <3>2. req[p].invite # i
      BY <2>2, <2>5, <3>1 DEF CodeInv
    <3>. QED BY <2>4, <2>5, <3>1, <3>2 DEF CodeInv
  <2>6. \A s \in sessions' : invites'[s.invite].state = "used"
    BY <2>1, <2>4 DEF CodeInv, RevokedIsOut, TypeOK
  <2>. QED BY <2>4, <2>5, <2>6 DEF CodeInv, RevokedIsOut
<1>4. ASSUME NEW q \in Requests, Die(q) PROVE CodeInv'
  <2>1. /\ Fail(q) /\ UNCHANGED <<invites, sessions, minted>>
        /\ claim' = [i \in Invites |-> IF claim[i] = q THEN None ELSE claim[i]]
    BY <1>4 DEF Die, db
  <2>2. req'[q].phase # "claimed" /\ \A p \in Requests \ {q} : req'[p] = req[p]
    BY <2>1, Failing DEF Idle
  <2>3. \A p \in Requests \ {q} : req[p].phase = "claimed" => claim'[req[p].invite] = p
    BY <1>c, <2>1 DEF CodeInv, RedeemPhases
  <2>. QED BY <2>1, <2>2, <2>3 DEF CodeInv, RevokedIsOut
<1>5. ASSUME NEW i \in Invites, CreateInvite(i) PROVE CodeInv'
  <2>1. /\ invites[i].state = "none" /\ UNCHANGED <<sessions, claim, req, minted>>
        /\ invites' = [invites EXCEPT ![i] = [state |-> "open", left |-> InviteTTL]]
    BY <1>5 DEF CreateInvite
  <2>2. invites'[i].state = "open" /\ \A j \in Invites \ {i} : invites'[j] = invites[j]
    BY <2>1 DEF TypeOK
  <2>3. \A s \in sessions : s.invite \in Invites \ {i}
    BY <2>1 DEF CodeInv, RevokedIsOut, TypeOK
  <2>. QED BY <1>c, <2>1, <2>2, <2>3 DEF CodeInv, RevokedIsOut, RedeemPhases
<1>6. ASSUME NEW i \in Invites, BeginRevoke(i) PROVE CodeInv'
  BY <1>6, <1>b DEF BeginRevoke, db
<1>7. ASSUME NEW i \in Invites, FinishRevoke(i) PROVE CodeInv'
  <2>1. /\ claim[i] = None /\ UNCHANGED <<claim, req, minted>>
        /\ invites' = [invites EXCEPT ![i].state = "gone"]
        /\ sessions' = {s \in sessions : s.invite # i \/ s.number \notin SessionsOf(i)}
    BY <1>7 DEF FinishRevoke, CascadeTo
  <2>2. invites'[i].state = "gone" /\ \A j \in Invites \ {i} : invites'[j] = invites[j]
    BY <2>1 DEF TypeOK
  <2>3. \A s \in sessions' : s \in sessions /\ s.invite \in Invites \ {i}
    BY <2>1 DEF SessionsOf, TypeOK
  \* A redemption that claimed the code holds the revocation up.
  <2>4. \A q \in Requests : req[q].phase = "claimed" => req[q].invite \in Invites \ {i}
    BY <1>c, <2>1 DEF CodeInv, RedeemPhases
  <2>. QED BY <2>1, <2>2, <2>3, <2>4 DEF CodeInv, RevokedIsOut
<1>8. CASE FlipRelease
  BY <1>8, <1>b DEF FlipRelease, db
<1>9. CASE Tick
  <2>1. /\ invites' = [i \in Invites |-> [invites[i] EXCEPT !.left = Later(@)]]
        /\ sessions' = {[s EXCEPT !.left = Later(@)] : s \in sessions}
        /\ req' = [q \in Requests |-> IF "left" \in DOMAIN req[q] THEN [req[q] EXCEPT !.left = Later(@)] ELSE req[q]]
        /\ UNCHANGED <<claim, minted>>
    BY <1>9 DEF Tick
  <2>2. \A i \in Invites : invites'[i].state = invites[i].state
    BY <2>1 DEF TypeOK
  <2>3. ASSUME NEW q \in Requests, req'[q].phase = "claimed"
        PROVE  req[q].phase = "claimed" /\ req'[q].invite = req[q].invite
    <3>1. CASE "left" \in DOMAIN req[q]
      <4>1. req[q] \in Redemptions
        <5>1. req[q] \in RequestStates
          BY DEF TypeOK
        <5>. QED BY <3>1, <5>1 DEF RequestStates, Idle, Visits, SignIns, Admitted, Answers
      <4>2. req'[q] = [req[q] EXCEPT !.left = Later(@)]
        BY <2>1, <3>1
      <4>. QED BY <2>3, <4>1, <4>2 DEF Redemptions
    <3>2. CASE "left" \notin DOMAIN req[q]
      <4>1. req'[q] = req[q]
        BY <2>1, <3>2
      <4>2. req[q] \in Redemptions
        BY <2>3, <4>1, PhaseTells DEF TypeOK, RedeemPhases
      <4>. QED BY <3>2, <4>2 DEF Redemptions
    <3>. QED BY <3>1, <3>2
  <2>4. \A s \in sessions' : \E s0 \in sessions : s.invite = s0.invite
    BY <2>1 DEF TypeOK
  <2>5. \A s \in sessions : s.invite \in Invites
    BY DEF TypeOK
  <2>6. \A s \in sessions' : invites'[s.invite].state = "used"
    BY <2>2, <2>4, <2>5 DEF CodeInv, RevokedIsOut
  <2>7. \A q \in Requests : req'[q].phase = "claimed" =>
          claim'[req'[q].invite] = q /\ invites'[req'[q].invite].state = "open"
    BY <1>c, <2>1, <2>2, <2>3 DEF CodeInv, RedeemPhases
  <2>8. \A i \in Invites : (invites'[i].state \in {"none", "open"} => minted'[i] = 0) /\ minted'[i] <= 1
    BY <2>1, <2>2 DEF CodeInv
  <2>. QED BY <2>6, <2>7, <2>8 DEF CodeInv, RevokedIsOut
<1>10. CASE UNCHANGED vars
  BY <1>10, <1>b DEF vars
<1>. QED
  BY <1>1, <1>2, <1>3, <1>4, <1>5, <1>6, <1>7, <1>8, <1>9, <1>10 DEF Next, Redeem, Manage

\* At the start no invite was made.
LEMMA CodeInit == Init => CodeInv
  BY DEF Init, CodeInv, RevokedIsOut, Idle

\* A code makes at most one session, whatever redemptions of it race, die or are slow.
THEOREM CodesWorkOnce == Spec => []SingleUse
<1>1. TypeOK /\ CodeInv => SingleUse
  BY DEF TypeOK, CodeInv, SingleUse
<1>. QED BY <1>1, TypeInit, TypeStep, CodeInit, CodeStep, PTL DEF Spec

\* No session outlives its invite, not even one minted while the invite was revoked.
THEOREM RevocationEnds == Spec => []RevokedIsOut
<1>1. CodeInv => RevokedIsOut
  BY DEF CodeInv
<1>. QED BY <1>1, TypeInit, TypeStep, CodeInit, CodeStep, PTL DEF Spec
----------------------------------------------------------------------------
\* The strengthening OneWorkspacePerIdentity needs: an address belongs to one user, an
\* identity to the user of its address, and so does every tenant it ever landed on.
LandInv ==
  /\ \A u \in users, v \in users : u.email = v.email => u = v
  /\ \A u \in users : u.sub # None => u.email = EmailOf[u.sub]
  /\ \A u \in users : u.tenant # Demo
  /\ \A p \in landed : \E u \in users : u.email = EmailOf[p[1]] /\ u.tenant = p[2]
  /\ \A t \in tenants \ {Demo} : \E u \in users : u.tenant = t

\* Every step preserves it.
LEMMA LandStep == TypeOK /\ LandInv /\ [Next]_vars => LandInv'
<1> SUFFICES ASSUME TypeOK, LandInv, [Next]_vars PROVE LandInv'
  OBVIOUS
<1> USE ConstantsAssumption DEF ConstantsAssumption
<1>b. ASSUME UNCHANGED <<users, tenants, landed>> PROVE LandInv'
  BY <1>b DEF LandInv
\* An identity found by its own row.
<1>c. ASSUME NEW q \in Requests, req[q].phase \in SignInPhases, NEW u \in UsersOf(req[q].h.sub), Land(q, u),
             UNCHANGED <<users, tenants>>
      PROVE  LandInv'
  <2>1. u \in users /\ u.sub = req[q].h.sub /\ u.sub # None
    BY <1>c, SigningIn DEF UsersOf
  <2>2. landed' = landed \cup {<<u.sub, u.tenant>>} /\ u.email = EmailOf[u.sub]
    BY <1>c, <2>1 DEF Land, LandInv
  <2>. QED BY <1>c, <2>1, <2>2 DEF LandInv
<1>1. ASSUME NEW q \in Requests, FindBySub(q) PROVE LandInv'
  <2>1. req[q].phase \in SignInPhases /\ UNCHANGED <<users, tenants>>
    BY <1>1 DEF FindBySub, SignInPhases, db
  <2>. QED BY <1>1, <1>b, <1>c, <2>1 DEF FindBySub
<1>2. ASSUME NEW q \in Requests, ReRead(q) PROVE LandInv'
  <2>1. req[q].phase \in SignInPhases /\ UNCHANGED <<users, tenants>>
    BY <1>2 DEF ReRead, SignInPhases, db
  <2>. QED BY <1>2, <1>b, <1>c, <2>1 DEF ReRead
<1>3. ASSUME NEW q \in Requests, Link(q) PROVE LandInv'
  <2>1. req[q].phase \in SignInPhases /\ UNCHANGED tenants
    BY <1>3 DEF Link, SignInPhases
  <2>2. PICK sub \in Subs : sub = req[q].h.sub
    BY <2>1, SigningIn
  <2>3. PICK u \in users : u.email = EmailOf[sub] /\ users' = (users \ {u}) \cup {[u EXCEPT !.sub = sub]} /\ Land(q, u)
    BY <1>3, <2>2 DEF Link, ByEmail
  <2>4. PICK v : v = [u EXCEPT !.sub = sub]
    OBVIOUS
  <2>5. v.email = u.email /\ v.tenant = u.tenant /\ v.sub = sub
    BY <2>4 DEF TypeOK
  <2>6. users' = (users \ {u}) \cup {v} /\ landed' = landed \cup {<<sub, u.tenant>>}
    BY <2>2, <2>3, <2>4 DEF Land
  <2>7. \A x \in users', y \in users' : x.email = y.email => x = y
    BY <2>3, <2>5, <2>6 DEF LandInv
  <2>8. (\A x \in users' : x.sub # None => x.email = EmailOf[x.sub]) /\ \A x \in users' : x.tenant # Demo
    BY <2>3, <2>5, <2>6 DEF LandInv
  \* Whatever the old row witnessed the new one does.
  <2>9. \A x \in users : \E y \in users' : y.email = x.email /\ y.tenant = x.tenant
    BY <2>5, <2>6
  <2>10. \A p \in landed' : \E x \in users' : x.email = EmailOf[p[1]] /\ x.tenant = p[2]
    BY <2>3, <2>5, <2>6, <2>9 DEF LandInv
  <2>11. \A t \in tenants' \ {Demo} : \E x \in users' : x.tenant = t
    BY <2>1, <2>9 DEF LandInv
  <2>. QED BY <2>7, <2>8, <2>10, <2>11 DEF LandInv
<1>4. ASSUME NEW q \in Requests, Provision(q) PROVE LandInv'
  <2>1. req[q].phase \in SignInPhases
    BY <1>4 DEF Provision, SignInPhases
  <2>2. PICK sub \in Subs : sub = req[q].h.sub
    BY <2>1, SigningIn
  <2>3. PICK t : t = Cardinality(tenants) /\ t # Demo
    BY NextTenant
  <2>4. PICK v : v = [tenant |-> t, email |-> EmailOf[sub], sub |-> sub]
    OBVIOUS
  <2>5. CASE /\ ByEmail(EmailOf[sub]) = {} /\ tenants' = tenants \cup {t} /\ users' = users \cup {v}
             /\ Land(q, [tenant |-> t])
    <3>1. v.email = EmailOf[sub] /\ v.tenant = t /\ v.sub = sub /\ landed' = landed \cup {<<sub, t>>}
      BY <2>2, <2>4, <2>5 DEF Land
    <3>2. \A u \in users : u.email # v.email
      BY <2>5, <3>1 DEF ByEmail
    <3>. QED BY <2>3, <2>5, <3>1, <3>2 DEF LandInv
  <2>6. CASE UNCHANGED <<tenants, users, landed>>
    BY <1>b, <2>6
  <2>. QED BY <1>4, <2>2, <2>3, <2>4, <2>5, <2>6 DEF Provision
<1>5. ASSUME NEW q \in Requests, Redeem(q) \/ Die(q) PROVE LandInv'
  BY <1>5, <1>b DEF Redeem, Die, BeginRedeem, Claim, Grant, CountStart, db
<1>6. ASSUME NEW q \in Requests, (\E h \in Headers : Enter(q, h)) \/ Authorise(q) \/ FindByEmail(q) \/ Handle(q) \/ Leave(q)
      PROVE LandInv'
  BY <1>6, <1>b DEF Enter, Authorise, FindByEmail, Handle, Leave, db
<1>7. CASE Manage \/ Tick
  BY <1>7, <1>b DEF Manage, FlipRelease, CreateInvite, BeginRevoke, FinishRevoke, Tick, db
<1>8. CASE UNCHANGED vars
  BY <1>8, <1>b DEF vars
<1>. QED
  BY <1>1, <1>2, <1>3, <1>4, <1>5, <1>6, <1>7, <1>8 DEF Next, Serve

\* At the start there is no user, or one without an identity.
LEMMA LandInit == Init => LandInv
<1> SUFFICES ASSUME Init PROVE LandInv
  OBVIOUS
<1>1. CASE users = {} /\ tenants = {Demo}
  BY <1>1 DEF Init, LandInv
<1>2. ASSUME NEW sub \in Subs, users = {[tenant |-> 1, email |-> EmailOf[sub], sub |-> None]}, tenants = {Demo, 1}
      PROVE  LandInv
  BY <1>2 DEF Init, LandInv, Demo
<1>. QED BY <1>1, <1>2 DEF Init

\* An identity resolves to one workspace for ever and no workspace is without its user,
\* whichever of its first requests race, fail or die.
THEOREM OneWorkspace == Spec => []OneWorkspacePerIdentity
<1>1. LandInv => OneWorkspacePerIdentity
  BY DEF LandInv, OneWorkspacePerIdentity
<1>. QED BY <1>1, TypeInit, TypeStep, LandInit, LandStep, PTL DEF Spec
----------------------------------------------------------------------------
\* The strengthening ServedWithinScope needs: the pin is the demo header's and nobody
\* else's, what passed the middlewares is allowed, and a request that may change
\* something was admitted to a tenant of its own.
Scope(row) ==
  /\ row \in Visits \cup SignIns \cup Admitted =>
       /\ row.pin = IF row.h.demo # None THEN DemoPin(deployment) ELSE NoPin
       /\ row.h.demo # None => RouteAllowed(row.h.route)
       /\ ~ReadOnlyRefused(row.h)
  /\ row \in Admitted =>
       /\ row.h.demo # None => row.tenant = Demo
       /\ row.h.route \in Persisting => row.tenant # Demo
  /\ row.phase = "answered" =>
       /\ row.h.demo # None => /\ {row.tenant, row.target} \cup row.lists = {Demo}
                               /\ row.sees \cap (AdviceFeatures \cup LockedCards(deployment)) = {}
       /\ row.h.route \in Persisting => row.target # Demo
       /\ row.h.demo = None /\ ~deployment.simulator =>
            /\ row.sees \subseteq TierFeatures[deployment.tier]
            /\ ~deployment.feed => row.sees \cap (FeedDerived \cup {"market_board"}) = {}
ScopeInv == \A q \in Requests : Scope(req[q])

\* What a demo request's pin leaves out: advice and the cards shown as locked.
LEMMA PinnedScope ==
  ASSUME NEW axes
  PROVE  Available(deployment, DemoPin(deployment), axes) \cap (AdviceFeatures \cup LockedCards(deployment)) = {}
<1>1. Available(deployment, DemoPin(deployment), axes) \subseteq Features \cap DemoPin(deployment).features
  BY DEF Available, Resolved, Included, DemoPin
<1>2. DemoPin(deployment).features \cap AdviceFeatures = {}
  BY DEF DemoPin
<1>3. Features \cap {"deploy_cash", "intelligence"} = {}
  BY DEF Features, Personal, Pro, Beta
<1>4. {"market_board", "research_intel", "alpha_engine"} \subseteq AdviceFeatures
  BY DEF AdviceFeatures
<1>5. deployment.feedLocked => DemoPin(deployment).features \cap FeedDerived = {}
  BY DEF DemoPin
<1>. QED BY <1>1, <1>2, <1>3, <1>4, <1>5 DEF LockedCards

\* What a deployment without the simulator offers a request without a pin.
LEMMA UnpinnedScope ==
  ASSUME deployment \in Deployment, ~deployment.simulator, NEW preview \in Preview
  PROVE  LET sees == Available(deployment, NoPin, Axes(deployment, NoPin, preview)) IN
         /\ sees \subseteq TierFeatures[deployment.tier]
         /\ ~deployment.feed => sees \cap (FeedDerived \cup {"market_board"}) = {}
<1> DEFINE axes == Axes(deployment, NoPin, preview)
           sees == Available(deployment, NoPin, axes)
<1>1. axes.tier = deployment.tier /\ axes.feed = deployment.feed
  BY DEF Axes, NoPin
<1>2. sees \subseteq TierFeatures[deployment.tier]
  BY <1>1 DEF Available, Resolved, Included, NoPin
<1>3. \A f \in sees : Requires(f) \subseteq Provisioned(axes.feed)
  BY DEF Available, Resolved
<1>4. ~deployment.feed => Provisioned(axes.feed) = FreeSources
  BY <1>1 DEF Provisioned
<1>5. \A f \in FeedDerived \cup {"market_board"} : ~(Requires(f) \subseteq FreeSources)
  BY DEF FeedDerived, Requires, FreeSources
<1>. QED BY <1>2, <1>3, <1>4, <1>5

\* Requests out of reach of the rule: idle, or redeeming a code.
LEMMA NoVisit ==
  ASSUME NEW row \in {Idle} \cup Redemptions
  PROVE  Scope(row)
  BY DEF Scope, Idle, Visits, SignIns, Admitted, Redemptions

\* Every step preserves it.
LEMMA ScopeStep == TypeOK /\ LandInv /\ ScopeInv /\ [Next]_vars => ScopeInv'
<1> SUFFICES ASSUME TypeOK, LandInv, ScopeInv, [Next]_vars PROVE ScopeInv'
  OBVIOUS
<1> USE ConstantsAssumption DEF ConstantsAssumption
<1>r. \A q \in Requests : req[q] \in RequestStates /\ Scope(req[q])
  BY DEF TypeOK, ScopeInv
<1>b. ASSUME deployment' = deployment, \A q \in Requests : req'[q] = req[q] \/ Scope(req'[q])
      PROVE  ScopeInv'
  <2> SUFFICES ASSUME NEW q \in Requests PROVE Scope(req[q])'
    BY DEF ScopeInv
  <2>1. Scope(req'[q])
    BY <1>b, <1>r
  <2>. QED BY <1>b, <2>1 DEF Scope, Visits, SignIns, Admitted, Pins
<1>f. ASSUME NEW q \in Requests, Fail(q), deployment' = deployment PROVE ScopeInv'
  BY <1>b, <1>f, Failing, NoVisit
<1>1. ASSUME NEW q \in Requests, NEW h \in Headers, Enter(q, h) PROVE ScopeInv'
  <2> DEFINE row == [phase |-> "entered", h |-> h,
                     pin |-> IF h.demo # None THEN DemoPin(deployment) ELSE NoPin]
  <2>1. deployment' = deployment /\ \A p \in Requests \ {q} : req'[p] = req[p]
    BY <1>1 DEF Enter, TypeOK, admin
  <2>2. CASE (h.demo # None /\ ~RouteAllowed(h.route)) \/ ReadOnlyRefused(h)
    <3>1. req'[q] = Idle
      BY <1>1, <2>2 DEF Enter, TypeOK
    <3>. QED BY <1>b, <2>1, <3>1, NoVisit
  <2>3. CASE ~((h.demo # None /\ ~RouteAllowed(h.route)) \/ ReadOnlyRefused(h))
    <3>1. req'[q] = row
      BY <1>1, <2>3 DEF Enter, TypeOK
    <3>2. row \notin Admitted /\ row.phase # "answered"
      BY DEF Admitted
    <3>3. Scope(row)
      BY <2>3, <3>2 DEF Scope
    <3>. QED BY <1>b, <2>1, <3>1, <3>3
  <2>. QED BY <2>2, <2>3
<1>2. ASSUME NEW q \in Requests, req[q] \in Visits \cup SignIns, req[q].h.demo = None, req[q].h.sub # None,
             NEW phase \in SignInPhases, Settle(q, phase), deployment' = deployment
      PROVE  ScopeInv'
  <2>1. /\ req'[q] \in SignIns /\ req'[q].h = req[q].h /\ req'[q].pin = req[q].pin
        /\ \A p \in Requests \ {q} : req'[p] = req[p]
    BY <1>2, Settling
  <2>2. req'[q] \notin Admitted /\ req'[q].phase # "answered"
    BY <2>1 DEF SignIns, Admitted
  <2>3. Scope(req'[q])
    BY <1>2, <1>r, <2>1, <2>2 DEF Scope
  <2>. QED BY <1>2, <1>b, <2>1, <2>3
<1>3. ASSUME NEW q \in Requests, req[q] \in Visits \cup SignIns, NEW tenant, Authorised(q, tenant), deployment' = deployment,
             req[q].h.demo # None => tenant = Demo,
             req[q].h.route \in Persisting => tenant # Demo
      PROVE  ScopeInv'
  <2>1. req'[q].phase = "authorised" /\ req'[q].h = req[q].h /\ req'[q].pin = req[q].pin /\ req'[q].tenant = tenant
        /\ \A p \in Requests \ {q} : req'[p] = req[p]
    BY <1>3, Admitting
  <2>2. Scope(req'[q])
    BY <1>3, <1>r, <2>1 DEF Scope
  <2>. QED BY <1>3, <1>b, <2>1, <2>2
<1>4. ASSUME NEW q \in Requests, Authorise(q) PROVE ScopeInv'
  <2>1. req[q] \in Visits /\ deployment' = deployment
    BY <1>4, <1>r, PhaseTells DEF Authorise, admin
  <2>2. CASE Authorised(q, Demo) /\ (req[q].h.demo # None \/ req[q].h.route = "taps" \/ req[q].h.xtenant)
    <3>1. req[q].h.route \notin Persisting
      BY <1>r, <2>1, <2>2 DEF Scope, ReadOnlyRefused, RouteAllowed, Persisting
    <3>. QED BY <1>3, <2>1, <2>2, <3>1
  <2>3. CASE req[q].h.demo = None /\ req[q].h.sub # None /\ Settle(q, "bySub")
    BY <1>2, <2>1, <2>3 DEF SignInPhases
  <2>. QED BY <1>4, <1>f, <2>1, <2>2, <2>3 DEF Authorise
\* Who signed in lands on a tenant that is not the demo.
<1>5. ASSUME NEW q \in Requests, req[q].phase \in SignInPhases, NEW u, u.tenant # Demo, Land(q, u), deployment' = deployment
      PROVE  ScopeInv'
  BY <1>3, <1>5, SigningIn DEF Land
<1>u. \A u \in users : u.tenant # Demo
  BY DEF LandInv
<1>6. ASSUME NEW q \in Requests, FindBySub(q) \/ ReRead(q) \/ Link(q) \/ Provision(q) \/ FindByEmail(q) PROVE ScopeInv'
  <2>1. req[q].phase \in SignInPhases /\ deployment' = deployment
    BY <1>6 DEF FindBySub, ReRead, Link, Provision, FindByEmail, SignInPhases, admin
  <2>2. \/ \E u \in users : Land(q, u)
        \/ Land(q, [tenant |-> Cardinality(tenants)])
        \/ \E phase \in SignInPhases : Settle(q, phase)
        \/ Fail(q)
    BY <1>6 DEF FindBySub, ReRead, Link, Provision, FindByEmail, UsersOf, ByEmail, SignInPhases
  <2>3. CASE \E u \in users : Land(q, u)
    BY <1>5, <1>u, <2>1, <2>3
  <2>4. CASE Land(q, [tenant |-> Cardinality(tenants)])
    BY <1>5, <2>1, <2>4, NextTenant
  <2>5. CASE \E phase \in SignInPhases : Settle(q, phase)
    BY <1>2, <2>1, <2>5, SigningIn
  <2>. QED BY <1>f, <2>1, <2>2, <2>3, <2>4, <2>5
<1>7. ASSUME NEW q \in Requests, Handle(q) PROVE ScopeInv'
  <2>1. req[q] \in Admitted /\ deployment' = deployment
    BY <1>7, <1>r, PhaseTells DEF Handle, admin
  <2> DEFINE row(axes) ==
        [phase |-> "answered", h |-> req[q].h, tenant |-> req[q].tenant, target |-> Target(q), lists |-> Listing(q),
         sees |-> Available(deployment, req[q].pin, axes)]
  <2>2. PICK preview \in Preview : req' = [req EXCEPT ![q] = row(Axes(deployment, req[q].pin, preview))]
    BY <1>7 DEF Handle
  <2>3. req'[q] = row(Axes(deployment, req[q].pin, preview)) /\ \A p \in Requests \ {q} : req'[p] = req[p]
    BY <2>2 DEF TypeOK
  <2>4. /\ req'[q].phase = "answered" /\ req'[q].h = req[q].h /\ req'[q].tenant = req[q].tenant
        /\ req'[q].target = Target(q) /\ req'[q].lists = Listing(q)
        /\ req'[q].sees = Available(deployment, req[q].pin, Axes(deployment, req[q].pin, preview))
    BY <2>3
  <2>5. req'[q] \notin Visits \cup SignIns \cup Admitted
    BY <2>4 DEF Visits, SignIns, Admitted
  <2>6. ASSUME req[q].h.demo # None
        PROVE  /\ {req[q].tenant, Target(q)} \cup Listing(q) = {Demo}
               /\ req'[q].sees \cap (AdviceFeatures \cup LockedCards(deployment)) = {}
    <3>1. req[q].tenant = Demo /\ req[q].pin = DemoPin(deployment)
      BY <1>r, <2>1, <2>6 DEF Scope
    <3>2. req[q].pin.on
      BY <3>1 DEF DemoPin
    <3>. QED BY <2>4, <3>1, <3>2, PinnedScope DEF Target, Listing
  <2>7. req[q].h.route \in Persisting => Target(q) # Demo
    <3>1. ~ReadOnlyRefused(req[q].h) /\ (req[q].h.route \in Persisting => req[q].tenant # Demo)
      BY <1>r, <2>1 DEF Scope
    <3>. QED BY <3>1 DEF Target, ReadOnlyRefused
  <2>8. ASSUME req[q].h.demo = None, ~deployment.simulator
        PROVE  /\ req'[q].sees \subseteq TierFeatures[deployment.tier]
               /\ ~deployment.feed => req'[q].sees \cap (FeedDerived \cup {"market_board"}) = {}
    <3>1. req[q].pin = NoPin /\ deployment \in Deployment
      BY <1>r, <2>1, <2>8 DEF Scope, TypeOK
    <3>. QED BY <2>4, <2>8, <3>1, UnpinnedScope
  <2>9. Scope(req'[q])
    BY <2>4, <2>5, <2>6, <2>7, <2>8 DEF Scope
  <2>. QED BY <1>b, <2>1, <2>3, <2>9
<1>8. ASSUME NEW q \in Requests, Leave(q) \/ CountStart(q) \/ Die(q) PROVE ScopeInv'
  BY <1>8, <1>f DEF Leave, CountStart, Die, admin
<1>9. ASSUME NEW q \in Requests, NEW i \in Invites, BeginRedeem(q, i) PROVE ScopeInv'
  <2> DEFINE row == [phase |-> "redeem", invite |-> i, fresh |-> invites[i].left > 0, left |-> SessionTTL]
  <2>1. req'[q] = row /\ deployment' = deployment /\ \A p \in Requests \ {q} : req'[p] = req[p]
    BY <1>9 DEF BeginRedeem, TypeOK, admin
  <2>2. row \in Redemptions
    BY DEF Redemptions
  <2>. QED BY <1>b, <2>1, <2>2, NoVisit
<1>10. ASSUME NEW q \in Requests, req[q].phase \in RedeemPhases, NEW phase \in RedeemPhases, Settle(q, phase), deployment' = deployment
       PROVE ScopeInv'
  <2>1. req' = [req EXCEPT ![q] = [req[q] EXCEPT !.phase = phase]]
    BY <1>10 DEF Settle, TypeOK
  <2>2. req'[q] \in Redemptions /\ \A p \in Requests \ {q} : req'[p] = req[p]
    BY <1>10, <1>r, <2>1, PhaseTells, SettledRedemption DEF TypeOK
  <2>. QED BY <1>10, <1>b, <2>2, NoVisit
<1>11. ASSUME NEW q \in Requests, Claim(q) \/ Grant(q) PROVE ScopeInv'
  <2>1. req[q].phase \in RedeemPhases /\ deployment' = deployment
    BY <1>11 DEF Claim, Grant, RedeemPhases, admin
  <2>2. Settle(q, "claimed") \/ Settle(q, "granted") \/ Fail(q)
    BY <1>11 DEF Claim, Grant
  <2>. QED BY <1>10, <1>f, <2>1, <2>2 DEF RedeemPhases
<1>12. CASE Manage
  BY <1>12, <1>b DEF Manage, FlipRelease, CreateInvite, BeginRevoke, FinishRevoke, admin
<1>13. CASE Tick
  <2>1. deployment' = deployment /\ \A q \in Requests : req'[q] = IF "left" \in DOMAIN req[q] THEN [req[q] EXCEPT !.left = Later(@)] ELSE req[q]
    BY <1>13 DEF Tick, admin
  <2>2. ASSUME NEW q \in Requests, "left" \in DOMAIN req[q]
        PROVE  [req[q] EXCEPT !.left = Later(@)] \in Redemptions
    <3>1. req[q] \in Redemptions
      BY <1>r, <2>2 DEF RequestStates, Idle, Visits, SignIns, Admitted, Answers
    <3>. QED BY <3>1 DEF Later, Redemptions
  <2>. QED BY <1>b, <2>1, <2>2, NoVisit
<1>14. CASE UNCHANGED vars
  BY <1>14, <1>b DEF vars
<1>. QED
  BY <1>1, <1>4, <1>6, <1>7, <1>8, <1>9, <1>11, <1>12, <1>13, <1>14 DEF Next, Serve, Redeem

\* At the start nobody asked for anything.
LEMMA ScopeInit == Init => ScopeInv
  BY NoVisit DEF Init, ScopeInv

\* An answer stays within its scope: a demo session sees the demo household and no advice,
\* nobody changes the shared portfolios, and no feature is shown without its data.
THEOREM AnswersInScope == Spec => []ServedWithinScope
<1>1. ScopeInv => ServedWithinScope
  BY DEF ScopeInv, Scope, ServedWithinScope
<1>. QED BY <1>1, TypeInit, TypeStep, LandInit, LandStep, ScopeInit, ScopeStep, PTL DEF Spec
================================================================================
