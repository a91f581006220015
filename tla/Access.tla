-------------------------------- MODULE Access ---------------------------------
(***************************************************************************)
(* Who a request is and what it may reach: the middlewares of api/main.py, *)
(* require_tenant_id and resolve_identity_user of api/services/identity.py *)
(* and the invites and sessions of api/services/external_demo.py.          *)
(*                                                                         *)
(* A request passes the middlewares, is authorised against the database,   *)
(* and is handled; a redemption and a revocation are transactions of two   *)
(* statements.  Requests interleave at every statement, READ COMMITTED.    *)
(***************************************************************************)
EXTENDS Entitlements, Integers, FiniteSets

CONSTANTS
  Requests,     \* workers that serve requests
  Subs,         \* verified identities (the sub of a token)
  EmailOf,      \* the address each identity's tokens carry
  Invites,
  None,
  Deployments,  \* the settings a deployment may run with
  Routes,       \* the kinds of routes requested
  InviteTTL, SessionTTL,  \* lifetimes, in ticks
  MaxRequests   \* bound: requests served

ASSUME ConstantsAssumption ==
  /\ InviteTTL \in Nat \ {0} /\ SessionTTL \in Nat \ {0} /\ MaxRequests \in Nat
  /\ Deployments \subseteq Deployment
  /\ None \notin Subs /\ None \notin Invites /\ None \notin Requests

VARIABLES
  deployment, released,   \* settings; the release flag is switched by a restart
  users,        \* users: [tenant, email, sub]
  tenants,      \* tenants: numbered as they are created
  invites,      \* per invite: its state and the ticks it has left
  sessions,     \* external_demo_sessions: [invite, number, left]
  claim,        \* per invite, the redemption that holds its row lock
  revoking,     \* per invite, the sessions a begun revocation has deleted, or None
  req,          \* the requests
  \* bound and observation
  begun,        \* requests begun
  minted,       \* per invite, the sessions ever committed for it
  landed,       \* <<sub, tenant>> an identity was ever resolved to
  counted       \* events: external_demo_session_started

db    == <<users, tenants, invites, sessions>>
admin == <<deployment, released, revoking>>
vars  == <<deployment, released, users, tenants, invites, sessions, claim, revoking,
           req, begun, minted, landed, counted>>

Demo    == 0          \* the fixed demo tenant
Idle    == [phase |-> "idle"]
Headers == [demo : Invites \cup {None},   \* X-Demo-Session: the session of an invite
            sub : Subs \cup {None}, xtenant : BOOLEAN, route : Routes]

\* The kinds of routes.  household: reads under the demo household; advice: its
\* market board and deploy cash; compute: its four POSTs that write nothing;
\* edit: any other mutation of it; own, ownEdit: a portfolio of one's own;
\* create: POST /portfolios; global: the closed set of global reads; taps: the
\* counter of locked cards; other: the rest.
Persisting == {"edit", "ownEdit", "create"}
DemoPath == {"household", "advice", "compute", "edit"}
----------------------------------------------------------------------------
\* external_demo.is_route_allowed, default deny.
RouteAllowed(route) == route \in {"household", "global", "taps", "compute"}

\* Mutant of ReadOnlyRefused: the guard looks at the caller's header only.
ReadOnlyByHeader(h) == h.route \in Persisting /\ h.xtenant

\* _demo_read_only: by the portfolio's path, and by the demo tenant's header.
ReadOnlyRefused(h) ==
  /\ h.route \in Persisting
  /\ h.route \in DemoPath \/ h.xtenant

Enter(q, h) ==
  /\ req[q] = Idle /\ begun < MaxRequests
  /\ begun' = begun + 1
  /\ req' = [req EXCEPT ![q] =
       IF (h.demo # None /\ ~RouteAllowed(h.route)) \/ ReadOnlyRefused(h) THEN Idle
       ELSE [phase |-> "entered", h |-> h,
             pin |-> IF h.demo # None THEN DemoPin(deployment) ELSE NoPin]]
  /\ UNCHANGED <<admin, db, claim, minted, landed, counted>>

Settle(q, phase) == req' = [req EXCEPT ![q].phase = phase]
Fail(q) == req' = [req EXCEPT ![q] = Idle]
Authorised(q, tenant) ==
  req' = [req EXCEPT ![q] = [phase |-> "authorised", h |-> req[q].h, pin |-> req[q].pin, tenant |-> tenant]]

LiveSession(i) == released /\ \E s \in sessions : s.invite = i /\ s.left > 0

\* require_tenant_id: X-Demo-Session first and final, then the bearer token, then
\* X-Tenant-Id for the demo tenant only.
Authorise(q) ==
  /\ req[q].phase = "entered"
  /\ LET h == req[q].h IN
     IF h.demo # None \/ h.route = "taps" THEN (IF LiveSession(h.demo) THEN Authorised(q, Demo) ELSE Fail(q))
     ELSE IF h.sub # None THEN Settle(q, "bySub")
     ELSE IF h.xtenant THEN Authorised(q, Demo) ELSE Fail(q)
  /\ UNCHANGED <<admin, db, claim, begun, minted, landed, counted>>

UsersOf(sub) == {u \in users : u.sub = sub}
ByEmail(e)   == {u \in users : u.email = e}

Land(q, u) ==
  /\ Authorised(q, u.tenant)
  /\ landed' = landed \cup {<<req[q].h.sub, u.tenant>>}

\* resolve_identity_user, first statement.
FindBySub(q) ==
  /\ req[q].phase = "bySub"
  /\ IF UsersOf(req[q].h.sub) # {} THEN \E u \in UsersOf(req[q].h.sub) : Land(q, u)
     ELSE Settle(q, "byEmail") /\ UNCHANGED landed
  /\ UNCHANGED <<admin, db, claim, begun, minted, counted>>

\* Second statement: link a row without identity, refuse one linked to another.
FindByEmail(q) ==
  LET found == ByEmail(EmailOf[req[q].h.sub]) IN
  /\ req[q].phase = "byEmail"
  /\ IF found = {} THEN Settle(q, "provision")
     ELSE IF \E u \in found : u.sub # None THEN Fail(q)      \* 409
     ELSE Settle(q, "link")
  /\ UNCHANGED <<admin, db, claim, begun, minted, landed, counted>>

\* UPDATE users SET identity_user_id = sub WHERE id = ..., whoever it has by now.
Link(q) ==
  LET sub == req[q].h.sub IN
  /\ req[q].phase = "link"
  /\ \E u \in ByEmail(EmailOf[sub]) :
       /\ users' = (users \ {u}) \cup {[u EXCEPT !.sub = sub]}
       /\ Land(q, u)
  /\ UNCHANGED <<admin, tenants, invites, sessions, claim, begun, minted, counted>>

\* Mutant of Provision: nothing keeps the second of two first requests out.
ProvisionUnkeyed(q) ==
  LET sub == req[q].h.sub  t == Cardinality(tenants) IN
  /\ req[q].phase = "provision"
  /\ tenants' = tenants \cup {t}
  /\ users' = users \cup {[tenant |-> t, email |-> EmailOf[sub], sub |-> sub]}
  /\ Land(q, [tenant |-> t])
  /\ UNCHANGED <<admin, invites, sessions, claim, begun, minted, counted>>

\* A tenant and its user in one transaction; a unique key rolls both back.
Provision(q) ==
  LET sub == req[q].h.sub  t == Cardinality(tenants) IN
  /\ req[q].phase = "provision"
  /\ IF UsersOf(sub) = {} /\ ByEmail(EmailOf[sub]) = {}
     THEN /\ tenants' = tenants \cup {t}
          /\ users' = users \cup {[tenant |-> t, email |-> EmailOf[sub], sub |-> sub]}
          /\ Land(q, [tenant |-> t])
     ELSE Settle(q, "reread") /\ UNCHANGED <<tenants, users, landed>>
  /\ UNCHANGED <<admin, invites, sessions, claim, begun, minted, counted>>

\* The loser of the race reads the winner's row.
ReRead(q) ==
  /\ req[q].phase = "reread"
  /\ IF UsersOf(req[q].h.sub) # {} THEN \E u \in UsersOf(req[q].h.sub) : Land(q, u)
     ELSE Fail(q) /\ UNCHANGED landed
  /\ UNCHANGED <<admin, db, claim, begun, minted, counted>>

\* _owned_portfolio: one's own portfolio, or a shared one for any caller.
Target(q) == IF req[q].h.route \in DemoPath THEN Demo ELSE req[q].tenant

\* list_portfolios: one's own and the shared ones; with a pin the household alone.
Listing(q) == IF req[q].pin.on THEN {Demo} ELSE {Demo, req[q].tenant}

Handle(q) ==
  /\ req[q].phase = "authorised"
  /\ \E axes \in {Axes(deployment, req[q].pin, preview) : preview \in Preview} :
       req' = [req EXCEPT ![q] =
         [phase |-> "answered", h |-> req[q].h, tenant |-> req[q].tenant, target |-> Target(q), lists |-> Listing(q),
          sees |-> Available(deployment, req[q].pin, axes)]]
  /\ UNCHANGED <<admin, db, claim, begun, minted, landed, counted>>

Leave(q) ==
  /\ req[q].phase = "answered"
  /\ Fail(q)
  /\ UNCHANGED <<admin, db, claim, begun, minted, landed, counted>>
----------------------------------------------------------------------------
CreateInvite(i) ==
  /\ released /\ invites[i].state = "none"
  /\ invites' = [invites EXCEPT ![i] = [state |-> "open", left |-> InviteTTL]]
  /\ UNCHANGED <<admin, users, tenants, sessions, claim, req, begun, minted, landed, counted>>

\* redeem_invite: the clock is read and the code looked up.
BeginRedeem(q, i) ==
  /\ req[q] = Idle /\ begun < MaxRequests /\ released
  /\ invites[i].state \in {"open", "used"}
  /\ begun' = begun + 1
  /\ req' = [req EXCEPT ![q] =
       [phase |-> "redeem", invite |-> i, fresh |-> invites[i].left > 0, left |-> SessionTTL]]
  /\ UNCHANGED <<admin, db, claim, minted, landed, counted>>

\* Mutant of Claimable: a plain UPDATE by id.
ClaimableAlways(q, i) == invites[i].state # "gone"

\* The conditional UPDATE, which waits for the row's lock and then looks again.
Claimable(q, i) == invites[i].state = "open" /\ req[q].fresh

Claim(q) ==
  LET i == req[q].invite IN
  /\ req[q].phase = "redeem" /\ claim[i] = None
  /\ IF Claimable(q, i)
     THEN claim' = [claim EXCEPT ![i] = q] /\ Settle(q, "claimed")
     ELSE Fail(q) /\ UNCHANGED claim
  /\ UNCHANGED <<admin, db, begun, minted, landed, counted>>

Grant(q) ==
  LET i == req[q].invite IN
  /\ req[q].phase = "claimed"
  /\ invites' = [invites EXCEPT ![i].state = "used"]
  /\ sessions' = sessions \cup {[invite |-> i, number |-> minted[i] + 1, left |-> req[q].left]}
  /\ claim' = [claim EXCEPT ![i] = None]
  /\ minted' = [minted EXCEPT ![i] = @ + 1]
  /\ Settle(q, "granted")
  /\ UNCHANGED <<admin, users, tenants, begun, landed, counted>>

\* The counter is an insert of its own, after the commit.
CountStart(q) ==
  /\ req[q].phase = "granted"
  /\ counted' = counted + 1
  /\ Fail(q)
  /\ UNCHANGED <<admin, db, claim, begun, minted, landed>>

\* The worker dies: what it had not committed is rolled back.
Die(q) ==
  /\ req[q].phase \in {"claimed", "granted", "link", "provision"}
  /\ Fail(q)
  /\ claim' = [i \in Invites |-> IF claim[i] = q THEN None ELSE claim[i]]
  /\ UNCHANGED <<admin, db, begun, minted, landed, counted>>

SessionsOf(i) == {s.number : s \in {t \in sessions : t.invite = i}}

\* revoke_invite: the sessions it can see are deleted first, ...
BeginRevoke(i) ==
  /\ revoking[i] = None /\ invites[i].state \in {"open", "used"}
  /\ revoking' = [revoking EXCEPT ![i] = SessionsOf(i)]
  /\ UNCHANGED <<deployment, released, db, claim, req, begun, minted, landed, counted>>

\* Mutant of CascadeTo: only the sessions the first statement saw go.
CascadeToSeen(i) == revoking[i]

\* ... and the commit deletes the invite, whose foreign key takes along a session
\* committed in between.
CascadeTo(i) == SessionsOf(i)

FinishRevoke(i) ==
  /\ revoking[i] # None /\ claim[i] = None
  /\ revoking' = [revoking EXCEPT ![i] = None]
  /\ invites' = [invites EXCEPT ![i].state = "gone"]
  /\ sessions' = {s \in sessions : s.invite # i \/ s.number \notin CascadeTo(i)}
  /\ UNCHANGED <<deployment, released, users, tenants, claim, req, begun, minted, landed, counted>>

\* A restart with the other value of EXTERNAL_DEMO_RELEASED.
FlipRelease ==
  /\ released' = ~released
  /\ \A q \in Requests : req[q] = Idle
  /\ UNCHANGED <<deployment, revoking, db, claim, req, begun, minted, landed, counted>>

Later(n) == IF n = 0 THEN 0 ELSE n - 1

Tick ==
  /\ \/ \E i \in Invites : invites[i].left > 0
     \/ \E s \in sessions : s.left > 0
  /\ invites' = [i \in Invites |-> [invites[i] EXCEPT !.left = Later(@)]]
  /\ sessions' = {[s EXCEPT !.left = Later(@)] : s \in sessions}
  /\ req' = [q \in Requests |-> IF "left" \in DOMAIN req[q] THEN [req[q] EXCEPT !.left = Later(@)] ELSE req[q]]
  /\ UNCHANGED <<admin, users, tenants, claim, begun, minted, landed, counted>>

Init ==
  /\ deployment \in Deployments /\ released \in BOOLEAN
  \* the demo tenant, and perhaps a user of before the shared identity service
  /\ \/ users = {} /\ tenants = {Demo}
     \/ \E sub \in Subs : users = {[tenant |-> 1, email |-> EmailOf[sub], sub |-> None]} /\ tenants = {Demo, 1}
  /\ invites = [i \in Invites |-> [state |-> "none", left |-> 0]]
  /\ sessions = {} /\ claim = [i \in Invites |-> None] /\ revoking = [i \in Invites |-> None]
  /\ req = [q \in Requests |-> Idle] /\ begun = 0
  /\ minted = [i \in Invites |-> 0] /\ landed = {} /\ counted = 0

Serve(q) ==
  \/ \E h \in Headers : Enter(q, h)
  \/ Authorise(q) \/ FindBySub(q) \/ FindByEmail(q) \/ Link(q) \/ Provision(q) \/ ReRead(q)
  \/ Handle(q) \/ Leave(q)

Redeem(q) == (\E i \in Invites : BeginRedeem(q, i)) \/ Claim(q) \/ Grant(q) \/ CountStart(q)

Manage == FlipRelease \/ \E i \in Invites : CreateInvite(i) \/ BeginRevoke(i) \/ FinishRevoke(i)

Next == Manage \/ Tick \/ \E q \in Requests : Serve(q) \/ Redeem(q) \/ Die(q)

Spec == Init /\ [][Next]_vars
----------------------------------------------------------------------------
Pins        == {NoPin, DemoPin(deployment)}
Visits      == [phase : {"entered"}, h : Headers, pin : Pins]
SignIns     == [phase : {"bySub", "byEmail", "link", "provision", "reread"},
                h : {h \in Headers : h.demo = None /\ h.sub # None}, pin : Pins]
Admitted    == [phase : {"authorised"}, h : Headers, pin : Pins, tenant : Nat]
Answers     == [phase : {"answered"}, h : Headers, tenant : Nat, target : Nat, lists : SUBSET Nat, sees : SUBSET Features]
Redemptions == [phase : {"redeem", "claimed", "granted"}, invite : Invites, fresh : BOOLEAN, left : 0..SessionTTL]
RequestStates == {Idle} \cup Visits \cup SignIns \cup Admitted \cup Answers \cup Redemptions

TypeOK ==
  /\ deployment \in Deployments /\ released \in BOOLEAN
  /\ users \subseteq [tenant : tenants, email : {EmailOf[s] : s \in Subs}, sub : Subs \cup {None}]
  /\ invites \in [Invites -> [state : {"none", "open", "used", "gone"}, left : 0..InviteTTL]]
  /\ claim \in [Invites -> Requests \cup {None}]
  /\ sessions \subseteq [invite : Invites, number : Nat, left : 0..SessionTTL]
  /\ req \in [Requests -> RequestStates]
  /\ begun \in 0..MaxRequests /\ counted \in Nat
  /\ minted \in [Invites -> Nat]
  /\ landed \subseteq Subs \X tenants
  /\ Demo \in tenants /\ IsFiniteSet(tenants) /\ tenants = 0..(Cardinality(tenants) - 1)

\* A code makes at most one session, whatever redemptions of it race, die or are
\* slow, and one that made a session is spent or deleted.
SingleUse ==
  \A i \in Invites : minted[i] <= 1 /\ (minted[i] = 1 => invites[i].state \in {"used", "gone"})

\* "An admin revoking an invite the viewer already redeemed has to be the thing
\* that ends that viewer's access": no session outlives its invite, not even
\* one that was being minted while the invite was revoked.
RevokedIsOut == \A s \in sessions : invites[s.invite].state = "used"

\* What an answered request saw: with a demo header the demo household only and
\* no advice feature, whatever else it carried and whatever the deployment
\* offers; no mutation of the shared portfolios, whoever asked; and for anybody
\* no feature without its data, except that a pin brings its own feed.
ServedWithinScope ==
  \A q \in Requests : req[q].phase = "answered" =>
    LET r == req[q] IN
    /\ r.h.demo # None => /\ {r.tenant, r.target} \cup r.lists = {Demo}
                          /\ r.sees \cap (AdviceFeatures \cup LockedCards(deployment)) = {}
    /\ r.h.route \in Persisting => r.target # Demo
    /\ r.h.demo = None /\ ~deployment.simulator =>
         /\ r.sees \subseteq TierFeatures[deployment.tier]
         /\ ~deployment.feed => r.sees \cap (FeedDerived \cup {"market_board"}) = {}

\* An identity resolves to one workspace for ever, and no workspace is left
\* without its user, whichever of its first requests race or fail.
OneWorkspacePerIdentity ==
  /\ \A p \in landed, p2 \in landed : p[1] = p2[1] => p[2] = p2[2]
  /\ \A t \in tenants \ {Demo} : \E u \in users : u.tenant = t
================================================================================
