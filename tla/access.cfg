\* Two workers serve visitors with any headers, redemptions and revocations.
SPECIFICATION Spec
CONSTANTS
  q1 = q1
  q2 = q2
  i1 = i1
  s1 = s1
  s2 = s2
  None = None
  Requests = {q1, q2}
  Subs = {s1, s2}
  EmailOf <- SameAddress
  Invites = {i1}
  Deployments <- Deployed
  Routes <- RouteKinds
  InviteTTL = 1
  SessionTTL = 2
  MaxRequests = 3
SYMMETRY Interchangeable
INVARIANTS
  SingleUse
  RevokedIsOut
  ServedWithinScope
  OneWorkspacePerIdentity
