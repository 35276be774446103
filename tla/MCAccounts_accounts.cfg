SPECIFICATION Spec
CHECK_DEADLOCK FALSE
CONSTANTS
  h1 = h1
  h2 = h2
  p1 = p1
  p2 = p2
  u1 = u1
  u2 = u2
  u3 = u3
  a1 = a1
  a2 = a2
  n1 = n1
  g1 = g1
  g2 = g2
  f1 = f1
  r1 = r1
  r2 = r2
  r3 = r3
  i1 = i1
  c1 = c1
  c2 = c2
  c3 = c3
  t1 = t1
  Users = {u1, u2, u3}
  Emails = {a1, a2}
  Phones = {n1}
  Handlers = {h1, h2}
  Identities = {g1, g2, f1}
  Roles = {r1, r2, r3}
  Permissions = {p1, p2}
  Invitations = {i1}
  Items <- AllItems
  ProviderOf <- Provider
  Configs = {c1, c2, c3}
  NameOf <- Name
  Tests = {t1}
  Duties <- Mixes
  MaxRequests = 4
  MaxCrashes = 1
  MaxTokens = 2
  MaxAttempts = 1
  UsersAtStart <- StartUsers
  OwnersAtStart <- StartOwners
  ConfigsAtStart <- StartConfigs
  RolesAtStart = {r1, r2}
  SuperRole = r1
  SuperAtStart = {u1, u2}
  None = None
INVARIANT VerifiedMeansProved
INVARIANT CodesAreUsedOnce
INVARIANT AutoLinkedMeansProved
PROPERTY IdentitiesStay
INVARIANT ErasedStaysErased
INVARIANT ProvidersPassTheirOwnTest
INVARIANT SwitchedOffStaysOff
INVARIANT SuperAdminsStay
INVARIANT InvitationsEndOnce
SYMMETRY Symmetry
