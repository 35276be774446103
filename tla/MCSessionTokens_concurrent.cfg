SPECIFICATION Spec
CONSTANTS
  s1 = s1
  s2 = s2
  ip1 = ip1
  ip2 = ip2
  Users = {u1}
  Sessions = {s1}
  OAuthFamilies = {f1, f2}
  Tokens = {t1, t2, t3}
  Requests = {p1, p2}
  Ips = {ip1}
  IpOf <- IpOfSession
  LegacyTokens = {}
  Crashes = TRUE
  None = None
SYMMETRY Symmetry
INVARIANT RevokedSessionMintsNothing
PROPERTY RevocationIsFinal
