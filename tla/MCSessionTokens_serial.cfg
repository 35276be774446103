SPECIFICATION Spec
CONSTANTS
  s1 = s1
  s2 = s2
  ip1 = ip1
  ip2 = ip2
  Users = {u1, u2}
  Sessions = {s1, s2}
  OAuthFamilies = {f1, f2}
  Tokens = {t1, t2, t3}
  Requests = {p1}
  Ips = {ip1, ip2}
  IpOf <- IpOfSession
  LegacyTokens = {t1}
  Crashes = FALSE
  None = None
SYMMETRY Symmetry
INVARIANT FamiliesAreClosed
INVARIANT OneLiveTokenPerFamily
INVARIANT ReplayEndsFamily
