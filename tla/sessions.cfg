\* One user who changes between passwords, two of which differ after 72 bytes
\* only; two handlers compete for three tokens.
CONSTANTS
  User = {alice}
  Password <- LongPasswords
  significant <- Cut
  Token = {t1, t2, t3}
  Handler = {h1, h2}
  None = None
  Browser = {b1}
SPECIFICATION MCSpec
SYMMETRY Symmetry
INVARIANTS
  LiveIsUnspent
  ForksOverlap
  RevokedForAReason
  OldPasswordEnds
  CookieSpentForAReason
  LogoutEndsSession
