\* One account, two browsers, one reset link.
SPECIFICATION Spec
CONSTANTS
  u1 = u1
  u2 = u2
  b1 = b1
  b2 = b2
  t1 = t1
  Users = {u1}
  Browsers = {b1, b2}
  Tokens = {t1}
  Nobody = Nobody
  NoToken = NoToken
  MaxChanges = 2
  MaxSecrets = 0
  Keeps = {FALSE}
INVARIANT
  TokenOnce
