SPECIFICATION Spec
CONSTANTS
  Users = {u1, u2}
  Sids = {s1, s2}
  Secrets = {k1, k2, k3}
  Workers = {w1, w2}
  MaxTries = 3
  None = None
SYMMETRY Symmetry
INVARIANTS
  RefreshSingleUse
  RetryNeverRotates
  UnindexedOnlyByRace
  CurrentSecretAccounted
PROPERTIES
  EndsOwnSessionsOnly
  ImplementsContract
