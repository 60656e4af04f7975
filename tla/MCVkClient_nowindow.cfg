SPECIFICATION VkSpec
CONSTANTS
  f1 = f1
  f2 = f2
  t1 = t1
  t2 = t2
  t3 = t3
  Nobody = Nobody
  Fetches = {f1, f2}
  Creds = 2
  Reuse = 2
  MaxErr10 = 1
  Tokens = {t1, t2, t3}
PROPERTY
  PersonIsAskedBeforeLockout
